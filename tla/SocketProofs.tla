---------------------------- MODULE SocketProofs ----------------------------
(***************************************************************************)
(* Undisturbed daemons keep their socket, for any number of processes and  *)
(* paths: the inductive invariant of Socket and what follows from it.      *)
(***************************************************************************)
EXTENDS Socket, TLAPS

\* p has bound the path and has not ended.
Holds(p) == pc[p] \in {"listen", "chmod", "serving"} \cup Ending

Quiet(p) == PathOf[p] \notin disturbed

\* Only who holds a path listens.
ListenersHold ==
    \A p \in Procs : p \in listening =>
        pc[p] \in {"chmod", "serving", "unlink", "close", "dropUnlink", "dropClose"}

\* What is at a path was bound there by a process of that path, which has not
\* ended in order.
InodesAreOwned ==
    \A f \in Paths, p \in Procs : path[f] = p =>
        /\ PathOf[p] = f
        /\ pc[p] \in {"listen", "chmod", "serving", "unlink", "close", "finalRemove", "dead"}

\* On a path nobody has disturbed, at most one process starts, and then the
\* others are settled or gone; one at most holds the path; and one that has found
\* the path free is alone.
OneAtATime ==
    \A p, q \in Procs : Quiet(p) /\ p # q /\ PathOf[p] = PathOf[q] =>
        /\ Starting(p) => ~Starting(q) /\ ~Stopping(q)
        /\ Holds(p) => ~Holds(q)
        /\ pc[p] \in {"remove", "bind"} => ~Holds(q)

\* What a process has seen of such a path is still so.
SightIsTrue ==
    \A p \in Procs : Quiet(p) =>
        /\ pc[p] = "dial" => At(p) # None
        /\ pc[p] = "remove" => At(p) # None /\ At(p) \notin listening
        /\ pc[p] = "bind" => At(p) = None
        /\ pc[p] = "listen" => At(p) = p
        /\ pc[p] = "chmod" \/ Settled(p) => Reachable(p)

\* And none of its calls has failed.
NoneFails == \A p \in Procs : Quiet(p) => pc[p] \notin {"dropUnlink", "dropClose", "failed"}

SocketInv == TypeOK /\ ListenersHold /\ InodesAreOwned /\ OneAtATime /\ SightIsTrue /\ NoneFails

\* While a client looks, the daemons that were there when it set out do not start
\* again, and none that is still there was on a path it has tried, unless its dial failed.
ClientInv ==
    /\ \A p \in client.there : pc[p] \in {"serving"} \cup Ending \cup Finished
    /\ client.state \in {"dialing", "none"} =>
         /\ client.peer = None
         /\ \A p \in client.there, i \in 1 .. Len(Search) :
              i < client.next /\ Search[i] \notin client.barred /\ Settled(p) /\ Reachable(p) =>
                Search[i] # PathOf[p]
    /\ client.state = "none" => client.next > Len(Search)
-----------------------------------------------------------------------------
(* Types.                                                                  *)

LEMMA SearchElements ==
    \A n \in 1 .. Len(Search) + 1 :
        /\ n \in Nat /\ Len(Search) \in Nat
        /\ n <= Len(Search) => Search[n] \in Paths /\ n + 1 \in 1 .. Len(Search) + 1
BY SocketAssumption DEF SocketAssumption

LEMMA InitInv == Init => SocketInv /\ ClientInv
BY SocketAssumption
   DEF Init, SocketInv, ClientInv, TypeOK, ListenersHold, InodesAreOwned, OneAtATime, SightIsTrue,
       NoneFails, Holds, Starting, Stopping, Settled, Reachable, At, Quiet,
       Begun, Ending, Finished, States, Alive

\* Types, and with them who may be listening: TypeOK says that the dead are not.
LEMMA TypeStep == TypeOK /\ ListenersHold /\ [Next]_vars => TypeOK' /\ ListenersHold'
<1> SUFFICES ASSUME TypeOK, ListenersHold, [Next]_vars PROVE TypeOK' /\ ListenersHold'
    OBVIOUS
<1> USE SocketAssumption DEF TypeOK, ListenersHold, Alive, Begun, Ending, Finished, States,
        Goes, SetPath, Ends, Notes, UnlinkOnce
<1>1. ASSUME NEW p \in Procs, Start(p) PROVE TypeOK' /\ ListenersHold'
    BY <1>1 DEF Start
<1>2. ASSUME NEW p \in Procs, RefuseUnreadable(p) PROVE TypeOK' /\ ListenersHold'
    BY <1>2 DEF RefuseUnreadable
<1>3. ASSUME NEW p \in Procs, Stat(p) PROVE TypeOK' /\ ListenersHold'
    BY <1>3 DEF Stat
<1>4. ASSUME NEW p \in Procs, DialRival(p) PROVE TypeOK' /\ ListenersHold'
    BY <1>4 DEF DialRival
<1>5. ASSUME NEW p \in Procs, RemoveStale(p) PROVE TypeOK' /\ ListenersHold'
    BY <1>5 DEF RemoveStale
<1>6. ASSUME NEW p \in Procs, Bind(p) PROVE TypeOK' /\ ListenersHold'
    BY <1>6 DEF Bind
<1>7. ASSUME NEW p \in Procs, ListenOn(p) PROVE TypeOK' /\ ListenersHold'
    BY <1>7 DEF ListenOn
<1>8. ASSUME NEW p \in Procs, Chmod(p) PROVE TypeOK' /\ ListenersHold'
    BY <1>8 DEF Chmod
<1>9. ASSUME NEW p \in Procs, DropUnlink(p) PROVE TypeOK' /\ ListenersHold'
    BY <1>9 DEF DropUnlink
<1>10. ASSUME NEW p \in Procs, DropClose(p) PROVE TypeOK' /\ ListenersHold'
    BY <1>10 DEF DropClose
<1>11. ASSUME NEW p \in Procs, Cancel(p) PROVE TypeOK' /\ ListenersHold'
    BY <1>11 DEF Cancel
<1>12. ASSUME NEW p \in Procs, CloserUnlinks(p) PROVE TypeOK' /\ ListenersHold'
    BY <1>12 DEF CloserUnlinks
<1>13. ASSUME NEW p \in Procs, CloserCloses(p) PROVE TypeOK' /\ ListenersHold'
    BY <1>13 DEF CloserCloses
<1>14. ASSUME NEW p \in Procs, LeaveLoop(p) PROVE TypeOK' /\ ListenersHold'
    BY <1>14 DEF LeaveLoop
<1>15. ASSUME NEW p \in Procs, CloseUnlinks(p) PROVE TypeOK' /\ ListenersHold'
    BY <1>15 DEF CloseUnlinks
<1>16. ASSUME NEW p \in Procs, CloseCloses(p) PROVE TypeOK' /\ ListenersHold'
    BY <1>16 DEF CloseCloses
<1>17. ASSUME NEW p \in Procs, CloseRemoves(p) PROVE TypeOK' /\ ListenersHold'
    BY <1>17 DEF CloseRemoves
<1>18. ASSUME NEW p \in Procs, Crash(p) PROVE TypeOK' /\ ListenersHold'
    BY <1>18 DEF Crash
<1>19. CASE Ask
    BY <1>19 DEF Ask
<1>20. CASE DialNext
  <2> DEFINE f == Search[client.next]
  <2>1. client.next \in 1 .. Len(Search) + 1
        OBVIOUS
  <2>2. CASE client' = [client EXCEPT !.state = "none"]
        BY <1>20, <2>2 DEF DialNext
  <2>3. CASE client.next <= Len(Search) /\ Answers(f)
             /\ client' = [client EXCEPT !.state = "talking", !.peer = path[f]]
    <3>1. path[f] \in Procs
          BY <2>3 DEF Answers
    <3> QED
        BY <1>20, <2>3, <3>1 DEF DialNext
  <2>4. CASE client.next <= Len(Search)
             /\ \E paths \in SUBSET Paths :
                  client' = [client EXCEPT !.next = client.next + 1, !.barred = paths]
    <3>1. client.next + 1 \in 1 .. Len(Search) + 1
          BY <2>1, <2>4, SearchElements
    <3> QED
        BY <1>20, <2>4, <3>1 DEF DialNext
  <2>5. client.barred \in SUBSET Paths
        /\ (client.next <= Len(Search) => client.barred \cup {f} \in SUBSET Paths)
        BY <2>1, SearchElements
  <2>6. client' = [client EXCEPT !.next = client.next + 1]
        => client' = [client EXCEPT !.next = client.next + 1, !.barred = client.barred]
        OBVIOUS
  <2> QED
      BY <1>20, <2>1, <2>2, <2>3, <2>4, <2>5, <2>6 DEF DialNext
<1>21. CASE Answer
    BY <1>21 DEF Answer
<1>22. CASE FailAtDaemon
    BY <1>22 DEF FailAtDaemon
<1>23. CASE UNCHANGED vars
    BY <1>23 DEF vars
<1> QED
    BY <1>1, <1>2, <1>3, <1>4, <1>5, <1>6, <1>7, <1>8, <1>9, <1>10, <1>11, <1>12,
       <1>13, <1>14, <1>15, <1>16, <1>17, <1>18, <1>19, <1>20, <1>21, <1>22,
       <1>23 DEF Next, Client
-----------------------------------------------------------------------------
(* Paths and processes.                                                    *)

\* Only Bind puts an inode at a path, and who ends in order has removed it.
LEMMA OwnedStep == SocketInv /\ [Next]_vars => InodesAreOwned'
<1> SUFFICES ASSUME SocketInv, [Next]_vars PROVE InodesAreOwned'
    OBVIOUS
<1> USE SocketAssumption DEF SocketInv, TypeOK, InodesAreOwned, At, Begun, Ending, Finished, States, Alive,
        Goes, SetPath, Ends, Notes, UnlinkOnce
<1>1. ASSUME NEW p \in Procs, Start(p) PROVE InodesAreOwned'
    BY <1>1 DEF Start, Rivals
<1>2. ASSUME NEW p \in Procs, RefuseUnreadable(p) PROVE InodesAreOwned'
    BY <1>2 DEF RefuseUnreadable
<1>3. ASSUME NEW p \in Procs, Stat(p) PROVE InodesAreOwned'
    BY <1>3 DEF Stat
<1>4. ASSUME NEW p \in Procs, DialRival(p) PROVE InodesAreOwned'
    BY <1>4 DEF DialRival, Answers
<1>5. ASSUME NEW p \in Procs, RemoveStale(p) PROVE InodesAreOwned'
    BY <1>5 DEF RemoveStale
<1>6. ASSUME NEW p \in Procs, Bind(p) PROVE InodesAreOwned'
    BY <1>6 DEF Bind
<1>7. ASSUME NEW p \in Procs, ListenOn(p) PROVE InodesAreOwned'
    BY <1>7 DEF ListenOn
<1>8. ASSUME NEW p \in Procs, Chmod(p) PROVE InodesAreOwned'
    BY <1>8 DEF Chmod
<1>9. ASSUME NEW p \in Procs, DropUnlink(p) PROVE InodesAreOwned'
    BY <1>9 DEF DropUnlink
<1>10. ASSUME NEW p \in Procs, DropClose(p) PROVE InodesAreOwned'
    BY <1>10 DEF DropClose
<1>11. ASSUME NEW p \in Procs, Cancel(p) PROVE InodesAreOwned'
    BY <1>11 DEF Cancel, Rivals
<1>12. ASSUME NEW p \in Procs, CloserUnlinks(p) PROVE InodesAreOwned'
    BY <1>12 DEF CloserUnlinks
<1>13. ASSUME NEW p \in Procs, CloserCloses(p) PROVE InodesAreOwned'
    BY <1>13 DEF CloserCloses
<1>14. ASSUME NEW p \in Procs, LeaveLoop(p) PROVE InodesAreOwned'
    BY <1>14 DEF LeaveLoop, Rivals
<1>15. ASSUME NEW p \in Procs, CloseUnlinks(p) PROVE InodesAreOwned'
    BY <1>15 DEF CloseUnlinks
<1>16. ASSUME NEW p \in Procs, CloseCloses(p) PROVE InodesAreOwned'
    BY <1>16 DEF CloseCloses
<1>17. ASSUME NEW p \in Procs, CloseRemoves(p) PROVE InodesAreOwned'
    BY <1>17 DEF CloseRemoves
<1>18. ASSUME NEW p \in Procs, Crash(p) PROVE InodesAreOwned'
    BY <1>18 DEF Crash
<1>19. CASE Client \/ UNCHANGED vars
    BY <1>19 DEF Client, Ask, DialNext, Answer, FailAtDaemon, vars
<1> QED
    BY <1>1, <1>2, <1>3, <1>4, <1>5, <1>6, <1>7, <1>8, <1>9, <1>10, <1>11, <1>12,
       <1>13, <1>14, <1>15, <1>16, <1>17, <1>18, <1>19 DEF Next

\* A call fails only where somebody made a path other than this process saw it.
LEMMA FailsStep == SocketInv /\ [Next]_vars => NoneFails'
<1> SUFFICES ASSUME SocketInv, [Next]_vars PROVE NoneFails'
    OBVIOUS
<1> USE SocketAssumption DEF SocketInv, TypeOK, NoneFails, SightIsTrue, At, Quiet, Settled, Reachable,
        Begun, Ending, Finished, States, Alive, Goes, SetPath, Ends, Notes, UnlinkOnce
<1>1. ASSUME NEW p \in Procs, Start(p) PROVE NoneFails'
    BY <1>1 DEF Start, Rivals
<1>2. ASSUME NEW p \in Procs, RefuseUnreadable(p) PROVE NoneFails'
    BY <1>2 DEF RefuseUnreadable
<1>3. ASSUME NEW p \in Procs, Stat(p) PROVE NoneFails'
    BY <1>3 DEF Stat
<1>4. ASSUME NEW p \in Procs, DialRival(p) PROVE NoneFails'
    BY <1>4 DEF DialRival, Answers
<1>5. ASSUME NEW p \in Procs, RemoveStale(p) PROVE NoneFails'
    BY <1>5 DEF RemoveStale
<1>6. ASSUME NEW p \in Procs, Bind(p) PROVE NoneFails'
    BY <1>6 DEF Bind
<1>7. ASSUME NEW p \in Procs, ListenOn(p) PROVE NoneFails'
    BY <1>7 DEF ListenOn
<1>8. ASSUME NEW p \in Procs, Chmod(p) PROVE NoneFails'
    BY <1>8 DEF Chmod
<1>9. ASSUME NEW p \in Procs, DropUnlink(p) PROVE NoneFails'
    BY <1>9 DEF DropUnlink
<1>10. ASSUME NEW p \in Procs, DropClose(p) PROVE NoneFails'
    BY <1>10 DEF DropClose
<1>11. ASSUME NEW p \in Procs, Cancel(p) PROVE NoneFails'
    BY <1>11 DEF Cancel, Rivals
<1>12. ASSUME NEW p \in Procs, CloserUnlinks(p) PROVE NoneFails'
    BY <1>12 DEF CloserUnlinks
<1>13. ASSUME NEW p \in Procs, CloserCloses(p) PROVE NoneFails'
    BY <1>13 DEF CloserCloses
<1>14. ASSUME NEW p \in Procs, LeaveLoop(p) PROVE NoneFails'
    BY <1>14 DEF LeaveLoop, Rivals
<1>15. ASSUME NEW p \in Procs, CloseUnlinks(p) PROVE NoneFails'
    BY <1>15 DEF CloseUnlinks
<1>16. ASSUME NEW p \in Procs, CloseCloses(p) PROVE NoneFails'
    BY <1>16 DEF CloseCloses
<1>17. ASSUME NEW p \in Procs, CloseRemoves(p) PROVE NoneFails'
    BY <1>17 DEF CloseRemoves
<1>18. ASSUME NEW p \in Procs, Crash(p) PROVE NoneFails'
    BY <1>18 DEF Crash
<1>19. CASE Client \/ UNCHANGED vars
    BY <1>19 DEF Client, Ask, DialNext, Answer, FailAtDaemon, vars
<1> QED
    BY <1>1, <1>2, <1>3, <1>4, <1>5, <1>6, <1>7, <1>8, <1>9, <1>10, <1>11, <1>12,
       <1>13, <1>14, <1>15, <1>16, <1>17, <1>18, <1>19 DEF Next

\* Nobody else is at work on the path of a process that starts, so what it saw stays.
LEMMA SightStep == SocketInv /\ [Next]_vars => SightIsTrue'
<1> SUFFICES ASSUME SocketInv, [Next]_vars PROVE SightIsTrue'
    OBVIOUS
<1> USE SocketAssumption DEF SocketInv, TypeOK, SightIsTrue, NoneFails, OneAtATime, InodesAreOwned,
        ListenersHold, At, Quiet, Holds, Starting, Stopping, Settled, Reachable,
        Begun, Ending, Finished, States, Alive, Goes, SetPath, Ends, Notes, UnlinkOnce
<1>1. ASSUME NEW p \in Procs, Start(p) PROVE SightIsTrue'
    BY <1>1 DEF Start, Rivals
<1>2. ASSUME NEW p \in Procs, RefuseUnreadable(p) PROVE SightIsTrue'
    BY <1>2 DEF RefuseUnreadable
<1>3. ASSUME NEW p \in Procs, Stat(p) PROVE SightIsTrue'
    BY <1>3 DEF Stat
<1>4. ASSUME NEW p \in Procs, DialRival(p) PROVE SightIsTrue'
    BY <1>4 DEF DialRival, Answers
<1>5. ASSUME NEW p \in Procs, RemoveStale(p) PROVE SightIsTrue'
    BY <1>5 DEF RemoveStale
<1>6. ASSUME NEW p \in Procs, Bind(p) PROVE SightIsTrue'
    BY <1>6 DEF Bind
<1>7. ASSUME NEW p \in Procs, ListenOn(p) PROVE SightIsTrue'
    BY <1>7 DEF ListenOn
<1>8. ASSUME NEW p \in Procs, Chmod(p) PROVE SightIsTrue'
    BY <1>8 DEF Chmod
<1>9. ASSUME NEW p \in Procs, DropUnlink(p) PROVE SightIsTrue'
    BY <1>9 DEF DropUnlink
<1>10. ASSUME NEW p \in Procs, DropClose(p) PROVE SightIsTrue'
    BY <1>10 DEF DropClose
<1>11. ASSUME NEW p \in Procs, Cancel(p) PROVE SightIsTrue'
    BY <1>11 DEF Cancel, Rivals
<1>12. ASSUME NEW p \in Procs, CloserUnlinks(p) PROVE SightIsTrue'
    BY <1>12 DEF CloserUnlinks
<1>13. ASSUME NEW p \in Procs, CloserCloses(p) PROVE SightIsTrue'
    BY <1>13 DEF CloserCloses
<1>14. ASSUME NEW p \in Procs, LeaveLoop(p) PROVE SightIsTrue'
    BY <1>14 DEF LeaveLoop, Rivals
<1>15. ASSUME NEW p \in Procs, CloseUnlinks(p) PROVE SightIsTrue'
    BY <1>15 DEF CloseUnlinks
<1>16. ASSUME NEW p \in Procs, CloseCloses(p) PROVE SightIsTrue'
    BY <1>16 DEF CloseCloses
<1>17. ASSUME NEW p \in Procs, CloseRemoves(p) PROVE SightIsTrue'
    BY <1>17 DEF CloseRemoves
<1>18. ASSUME NEW p \in Procs, Crash(p) PROVE SightIsTrue'
    BY <1>18 DEF Crash
<1>19. CASE Client \/ UNCHANGED vars
    BY <1>19 DEF Client, Ask, DialNext, Answer, FailAtDaemon, vars
<1> QED
    BY <1>1, <1>2, <1>3, <1>4, <1>5, <1>6, <1>7, <1>8, <1>9, <1>10, <1>11, <1>12,
       <1>13, <1>14, <1>15, <1>16, <1>17, <1>18, <1>19 DEF Next

\* A start or a stop that begins next to a start marks the path, and a process that
\* finds a path free, or its socket stale, knows that nobody holds it.
LEMMA AloneStep == SocketInv /\ [Next]_vars => OneAtATime'
<1> SUFFICES ASSUME SocketInv, [Next]_vars PROVE OneAtATime'
    OBVIOUS
<1> USE SocketAssumption DEF SocketInv, TypeOK, SightIsTrue, NoneFails, OneAtATime, ListenersHold, At,
        Quiet, Holds, Starting, Stopping, Settled, Reachable, Begun, Ending, Finished,
        States, Alive, Goes, SetPath, Ends, Notes, UnlinkOnce
<1>1. ASSUME NEW p \in Procs, Start(p) PROVE OneAtATime'
    BY <1>1 DEF Start, Rivals
<1>2. ASSUME NEW p \in Procs, RefuseUnreadable(p) PROVE OneAtATime'
    BY <1>2 DEF RefuseUnreadable
<1>3. ASSUME NEW p \in Procs, Stat(p) PROVE OneAtATime'
    BY <1>3 DEF Stat
<1>4. ASSUME NEW p \in Procs, DialRival(p) PROVE OneAtATime'
    BY <1>4 DEF DialRival, Answers
<1>5. ASSUME NEW p \in Procs, RemoveStale(p) PROVE OneAtATime'
    BY <1>5 DEF RemoveStale
<1>6. ASSUME NEW p \in Procs, Bind(p) PROVE OneAtATime'
    BY <1>6 DEF Bind
<1>7. ASSUME NEW p \in Procs, ListenOn(p) PROVE OneAtATime'
    BY <1>7 DEF ListenOn
<1>8. ASSUME NEW p \in Procs, Chmod(p) PROVE OneAtATime'
    BY <1>8 DEF Chmod
<1>9. ASSUME NEW p \in Procs, DropUnlink(p) PROVE OneAtATime'
    BY <1>9 DEF DropUnlink
<1>10. ASSUME NEW p \in Procs, DropClose(p) PROVE OneAtATime'
    BY <1>10 DEF DropClose
<1>11. ASSUME NEW p \in Procs, Cancel(p) PROVE OneAtATime'
    BY <1>11 DEF Cancel, Rivals
<1>12. ASSUME NEW p \in Procs, CloserUnlinks(p) PROVE OneAtATime'
    BY <1>12 DEF CloserUnlinks
<1>13. ASSUME NEW p \in Procs, CloserCloses(p) PROVE OneAtATime'
    BY <1>13 DEF CloserCloses
<1>14. ASSUME NEW p \in Procs, LeaveLoop(p) PROVE OneAtATime'
    BY <1>14 DEF LeaveLoop, Rivals
<1>15. ASSUME NEW p \in Procs, CloseUnlinks(p) PROVE OneAtATime'
    BY <1>15 DEF CloseUnlinks
<1>16. ASSUME NEW p \in Procs, CloseCloses(p) PROVE OneAtATime'
    BY <1>16 DEF CloseCloses
<1>17. ASSUME NEW p \in Procs, CloseRemoves(p) PROVE OneAtATime'
    BY <1>17 DEF CloseRemoves
<1>18. ASSUME NEW p \in Procs, Crash(p) PROVE OneAtATime'
    BY <1>18 DEF Crash
<1>19. CASE Client \/ UNCHANGED vars
    BY <1>19 DEF Client, Ask, DialNext, Answer, FailAtDaemon, vars
<1> QED
    BY <1>1, <1>2, <1>3, <1>4, <1>5, <1>6, <1>7, <1>8, <1>9, <1>10, <1>11, <1>12,
       <1>13, <1>14, <1>15, <1>16, <1>17, <1>18, <1>19 DEF Next

LEMMA InvStep == SocketInv /\ [Next]_vars => SocketInv'
BY TypeStep, OwnedStep, FailsStep, SightStep, AloneStep DEF SocketInv

THEOREM Invariance == Spec => []SocketInv
<1>1. Init => SocketInv
      BY InitInv
<1> QED
    BY <1>1, InvStep, PTL DEF Spec
-----------------------------------------------------------------------------
(* The client.                                                             *)

\* A daemon that has been in its loop is never found anew: no step makes it
\* settled and reachable again.
LEMMA GoneIsGone ==
    ASSUME SocketInv, [Next]_vars, NEW p \in Procs,
           pc[p] \in {"serving"} \cup Ending \cup Finished
    PROVE  /\ pc'[p] \in {"serving"} \cup Ending \cup Finished
           /\ (Settled(p) /\ Reachable(p))' => Settled(p) /\ Reachable(p)
<1> USE SocketAssumption DEF SocketInv, TypeOK, At, Settled, Reachable,
        Begun, Ending, Finished, States, Alive, Goes, SetPath, Ends, Notes, UnlinkOnce
<1>1. ASSUME NEW q \in Procs, Start(q)
    PROVE  /\ pc'[p] \in {"serving"} \cup Ending \cup Finished
           /\ (Settled(p) /\ Reachable(p))' => Settled(p) /\ Reachable(p)
    BY <1>1 DEF Start
<1>2. ASSUME NEW q \in Procs, RefuseUnreadable(q)
    PROVE  /\ pc'[p] \in {"serving"} \cup Ending \cup Finished
           /\ (Settled(p) /\ Reachable(p))' => Settled(p) /\ Reachable(p)
    BY <1>2 DEF RefuseUnreadable
<1>3. ASSUME NEW q \in Procs, Stat(q)
    PROVE  /\ pc'[p] \in {"serving"} \cup Ending \cup Finished
           /\ (Settled(p) /\ Reachable(p))' => Settled(p) /\ Reachable(p)
    BY <1>3 DEF Stat
<1>4. ASSUME NEW q \in Procs, DialRival(q)
    PROVE  /\ pc'[p] \in {"serving"} \cup Ending \cup Finished
           /\ (Settled(p) /\ Reachable(p))' => Settled(p) /\ Reachable(p)
    BY <1>4 DEF DialRival
<1>5. ASSUME NEW q \in Procs, RemoveStale(q)
    PROVE  /\ pc'[p] \in {"serving"} \cup Ending \cup Finished
           /\ (Settled(p) /\ Reachable(p))' => Settled(p) /\ Reachable(p)
    BY <1>5 DEF RemoveStale
<1>6. ASSUME NEW q \in Procs, Bind(q)
    PROVE  /\ pc'[p] \in {"serving"} \cup Ending \cup Finished
           /\ (Settled(p) /\ Reachable(p))' => Settled(p) /\ Reachable(p)
    BY <1>6 DEF Bind
<1>7. ASSUME NEW q \in Procs, ListenOn(q)
    PROVE  /\ pc'[p] \in {"serving"} \cup Ending \cup Finished
           /\ (Settled(p) /\ Reachable(p))' => Settled(p) /\ Reachable(p)
    BY <1>7 DEF ListenOn
<1>8. ASSUME NEW q \in Procs, Chmod(q)
    PROVE  /\ pc'[p] \in {"serving"} \cup Ending \cup Finished
           /\ (Settled(p) /\ Reachable(p))' => Settled(p) /\ Reachable(p)
    BY <1>8 DEF Chmod
<1>9. ASSUME NEW q \in Procs, DropUnlink(q)
    PROVE  /\ pc'[p] \in {"serving"} \cup Ending \cup Finished
           /\ (Settled(p) /\ Reachable(p))' => Settled(p) /\ Reachable(p)
    BY <1>9 DEF DropUnlink
<1>10. ASSUME NEW q \in Procs, DropClose(q)
    PROVE  /\ pc'[p] \in {"serving"} \cup Ending \cup Finished
           /\ (Settled(p) /\ Reachable(p))' => Settled(p) /\ Reachable(p)
    BY <1>10 DEF DropClose
<1>11. ASSUME NEW q \in Procs, Cancel(q)
    PROVE  /\ pc'[p] \in {"serving"} \cup Ending \cup Finished
           /\ (Settled(p) /\ Reachable(p))' => Settled(p) /\ Reachable(p)
    BY <1>11 DEF Cancel
<1>12. ASSUME NEW q \in Procs, CloserUnlinks(q)
    PROVE  /\ pc'[p] \in {"serving"} \cup Ending \cup Finished
           /\ (Settled(p) /\ Reachable(p))' => Settled(p) /\ Reachable(p)
    BY <1>12 DEF CloserUnlinks
<1>13. ASSUME NEW q \in Procs, CloserCloses(q)
    PROVE  /\ pc'[p] \in {"serving"} \cup Ending \cup Finished
           /\ (Settled(p) /\ Reachable(p))' => Settled(p) /\ Reachable(p)
    BY <1>13 DEF CloserCloses
<1>14. ASSUME NEW q \in Procs, LeaveLoop(q)
    PROVE  /\ pc'[p] \in {"serving"} \cup Ending \cup Finished
           /\ (Settled(p) /\ Reachable(p))' => Settled(p) /\ Reachable(p)
    BY <1>14 DEF LeaveLoop
<1>15. ASSUME NEW q \in Procs, CloseUnlinks(q)
    PROVE  /\ pc'[p] \in {"serving"} \cup Ending \cup Finished
           /\ (Settled(p) /\ Reachable(p))' => Settled(p) /\ Reachable(p)
    BY <1>15 DEF CloseUnlinks
<1>16. ASSUME NEW q \in Procs, CloseCloses(q)
    PROVE  /\ pc'[p] \in {"serving"} \cup Ending \cup Finished
           /\ (Settled(p) /\ Reachable(p))' => Settled(p) /\ Reachable(p)
    BY <1>16 DEF CloseCloses
<1>17. ASSUME NEW q \in Procs, CloseRemoves(q)
    PROVE  /\ pc'[p] \in {"serving"} \cup Ending \cup Finished
           /\ (Settled(p) /\ Reachable(p))' => Settled(p) /\ Reachable(p)
    BY <1>17 DEF CloseRemoves
<1>18. ASSUME NEW q \in Procs, Crash(q)
    PROVE  /\ pc'[p] \in {"serving"} \cup Ending \cup Finished
           /\ (Settled(p) /\ Reachable(p))' => Settled(p) /\ Reachable(p)
    BY <1>18 DEF Crash
<1>19. CASE Client \/ UNCHANGED vars
    BY <1>19 DEF Client, Ask, DialNext, Answer, FailAtDaemon, vars
<1> QED
    BY <1>1, <1>2, <1>3, <1>4, <1>5, <1>6, <1>7, <1>8, <1>9, <1>10, <1>11, <1>12,
       <1>13, <1>14, <1>15, <1>16, <1>17, <1>18, <1>19 DEF Next

LEMMA ClientStep == SocketInv /\ ClientInv /\ [Next]_vars => ClientInv'
<1> SUFFICES ASSUME SocketInv, ClientInv, [Next]_vars PROVE ClientInv'
    OBVIOUS
<1> USE SocketAssumption DEF ClientInv
<1>0. client.there \subseteq Procs /\ client.next \in 1 .. Len(Search) + 1
      BY DEF SocketInv, TypeOK
<1>1. CASE UNCHANGED client
  <2>1. \A p \in client.there :
          /\ pc'[p] \in {"serving"} \cup Ending \cup Finished
          /\ (Settled(p) /\ Reachable(p))' => Settled(p) /\ Reachable(p)
        BY <1>0, GoneIsGone
  <2> QED
      BY <1>1, <2>1
<1>2. CASE Ask
      BY <1>2, SearchElements DEF Ask, Settled, Reachable, Ending, At
<1>3. CASE DialNext
  <2> DEFINE f == Search[client.next]
  <2> USE DEF DialNext, Settled, Reachable, At
  <2>0. client.next \in Nat /\ Len(Search) \in Nat
        BY <1>0, SearchElements
  <2>1. CASE client.next > Len(Search) /\ client' = [client EXCEPT !.state = "none"]
        BY <1>3, <1>0, <2>1 DEF SocketInv, TypeOK
  <2>2. CASE client' = [client EXCEPT !.state = "talking", !.peer = path[f]]
        BY <1>3, <1>0, <2>2, SearchElements DEF SocketInv, TypeOK
  <2>3. CASE ~Answers(f) /\ client' = [client EXCEPT !.next = client.next + 1]
    <3>1. \A p \in client.there : Settled(p) /\ Reachable(p) => PathOf[p] # f
          BY <2>3 DEF Answers
    <3> QED
        BY <1>3, <1>0, <2>0, <2>3, <3>1 DEF SocketInv, TypeOK
  <2>4. CASE client' = [client EXCEPT !.next = client.next + 1, !.barred = @ \cup {f}]
    <3>1. /\ client'.state = client.state /\ client'.peer = client.peer /\ client'.there = client.there
          /\ client'.next = client.next + 1 /\ client'.barred = client.barred \cup {f}
          BY <2>4 DEF SocketInv, TypeOK
    <3>2. UNCHANGED <<path, listening, pc, cancelled>> /\ client.state = "dialing"
          BY <1>3
    <3>3. ASSUME NEW p \in client.there, NEW i \in 1 .. Len(Search), i < client.next + 1,
                 Search[i] \notin client.barred \cup {f}, Settled(p), Reachable(p)
          PROVE  Search[i] # PathOf[p]
      <4>1. i # client.next
            BY <3>3
      <4>2. i < client.next
            BY <3>3, <4>1, <2>0
      <4> QED
          BY <3>2, <3>3, <4>2
    <3>4. client.peer = None
          BY <3>2
    <3> QED
        BY <3>1, <3>2, <3>3, <3>4
  <2> QED
      BY <1>3, <2>1, <2>2, <2>3, <2>4
<1>4. CASE Answer
      BY <1>4 DEF Answer, Settled, Reachable, At, SocketInv, TypeOK
<1>5. CASE FailAtDaemon
      BY <1>5 DEF FailAtDaemon, Settled, Reachable, At, SocketInv, TypeOK
<1>6. ASSUME NEW p \in Procs,
             \/ Start(p) \/ RefuseUnreadable(p) \/ Stat(p) \/ DialRival(p) \/ RemoveStale(p)
             \/ Bind(p) \/ ListenOn(p) \/ Chmod(p) \/ DropUnlink(p) \/ DropClose(p)
             \/ Cancel(p) \/ CloserUnlinks(p) \/ CloserCloses(p)
             \/ LeaveLoop(p) \/ CloseUnlinks(p) \/ CloseCloses(p) \/ CloseRemoves(p)
             \/ Crash(p)
      PROVE  UNCHANGED client
      BY <1>6 DEF Start, RefuseUnreadable, Stat, DialRival, RemoveStale, Bind, ListenOn, Chmod,
                  DropUnlink, DropClose, Cancel, CloserUnlinks, CloserCloses, LeaveLoop,
                  CloseUnlinks, CloseCloses, CloseRemoves, Crash
<1> QED
    BY <1>1, <1>2, <1>3, <1>4, <1>5, <1>6 DEF Next, Client, vars
-----------------------------------------------------------------------------
(* What follows.                                                           *)

\* Every variable keeps its type, and no process that has ended listens.
THEOREM TypeCorrect == Spec => []TypeOK
<1>1. SocketInv => TypeOK
      BY DEF SocketInv
<1> QED
    BY <1>1, Invariance, PTL

\* For any number of processes and paths: where no start has overlapped a start or a
\* stop, nor failed to reach a daemon that listened, every daemon in its loop has its socket at its path and listens on it.
THEOREM UndisturbedKeepTheirSocket == Spec => []UndisturbedIsReachable
<1>1. SocketInv => UndisturbedIsReachable
      BY DEF SocketInv, SightIsTrue, Quiet, UndisturbedIsReachable
<1> QED
    BY <1>1, Invariance, PTL

\* And none is kept out by what a crash has left.
THEOREM StaleSocketsNeverBlock == Spec => []StaleNeverBlocks
<1>1. SocketInv => StaleNeverBlocks
      BY DEF SocketInv, NoneFails, Quiet, StaleNeverBlocks
<1> QED
    BY <1>1, Invariance, PTL

\* Whatever overlaps, who ends in order leaves no inode of its own at its path.
THEOREM OrderedEndsCleanUp == Spec => []StoppedLeavesNoSocket
<1>1. SocketInv => StoppedLeavesNoSocket
      BY SocketAssumption DEF SocketInv, InodesAreOwned, StoppedLeavesNoSocket, At
<1> QED
    BY <1>1, Invariance, PTL

\* A client says that there is no daemon only of paths at each of which, at some
\* time while it looked, none could be reached, or one listened and the dial failed.
THEOREM NoDaemonIsNeverSaidOfOne == Spec => []NoDaemonIsTrue
<1>1. SocketInv /\ ClientInv => NoDaemonIsTrue
  <2> SUFFICES ASSUME SocketInv, ClientInv, client.state = "none",
                      NEW p \in client.there, PathOf[p] \in Range(Search) \ client.barred
               PROVE  ~(Settled(p) /\ Reachable(p))
      BY DEF NoDaemonIsTrue, ClientInv
  <2>1. PICK i \in 1 .. Len(Search) : Search[i] = PathOf[p]
        BY SocketAssumption DEF Range, SocketAssumption
  <2>2. i < client.next
        BY SearchElements DEF SocketInv, TypeOK, ClientInv
  <2> QED
      BY <2>1, <2>2 DEF ClientInv
<1>2. Init => SocketInv /\ ClientInv
      BY InitInv
<1>3. SocketInv /\ ClientInv /\ [Next]_vars => SocketInv' /\ ClientInv'
      BY InvStep, ClientStep
<1> QED
    BY <1>1, <1>2, <1>3, PTL DEF Spec
=============================================================================
