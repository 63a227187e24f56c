------------------------------- MODULE Socket -------------------------------
(***************************************************************************)
(* Who owns a control socket.  Listen, Serve and Close of internal/ipc     *)
(* (ipc.go:441-524), as daemon.Run uses them (daemon.go:82-132), and the   *)
(* client that looks for a daemon (Exchange, ipc.go:297-372).              *)
(*                                                                         *)
(* A process runs once; a restart is another process.  Every system call   *)
(* on the path is a step: nothing but the calls themselves orders two      *)
(* processes.  An inode is named by the process that bound it.             *)
(***************************************************************************)
EXTENDS Naturals, Sequences, Functions

CONSTANTS
    Procs,      \* daemon processes, each of which runs at most once
    Paths,      \* socket paths
    PathOf,     \* the path a process was told to use
    Search,     \* the paths a client tries, in order (SearchPaths)
    DialsFail,  \* whether connect(2) may fail at a socket that listens, because
                \* its mode keeps the caller out or its backlog is full
    None        \* no socket, no process

ASSUME SocketAssumption ==
    /\ PathOf \in [Procs -> Paths]
    /\ Search \in Seq(Paths)
    /\ DialsFail \in BOOLEAN
    /\ None \notin Procs

VARIABLES
    path,       \* path[f]: the inode at path f
    listening,  \* processes whose listening socket is open
    pc,         \* where Run is in each process
    cancelled,  \* processes whose context has ended
    unlinked,   \* listeners that have used their one unlink (net.UnixListener)
    client,     \* one client: what it does, whom it met, and (history) the
                \* daemons that could be reached when it set out, and the
                \* paths where it failed to reach one that listened
    disturbed   \* history: paths on which a start has overlapped another
                \* start or a stop, or has failed to reach one that listened

vars == <<path, listening, pc, cancelled, unlinked, client, disturbed>>

Begun    == {"stat", "dial", "remove", "bind", "listen", "chmod"}
Ending   == {"unlink", "close", "finalRemove", "dropUnlink", "dropClose"}
Finished == {"unreadable", "refused", "failed", "stopped", "dead"}
States   == {"off", "serving"} \cup Begun \cup Ending \cup Finished

Alive(p)    == pc[p] \notin {"off"} \cup Finished
Starting(p) == pc[p] \in Begun
Stopping(p) == pc[p] \in Ending \/ (pc[p] = "serving" /\ p \in cancelled)
Settled(p)  == pc[p] = "serving" /\ p \notin cancelled

At(p)        == path[PathOf[p]]
Rivals(p)    == {q \in Procs \ {p} : PathOf[q] = PathOf[p]}
\* Whether connect(2) on a path succeeds: the inode's socket must be listening.
Answers(f)   == path[f] \in listening
Reachable(p) == At(p) = p /\ p \in listening

\* A process that has ended listens no more.
TypeOK ==
    /\ path \in [Paths -> Procs \cup {None}]
    /\ listening \subseteq {p \in Procs : Alive(p)}
    /\ pc \in [Procs -> States]
    /\ cancelled \subseteq Procs
    /\ unlinked \subseteq Procs
    /\ client \in [state : {"idle", "dialing", "talking", "answered", "failed", "none"},
                   next  : 1 .. Len(Search) + 1,
                   peer  : Procs \cup {None},
                   there : SUBSET Procs,
                   barred : SUBSET Paths]
    /\ disturbed \subseteq Paths

Init ==
    /\ path = [f \in Paths |-> None]
    /\ listening = {}
    /\ pc = [p \in Procs |-> "off"]
    /\ cancelled = {}
    /\ unlinked = {}
    /\ client = [state |-> "idle", next |-> 1, peer |-> None, there |-> {},
                 barred |-> {}]
    /\ disturbed = {}
-----------------------------------------------------------------------------
(* Helpers: one line of a process's program, and the history.              *)

Goes(p, from, to) == pc[p] = from /\ pc' = [pc EXCEPT ![p] = to]

SetPath(p, inode) == path' = [path EXCEPT ![PathOf[p]] = inode]

\* The process is gone, and its context and its listener with it.
Ends(p) == cancelled' = cancelled \ {p} /\ unlinked' = unlinked \ {p}

\* A start or a stop of p begins: note whether another one is going on.
Notes(p, others) ==
    disturbed' = IF others # {} THEN disturbed \cup {PathOf[p]} ELSE disturbed

\* unlinkOnce of net.UnixListener: the first Close unlinks whatever is at the
\* path, later ones do not.
UnlinkOnce(p) ==
    IF p \in unlinked
    THEN UNCHANGED <<path, unlinked>>
    ELSE SetPath(p, None) /\ unlinked' = unlinked \cup {p}
-----------------------------------------------------------------------------
(* Run and Listen, one action per system call.                             *)

\* Run checks that the GPU can be read before it touches the socket.
Start(p) ==
    /\ Goes(p, "off", "stat")
    /\ Notes(p, {q \in Rivals(p) : Starting(q) \/ Stopping(q)})
    /\ UNCHANGED <<path, listening, cancelled, unlinked, client>>

RefuseUnreadable(p) ==
    /\ Goes(p, "off", "unreadable")
    /\ UNCHANGED <<path, listening, cancelled, unlinked, client, disturbed>>

\* Mutant of Stat: a file that is there is left to net.Listen.
StatNot(p) ==
    /\ Goes(p, "stat", "bind")
    /\ UNCHANGED <<path, listening, cancelled, unlinked, client, disturbed>>

Stat(p) ==
    /\ Goes(p, "stat", IF At(p) = None THEN "bind" ELSE "dial")
    /\ UNCHANGED <<path, listening, cancelled, unlinked, client, disturbed>>

\* Mutant of DialRival: a socket that is there is always stale.
DialRivalNot(p) ==
    /\ Goes(p, "dial", "remove")
    /\ UNCHANGED <<path, listening, cancelled, unlinked, client, disturbed>>

\* Anything that accepts is another daemon; any failure is a stale socket.
DialRival(p) ==
    /\ \/ /\ Answers(PathOf[p])
          /\ Goes(p, "dial", "refused") /\ Ends(p) /\ UNCHANGED disturbed
       \/ /\ ~Answers(PathOf[p]) \/ DialsFail
          /\ Goes(p, "dial", "remove") /\ UNCHANGED <<cancelled, unlinked>>
          /\ Notes(p, {q \in listening : At(p) = q})
    /\ UNCHANGED <<path, listening, client>>

RemoveStale(p) ==
    /\ \/ At(p) = None /\ Goes(p, "remove", "failed") /\ Ends(p)
       \/ At(p) # None /\ Goes(p, "remove", "bind") /\ UNCHANGED <<cancelled, unlinked>>
    /\ SetPath(p, None)
    /\ UNCHANGED <<listening, client, disturbed>>

\* net.Listen is bind(2) and then listen(2).
Bind(p) ==
    /\ \/ /\ At(p) = None /\ Goes(p, "bind", "listen")
          /\ SetPath(p, p) /\ UNCHANGED <<cancelled, unlinked>>
       \/ At(p) # None /\ Goes(p, "bind", "failed") /\ Ends(p) /\ UNCHANGED path
    /\ UNCHANGED <<listening, client, disturbed>>

ListenOn(p) ==
    /\ Goes(p, "listen", "chmod")
    /\ listening' = listening \cup {p}
    /\ UNCHANGED <<path, cancelled, unlinked, client, disturbed>>

\* chmod names the path, not the socket: it fails only when nothing is there.
Chmod(p) ==
    /\ Goes(p, "chmod", IF At(p) = None THEN "dropUnlink" ELSE "serving")
    /\ UNCHANGED <<path, listening, cancelled, unlinked, client, disturbed>>

\* ln.Close() of a listener whose chmod failed.
DropUnlink(p) ==
    /\ Goes(p, "dropUnlink", "dropClose")
    /\ UnlinkOnce(p)
    /\ UNCHANGED <<listening, cancelled, client, disturbed>>

\* Mutant of DropClose: the listener whose chmod failed is not closed.
DropCloseNot(p) ==
    /\ Goes(p, "dropClose", "failed") /\ Ends(p)
    /\ UNCHANGED <<path, listening, client, disturbed>>

DropClose(p) ==
    /\ Goes(p, "dropClose", "failed") /\ Ends(p)
    /\ listening' = listening \ {p}
    /\ UNCHANGED <<path, client, disturbed>>
-----------------------------------------------------------------------------
(* The end of a daemon.                                                    *)

\* A signal ends the context, whatever Run is doing.
Cancel(p) ==
    /\ Alive(p) /\ p \notin cancelled
    /\ cancelled' = cancelled \cup {p}
    /\ Notes(p, {q \in Rivals(p) : Starting(q)})
    /\ UNCHANGED <<path, listening, pc, unlinked, client>>

\* The goroutine in Serve that waits for the context: its Close unlinks ...
CloserUnlinks(p) ==
    /\ p \in cancelled /\ pc[p] \in {"serving", "unlink", "close", "finalRemove"}
    /\ p \notin unlinked
    /\ UnlinkOnce(p)
    /\ UNCHANGED <<listening, pc, cancelled, client, disturbed>>

\* ... and then closes the socket.
CloserCloses(p) ==
    /\ p \in cancelled /\ pc[p] \in {"serving", "unlink", "close", "finalRemove"}
    /\ p \in unlinked /\ p \in listening
    /\ listening' = listening \ {p}
    /\ UNCHANGED <<path, pc, cancelled, unlinked, client, disturbed>>

\* Mutant of LeaveLoop: Run returns without Close.
LeaveLoopWithoutClose(p) ==
    /\ Goes(p, "serving", "stopped") /\ Ends(p)
    /\ Notes(p, {q \in Rivals(p) : Starting(q)})
    /\ listening' = listening \ {p}
    /\ UNCHANGED <<path, client>>

\* The select in Run sees the context end, or Serve fail to accept.  It may
\* first have to finish a tick, which is time between the closer and Close.
LeaveLoop(p) ==
    /\ Goes(p, "serving", "unlink")
    /\ Notes(p, {q \in Rivals(p) : Starting(q)})
    /\ UNCHANGED <<path, listening, cancelled, unlinked, client>>

CloseUnlinks(p) ==
    /\ Goes(p, "unlink", "close")
    /\ UnlinkOnce(p)
    /\ UNCHANGED <<listening, cancelled, client, disturbed>>

CloseCloses(p) ==
    /\ Goes(p, "close", "finalRemove")
    /\ listening' = listening \ {p}
    /\ UNCHANGED <<path, cancelled, unlinked, client, disturbed>>

\* os.Remove(l.path), and the process ends.
CloseRemoves(p) ==
    /\ Goes(p, "finalRemove", "stopped") /\ Ends(p)
    /\ SetPath(p, None)
    /\ UNCHANGED <<listening, client, disturbed>>

\* The process is killed: its sockets close, its inode stays.
Crash(p) ==
    /\ Alive(p)
    /\ pc' = [pc EXCEPT ![p] = "dead"] /\ Ends(p)
    /\ listening' = listening \ {p}
    /\ UNCHANGED <<path, client, disturbed>>
-----------------------------------------------------------------------------
(* A client (Exchange and doAt), which asks once.                          *)

Ask ==
    /\ client.state = "idle"
    /\ client' = [state |-> "dialing", next |-> 1, peer |-> None,
                  there |-> {p \in Procs : Settled(p) /\ Reachable(p)}, barred |-> {}]
    /\ UNCHANGED <<path, listening, pc, cancelled, unlinked, disturbed>>

\* A path that cannot be dialled, for whatever reason, is passed over; after the
\* last there is no daemon.
DialNext ==
    /\ client.state = "dialing"
    /\ \/ /\ client.next > Len(Search)
          /\ client' = [client EXCEPT !.state = "none"]
       \/ /\ client.next <= Len(Search) /\ Answers(Search[client.next])
          /\ client' = [client EXCEPT !.state = "talking", !.peer = path[Search[client.next]]]
       \/ /\ client.next <= Len(Search) /\ ~Answers(Search[client.next])
          /\ client' = [client EXCEPT !.next = @ + 1]
       \/ /\ DialsFail /\ client.next <= Len(Search) /\ Answers(Search[client.next])
          /\ client' = [client EXCEPT !.next = @ + 1, !.barred = @ \cup {Search[client.next]}]
    /\ UNCHANGED <<path, listening, pc, cancelled, unlinked, disturbed>>

Answer ==
    /\ client.state = "talking"
    /\ pc[client.peer] \in {"serving", "unlink", "close", "finalRemove"}
    /\ client' = [client EXCEPT !.state = "answered"]
    /\ UNCHANGED <<path, listening, pc, cancelled, unlinked, disturbed>>

\* Mutant of FailAtDaemon: after a broken connection the next path is tried.
FailAtDaemonMovesOn ==
    /\ client.state = "talking"
    /\ client' = [client EXCEPT !.state = "dialing", !.next = @ + 1]
    /\ UNCHANGED <<path, listening, pc, cancelled, unlinked, disturbed>>

\* The connection breaks, or its deadline passes: that is this daemon's failure,
\* never "no daemon".
FailAtDaemon ==
    /\ client.state = "talking"
    /\ client' = [client EXCEPT !.state = "failed"]
    /\ UNCHANGED <<path, listening, pc, cancelled, unlinked, disturbed>>
-----------------------------------------------------------------------------
Client == Ask \/ DialNext \/ Answer \/ FailAtDaemon

Next ==
    \/ \E p \in Procs :
         \/ Start(p) \/ RefuseUnreadable(p) \/ Stat(p) \/ DialRival(p) \/ RemoveStale(p)
         \/ Bind(p) \/ ListenOn(p) \/ Chmod(p) \/ DropUnlink(p) \/ DropClose(p)
         \/ Cancel(p) \/ CloserUnlinks(p) \/ CloserCloses(p)
         \/ LeaveLoop(p) \/ CloseUnlinks(p) \/ CloseCloses(p) \/ CloseRemoves(p)
         \/ Crash(p)
    \/ Client

\* No fairness: nothing here is about what must happen.
Spec == Init /\ [][Next]_vars
-----------------------------------------------------------------------------
(* Properties.                                                             *)

\* As long as no start on a path has overlapped another start or a stop, nor failed
\* to reach a daemon that listened there, every daemon that is in its loop can be
\* reached.  Crashes, stale sockets and starts against a running daemon are all
\* allowed: those two are the only ways to lose a socket.
UndisturbedIsReachable ==
    \A p \in Procs : Settled(p) /\ PathOf[p] \notin disturbed => Reachable(p)

\* On such a path no start fails on a system call either: a socket left by a crash
\* at any step never keeps the next daemon out.
StaleNeverBlocks ==
    \A p \in Procs : pc[p] = "failed" => PathOf[p] \in disturbed

\* A daemon that ended in order leaves no socket of its own behind, whatever
\* disturbed it.
StoppedLeavesNoSocket ==
    \A p \in Procs : pc[p] \in {"stopped", "failed"} => At(p) # p

\* "No daemon is listening" is never said of a daemon the client met, even when
\* it dies under it ("a daemon exists", ipc.go:307-312), nor while a daemon on one
\* of its paths has been reachable from the client's first step to its last, but
\* for one whose socket listened and could not be dialled.
NoDaemonIsTrue ==
    client.state = "none" =>
        /\ client.peer = None
        /\ \A p \in client.there :
             PathOf[p] \in Range(Search) \ client.barred => ~(Settled(p) /\ Reachable(p))

\* "A socket that something is still listening on is never removed: that would
\* silently steal control from a running daemon" (comment of Listen): the path
\* of a daemon in its loop is never taken from it by anybody's step.
LiveSocketIsNeverRemoved ==
    [][\A p \in Procs : Settled(p) /\ Reachable(p) => At(p)' = p]_vars
=============================================================================
