------------------------------- MODULE MCDaemon -------------------------------
(***************************************************************************)
(* The daemon over two services: hi outranks lo, so a demand can only      *)
(* evict lo and an operator's evict can name either.                       *)
(***************************************************************************)
EXTENDS Daemon

MCNameRank == [s \in {"hi", "lo"} |-> IF s = "hi" THEN 1 ELSE 2]

Svc(priority, canRelease, stopUnit, allowStop) ==
  [priority |-> priority, canRelease |-> canRelease, stopUnit |-> stopUnit, allowStop |-> allowStop]

Pair(hi, lo) == [s \in {"hi", "lo"} |-> IF s = "hi" THEN hi ELSE lo]

(* Both are units that can only be stopped, and only lo's allow_stop is set. *)
MCStopped == Pair(Svc(2, FALSE, TRUE, FALSE), Svc(1, FALSE, TRUE, TRUE))

(* hi can only be asked to let go; lo can be asked, and may be stopped as well. *)
MCAsked == Pair(Svc(2, TRUE, FALSE, FALSE), Svc(1, TRUE, TRUE, TRUE))

MCReleasable == Pair(Svc(2, TRUE, FALSE, FALSE), Svc(1, TRUE, FALSE, FALSE))

MCReactive == [floor |-> 1, reactive |-> TRUE, workload |-> NoService,
               minEffect |-> 1, actionCooldown |-> 1]

MCOnDemand == [MCReactive EXCEPT !.reactive = FALSE]

Ask(op, service, need, dry, all) ==
  [op |-> op, service |-> service, need |-> need, dry |-> dry, all |-> all]

Failing == [err |-> TRUE, up |-> FALSE, held |-> 0, idle |-> FALSE, idleKnown |-> FALSE]
Holding == [err |-> FALSE, up |-> TRUE, held |-> 2, idle |-> FALSE, idleKnown |-> FALSE]
MCProbes == {Failing, Holding}

MCRequests == {Ask("request", "hi", 1, FALSE, FALSE), Ask("request", "hi", 2, FALSE, FALSE),
  Ask("request", "lo", 2, FALSE, FALSE), Ask("release", "hi", 0, FALSE, FALSE),
  Ask("evict", "lo", 0, FALSE, TRUE)}

(* The loop against itself and one operator; the first round's call may hang. *)
CONSTANT r1

MCFirstRoundHangs == {<<r1, "lo">>}
MCEvictOne == {Ask("evict", "lo", 0, FALSE, FALSE)}

(* Two services of one priority, so that the queue alone decides. *)
MCEquals == Pair(Svc(1, TRUE, FALSE, FALSE), Svc(1, TRUE, FALSE, FALSE))

MCQueueing == {Ask("request", "hi", 1, FALSE, FALSE), Ask("request", "hi", 2, FALSE, FALSE),
  Ask("request", "lo", 2, FALSE, FALSE), Ask("release", "hi", 0, FALSE, FALSE),
  Ask("plan", "hi", 0, FALSE, FALSE)}

(* A dry run of a request that asks for more than the claim already held. *)
MCDryRequests == {Ask("request", "hi", 1, FALSE, FALSE), Ask("request", "hi", 2, TRUE, FALSE)}
=============================================================================
