------------------------------ MODULE MCPlanner ------------------------------
(***************************************************************************)
(* The scheduler's plans over every observation of a small world: three    *)
(* services in any condition the observer can report, four ways to rank    *)
(* them, every card reading the plans tell apart, and the claims that      *)
(* exercise the demand rules.                                              *)
(***************************************************************************)
EXTENDS Planner

MCConditions ==
  LET base == [priority |-> 0, up |-> TRUE, held |-> 1, canRelease |-> TRUE, stopUnit |-> FALSE,
               allowStop |-> FALSE, idle |-> FALSE, idleKnown |-> FALSE,
               probeErr |-> FALSE, cooling |-> FALSE, inflight |-> FALSE]
      unit == [base EXCEPT !.canRelease = FALSE, !.stopUnit = TRUE]
  IN {base,
      [base EXCEPT !.held = 2],
      [base EXCEPT !.held = 0],
      [unit EXCEPT !.allowStop = TRUE],
      unit,
      [base EXCEPT !.canRelease = FALSE],
      [base EXCEPT !.idleKnown = TRUE],
      [base EXCEPT !.idleKnown = TRUE, !.idle = TRUE, !.held = 3],
      [base EXCEPT !.up = FALSE],
      [base EXCEPT !.up = FALSE, !.held = 0, !.probeErr = TRUE],
      [base EXCEPT !.cooling = TRUE],
      [base EXCEPT !.inflight = TRUE]}

MCNameRank == [s \in {"a", "b", "c"} |-> CASE s = "a" -> 1 [] s = "b" -> 2 [] s = "c" -> 3]

Rank(a, b, c) == [s \in {"a", "b", "c"} |-> CASE s = "a" -> a [] s = "b" -> b [] s = "c" -> c]

MCRankings == {Rank(1, 2, 3), Rank(2, 1, 1), Rank(1, 1, 2), Rank(1, 1, 1)}

Claim(s, need, at) == [service |-> s, need |-> need, at |-> at, pos |-> 0]

Demand(floor, reactive, workload, claims) ==
  [floor |-> floor, reactive |-> reactive, workload |-> workload, claims |-> claims]

MCDemands ==
  {Demand(2, TRUE, NoService, {}),
   Demand(2, TRUE, "b", {Claim("nobody", 3, 1)}),
   Demand(0, TRUE, NoService, {}),
   Demand(2, FALSE, NoService, {Claim("c", 0, 1)}),
   Demand(1, TRUE, "a", {Claim("a", 3, 1), Claim("b", 2, 2)}),
   Demand(0, FALSE, NoService, {Claim("a", 2, 2), Claim("b", 3, 1), Claim("c", 1, 2)})}

Device(known, used) == [known |-> known, total |-> 4, used |-> used]

MCDevices == {Device(FALSE, 0), Device(TRUE, 5), Device(TRUE, 3), Device(TRUE, 0)}
=============================================================================
