------------------------------ MODULE Exchange ------------------------------
(***************************************************************************)
(* An eviction and the time everybody gives everybody: the client's two    *)
(* waits (doAt and WaitFor, ipc.go:286-372), the daemon's observation,     *)
(* announcement and plan (handleEvict and execute, daemon.go:363-442 and   *)
(* 768-796), the budget of the connection (connBudget) and the time the    *)
(* actions themselves take (Adapters).                                     *)
(***************************************************************************)
EXTENDS Adapters

CONSTANT Plans   \* bound: the plans an observation may lead to

\* A file configures finitely many services, and neither limit of one is ever zero:
\* its own must be positive (config.go:209), one that is left out gets a default.
ASSUME ExchangeAssumption ==
    /\ IsFiniteSet(Services)
    /\ Plans \subseteq SUBSET Services
    /\ \A c \in Configs, s \in Services : c[s].timeout > 0 /\ c[s].drain > 0

ClientSlack == 2     \* 10 s
PlanWait    == 18    \* 90 s
Minute      == 12

VARIABLES
    client, \* the client: what it waits for and for how long still
    conn    \* the daemon's side of the connection: its handler and its budget

vars == <<config, svc, act, asked, away, client, conn>>

\* What the daemon says an action takes, and what it makes of it.
actionBound(s) == Timeout(s) + Drain(s)

\* Mutant of longestAction: the quickest action is announced.
longestActionMin(P) == Min({actionBound(s) : s \in P})

longestAction(P) == Max({0} \cup {actionBound(s) : s \in P})

WaitFor(longest) == IF longest = 0 THEN PlanWait ELSE longest + ClientSlack

\* Mutant of connBudget: the listener's default of two minutes.
connBudgetDefault == 24

connBudget == WaitFor(longestAction(Services)) + Minute

\* The time an observation may take: the card is read first, which is no time here,
\* then all services are probed at once, each within its own timeout.
ObserveTime == Max({0} \cup {Timeout(s) : s \in Services})

Waiting == client.state \in {"first", "second"}

\* Users are quiet while a client waits: what they do changes which requests an
\* action makes, not how long one may take.
Init ==
    /\ AdaptersInit
    /\ \A s \in Services : svc[s].busy = {}
    /\ client = [state |-> "idle", left |-> 0]
    /\ conn = [state |-> "none", budget |-> 0, observed |-> 0, plan |-> {}]
-----------------------------------------------------------------------------
\* A write reaches the client if the budget has not run out and it still waits;
\* a client that waits when the connection closes is cut off.
CanWrite == conn.budget > 0

\* The client asks, and the daemon accepts and begins to observe.
Send ==
    /\ client.state = "idle"
    /\ client' = [state |-> "first", left |-> PlanWait]
    /\ conn' = [state |-> "observing", budget |-> connBudget, observed |-> 0, plan |-> {}]
    /\ UNCHANGED adapterVars

\* The handler returns and the connection closes behind its answer.
Close(c) ==
    /\ conn' = [c EXCEPT !.state = "closed", !.budget = 0]
    /\ client' = IF Waiting
                 THEN [state |-> IF CanWrite THEN "done" ELSE "cut", left |-> 0]
                 ELSE client

\* The observation is complete and makes a plan.  One that is empty is the answer;
\* another is announced, and its actions start at once, each on a free slot.
PlanMade(P) ==
    /\ conn.state = "observing"
    /\ \/ /\ P = {}
          /\ Close(conn)
          /\ UNCHANGED adapterVars
       \/ /\ P # {}
          /\ conn' = [conn EXCEPT !.state = "acting", !.plan = P]
          /\ client' = IF Waiting /\ CanWrite
                       THEN [state |-> "second", left |-> WaitFor(longestAction(P))]
                       ELSE client
          /\ BeginAll({s \in P : ~Running(s)})
          /\ UNCHANGED <<config, svc>>

\* Every action has returned: the results are the answer.
Results ==
    /\ conn.state = "acting"
    /\ \A s \in conn.plan : ~Running(s)
    /\ Close(conn)
    /\ UNCHANGED adapterVars

\* The client's wait is over; a plan, if there is one, goes on without it.
GiveUp ==
    /\ Waiting /\ client.left = 0
    /\ client' = [state |-> IF client.state = "first" THEN "unanswered" ELSE "late", left |-> 0]
    /\ UNCHANGED <<config, svc, act, asked, away, conn>>
-----------------------------------------------------------------------------
Countdown(n) == IF n > 0 THEN n - 1 ELSE 0

\* Time passes for requests, observation, client and connection alike.
TickAll ==
    /\ InTime
    /\ Waiting => client.left > 0
    /\ conn.state = "observing" => conn.observed < ObserveTime
    /\ conn.state = "acting" => \E s \in conn.plan : Running(s)
    /\ conn.state \in {"observing", "acting"}
    /\ act' = [s \in Services |-> Older(act[s])]
    /\ client' = [client EXCEPT !.left = Countdown(@)]
    /\ conn' = [conn EXCEPT !.budget = Countdown(@),
                            !.observed = IF conn.state = "observing" THEN @ + 1 ELSE @]
    /\ UNCHANGED <<config, svc, asked, away>>

Next ==
    \/ Send \/ Results \/ GiveUp \/ TickAll
    \/ \E P \in Plans : PlanMade(P)
    \/ \E s \in Services :
         (Adapter(s) \/ \E m \in Models : Goes(s, m)) /\ UNCHANGED <<client, conn>>

Spec == Init /\ [][Next]_vars
-----------------------------------------------------------------------------
(* Properties.                                                             *)

\* The waits are enough whenever the limits they are derived from are: a client
\* goes unanswered only when one probe may take as long as PlanWait, and is late
\* for its results only when the plan holds a service whose own limits add up to
\* what was announced and the slack, or more.
LateOnlyForSlowServices ==
    /\ client.state = "unanswered" => ObserveTime >= PlanWait
    /\ client.state = "late" =>
         \E s \in conn.plan : \A t \in conn.plan :
            Longest(s, Cardinality(Models)) >= actionBound(t) + ClientSlack

\* The connection's budget is enough as long as the observation takes less than
\* the minute it allows for probes: then nobody is cut off who still waits.
BudgetOutlastsTheWait ==
    client.state = "cut" => conn.observed >= Minute
=============================================================================
