-------------------------------- MODULE Daemon --------------------------------
(***************************************************************************)
(* The long running daemon, internal/daemon/daemon.go with the observer it *)
(* reads the world through (internal/observe/observe.go): the poll loop,   *)
(* the control socket's handlers, one goroutine per action, and the three  *)
(* maps they share under one mutex: claims, cooldowns and inflight.        *)
(*                                                                         *)
(* A worker is a tick of the loop or a client's connection.  Each mutex    *)
(* section of the code is one step, so everything that can happen between  *)
(* two of them happens here.  What the code reads from the outside (the    *)
(* card, a service's status, how an adapter call ended) is drawn freely    *)
(* from the constants: other programs share the card and the services, and *)
(* nothing the daemon holds constrains them.  A reading is drawn in the    *)
(* step that first uses it, which allows every reading that could have     *)
(* been taken earlier.                                                     *)
(***************************************************************************)
EXTENDS Scheduler

CONSTANTS Rounds,        \* ticks whose actions may still be running
          Clients,       \* control connections
          Config,        \* each service's [priority, allowStop, canRelease, stopUnit]
          Policy,        \* [floor, reactive, workload, minEffect, actionCooldown]
          DryRuns,       \* the daemon's own --dry-run, as it may be started
          Hanging,       \* <<worker, service>>: an adapter call that may never return
          Requests,      \* what clients ask: [op, service, need, dry, all]
          Probes,        \* how a probe may end: [err, up, held, idle, idleKnown]
          Total,         \* the card's size
          FreeFigures,   \* free VRAM a successful reading may show
          MaxTime        \* where the clock stops: a bound of the model

Workers == Rounds \cup Clients

Unknown == -1            \* a reading that failed
Readings == FreeFigures \cup {Unknown}

ServiceConfig == [priority : Int, allowStop : BOOLEAN, canRelease : BOOLEAN, stopUnit : BOOLEAN]

Request == [op : {"plan", "request", "release", "evict"}, service : Services, need : Nat,
            dry : BOOLEAN, all : BOOLEAN]

ProbeResult == [err : BOOLEAN, up : BOOLEAN, held : Nat, idle : BOOLEAN, idleKnown : BOOLEAN]

ASSUME DaemonAssumption ==
  /\ Rounds \cap Clients = {}
  /\ Config \in [Services -> ServiceConfig]
  /\ Policy \in [floor : Nat, reactive : BOOLEAN, workload : Services \cup {NoService},
                 minEffect : Nat, actionCooldown : Nat]
  /\ DryRuns \subseteq BOOLEAN
  /\ Hanging \subseteq Workers \X Services
  /\ Requests \subseteq Request
  /\ Probes \subseteq ProbeResult
  /\ Total \in Nat
  /\ FreeFigures \subseteq 0..Total
  /\ MaxTime \in Nat \ {0}

VARIABLES dryRun,     \* the daemon was started with --dry-run
          now,        \* the clock
          claims,     \* service -> its claim, NoClaim when it has none
          cooldowns,  \* service -> when its cooldown ends, 0 when it has none
          inflight,   \* services whose action slot is taken
          pc,         \* worker -> how far it got
          req,        \* worker -> what it was asked
          seen,       \* worker -> its observation's copies of the shared maps
          plan,       \* client -> the figures of its plan
          job,        \* worker -> service -> the goroutine acting for it
          reply,      \* client -> what it is told
          sinceMark,  \* history: services acted on since its in-flight check
          overruled   \* history: clients whose claim another one has changed

shared == <<claims, cooldowns, inflight>>
local == <<pc, req, seen, plan, job, reply>>
history == <<sinceMark, overruled>>
vars == <<dryRun, now, shared, local, history>>

NoClaim == [need |-> 0, at |-> 0]
NoReq == [op |-> "tick", service |-> NoService, need |-> 0, dry |-> FALSE, all |-> FALSE]
NoSight == [claims |-> {}, inflight |-> {}, cooling |-> {}, since |-> 0]
NoPlan == [beneficiary |-> NoService, target |-> 0, current |-> Unknown, last |-> NoService]
NoJob == [pc |-> "none", verb |-> "none", after |-> Unknown]
NoReply == [met |-> "absent", free |-> Unknown]

Init ==
  /\ dryRun \in DryRuns
  /\ now = 1
  /\ claims = [s \in Services |-> NoClaim]
  /\ cooldowns = [s \in Services |-> 0]
  /\ inflight = {}
  /\ pc = [w \in Workers |-> "idle"]
  /\ req = [w \in Workers |-> NoReq]
  /\ seen = [w \in Workers |-> NoSight]
  /\ plan = [w \in Workers |-> NoPlan]
  /\ job = [w \in Workers |-> [s \in Services |-> NoJob]]
  /\ reply = [w \in Workers |-> NoReply]
  /\ sinceMark = [w \in Workers |-> {}]
  /\ overruled = {}

-----------------------------------------------------------------------------
(* What the handlers and the loop share. *)

Goto(w, from, to) == pc[w] = from /\ pc' = [pc EXCEPT ![w] = to]

Acting(w, s) == job[w][s].pc \in {"acting", "recorded"}

(***************************************************************************)
(* snapshotClaims: the outstanding claims.  pos 0 puts them before a claim *)
(* that is appended to the slice.                                          *)
(***************************************************************************)
SnapshotClaims ==
  {[service |-> s, need |-> claims[s].need, at |-> claims[s].at, pos |-> 0] :
     s \in {t \in Services : claims[t] # NoClaim}}

(***************************************************************************)
(* probeOne and the marks the daemon puts on its result.                   *)
(***************************************************************************)
ServiceState(w, s, probe) ==
  [priority |-> Config[s].priority, allowStop |-> Config[s].allowStop,
   canRelease |-> Config[s].canRelease, stopUnit |-> Config[s].stopUnit,
   probeErr |-> probe.err,
   up |-> probe.up /\ ~probe.err,
   held |-> IF probe.err THEN 0 ELSE probe.held,
   idle |-> probe.idle /\ ~probe.err,
   idleKnown |-> probe.idleKnown /\ ~probe.err,
   cooling |-> s \in seen[w].cooling,
   inflight |-> s \in seen[w].inflight]

Device(free) ==
  IF free = Unknown THEN [known |-> FALSE, total |-> 0, used |-> 0]
  ELSE [known |-> TRUE, total |-> Total, used |-> Total - free]

Observation(w, probes, free) ==
  [device |-> Device(free), claims |-> seen[w].claims,
   services |-> [s \in Services |-> ServiceState(w, s, probes[s])]]

SchedulerConfig ==
  [floor |-> Policy.floor, reactive |-> Policy.reactive, workload |-> Policy.workload,
   priority |-> [s \in Services |-> Config[s].priority]]

PlanFrom(w, obs) ==
  IF req[w].op # "evict" THEN Decide(SchedulerConfig, obs)
  ELSE IF req[w].all THEN EvictAllExcept(obs, req[w].service)
  ELSE Evict(obs, {req[w].service})

(***************************************************************************)
(* One goroutine per planned action.                                       *)
(***************************************************************************)
Spawned(actions) ==
  [s \in Services |->
     IF \E a \in actions : a.service = s
     THEN [pc |-> "go", after |-> Unknown, verb |-> (CHOOSE a \in actions : a.service = s).verb]
     ELSE NoJob]

(***************************************************************************)
(* A worker with nothing left to do forgets what it was doing.             *)
(***************************************************************************)
Forget(w) ==
  /\ req' = [req EXCEPT ![w] = NoReq]
  /\ seen' = [seen EXCEPT ![w] = NoSight]
  /\ plan' = [plan EXCEPT ![w] = NoPlan]
  /\ reply' = [reply EXCEPT ![w] = NoReply]
  /\ overruled' = overruled \ {w}

-----------------------------------------------------------------------------
(* observation: probe everything, copy the claims, mark what is in flight, *)
(* and for the loop and its preview mark what is cooling.  Four steps.     *)

(***************************************************************************)
(* The probes read nothing the daemon keeps, so they and the copy of the   *)
(* claims that follows them are one step.  A dry run appends its claim.    *)
(***************************************************************************)
Observe(w, from) ==
  /\ Goto(w, from, "observed")
  /\ seen' = [seen EXCEPT ![w].claims = SnapshotClaims \cup @]
  /\ UNCHANGED <<dryRun, now, shared, req, plan, job, reply, history>>

(* Mutant of StartTick: the loop waits for the actions in flight. *)
StartTickWhenQuiet(r) ==
  /\ \A q \in Rounds : pc[q] = "idle"
  /\ inflight = {}
  /\ Observe(r, "idle")

(***************************************************************************)
(* The ticker fires: one goroutine observes at a time, and a round is used *)
(* again only when the actions it started are over (a bound of the model). *)
(***************************************************************************)
StartTick(r) ==
  /\ \A q \in Rounds : pc[q] = "idle"
  /\ \A s \in Services : job[r][s].pc = "none"
  /\ Observe(r, "idle")

(* Mutant of ApplyInflight: nothing is marked. *)
ApplyInflightNot(w) ==
  /\ Goto(w, "observed", "marked")
  /\ seen' = [seen EXCEPT ![w].since = now]
  /\ sinceMark' = [sinceMark EXCEPT ![w] = {}]
  /\ UNCHANGED <<dryRun, now, shared, req, plan, job, reply, overruled>>

(***************************************************************************)
(* applyInflight.  The clock the next step works with is read after this.  *)
(***************************************************************************)
ApplyInflight(w) ==
  /\ Goto(w, "observed", "marked")
  /\ seen' = [seen EXCEPT ![w].inflight = inflight, ![w].since = now]
  /\ sinceMark' = [sinceMark EXCEPT ![w] = {}]
  /\ UNCHANGED <<dryRun, now, shared, req, plan, job, reply, overruled>>

(***************************************************************************)
(* applyCooldowns: the clock is read, then the mutex is taken, every       *)
(* cooldown that has ended by that reading is forgotten, and the others    *)
(* are marked.                                                             *)
(***************************************************************************)
Cooling(until, t) == t < until

(* Mutant of ApplyCooldowns: a cooldown ends one instant early. *)
ApplyCooldownsEarly(w) ==
  /\ req[w].op \in {"tick", "plan"}
  /\ Goto(w, "marked", "cooled")
  /\ \E t \in seen[w].since..now :
       /\ cooldowns' = [s \in Services |-> IF Cooling(cooldowns[s], t + 1) THEN cooldowns[s] ELSE 0]
       /\ seen' = [seen EXCEPT ![w].cooling = {s \in Services : Cooling(cooldowns[s], t + 1)}]
  /\ UNCHANGED <<dryRun, now, claims, inflight, req, plan, job, reply, history>>

ApplyCooldowns(w) ==
  /\ req[w].op \in {"tick", "plan"}
  /\ Goto(w, "marked", "cooled")
  /\ \E t \in seen[w].since..now :
       /\ cooldowns' = [s \in Services |-> IF Cooling(cooldowns[s], t) THEN cooldowns[s] ELSE 0]
       /\ seen' = [seen EXCEPT ![w].cooling = {s \in Services : Cooling(cooldowns[s], t)}]
  /\ UNCHANGED <<dryRun, now, claims, inflight, req, plan, job, reply, history>>

-----------------------------------------------------------------------------
(* The poll loop. *)

(***************************************************************************)
(* tick, its end: decide and start the actions, waiting for none of them.  *)
(***************************************************************************)
DecideTick(r) ==
  /\ r \in Rounds
  /\ Goto(r, "cooled", "idle")
  /\ \E probes \in [Services -> Probes], free \in Readings :
       job' = [job EXCEPT ![r] = Spawned(PlanFrom(r, Observation(r, probes, free)).actions)]
  /\ Forget(r)
  /\ UNCHANGED <<dryRun, now, shared, sinceMark>>

-----------------------------------------------------------------------------
(* The handlers.  A request that names no configured service is answered   *)
(* with an error before any of this and changes nothing.                   *)

IsDry(c) == req[c].dry \/ dryRun

(***************************************************************************)
(* The other clients whose recorded claim this step changes before they    *)
(* have copied it.                                                         *)
(***************************************************************************)
Overruling(c, q) ==
  {d \in Clients \ {c} : pc[d] = "received" /\ req[d].service = q.service /\ claims' # claims}

(***************************************************************************)
(* The time of the claim a handler brings: one that stands keeps its own.  *)
(* A new one has what the handler's clock said, and it read that before it *)
(* asked for the mutex, so that two new claims may be recorded in the      *)
(* opposite order of their times.                                          *)
(***************************************************************************)
ClaimTimes(s) == IF claims[s] = NoClaim THEN 1..now ELSE {claims[s].at}

(* Mutants of RecordClaim: asking again starts the wait anew, and the daemon's own *)
(* --dry-run is forgotten.                                                         *)
RecordClaimAfresh(c, q) ==
  /\ q.op = "request"
  /\ Goto(c, "idle", "received")
  /\ req' = [req EXCEPT ![c] = q]
  /\ claims' = [claims EXCEPT ![q.service] = [need |-> q.need, at |-> now]]
  /\ overruled' = overruled \cup Overruling(c, q)
  /\ UNCHANGED <<dryRun, now, cooldowns, inflight, seen, plan, job, reply, sinceMark>>

RecordClaimIfDry(c, q) ==
  /\ q.op = "request"
  /\ Goto(c, "idle", "received")
  /\ req' = [req EXCEPT ![c] = q]
  /\ \E at \in ClaimTimes(q.service) :
       claims' = IF q.dry THEN claims
                 ELSE [claims EXCEPT ![q.service] = [need |-> q.need, at |-> at]]
  /\ overruled' = overruled \cup Overruling(c, q)
  /\ UNCHANGED <<dryRun, now, cooldowns, inflight, seen, plan, job, reply, sinceMark>>

(***************************************************************************)
(* handleRequest, first section: the claim is recorded.  A dry run records *)
(* nothing and carries the claim it would have recorded to its             *)
(* observation.                                                            *)
(***************************************************************************)
RecordClaim(c, q) ==
  LET dry == q.dry \/ dryRun
  IN /\ q.op = "request"
     /\ Goto(c, "idle", "received")
     /\ req' = [req EXCEPT ![c] = q]
     /\ \E at \in ClaimTimes(q.service) :
          /\ claims' = IF dry THEN claims
                       ELSE [claims EXCEPT ![q.service] = [need |-> q.need, at |-> at]]
          /\ seen' = IF dry THEN [seen EXCEPT ![c].claims =
                                    {[service |-> q.service, need |-> q.need, at |-> at, pos |-> 1]}]
                     ELSE seen
     /\ overruled' = overruled \cup Overruling(c, q)
     /\ UNCHANGED <<dryRun, now, cooldowns, inflight, plan, job, reply, sinceMark>>

(***************************************************************************)
(* handlePlan and handleEvict begin with the observation.                  *)
(***************************************************************************)
ReceiveOther(c, q) ==
  /\ q.op \in {"plan", "evict"}
  /\ Goto(c, "idle", "received")
  /\ req' = [req EXCEPT ![c] = q]
  /\ UNCHANGED <<dryRun, now, shared, seen, plan, job, reply, history>>

(***************************************************************************)
(* handleReleaseClaim: one section, answered at once.  A dry run only      *)
(* looks.                                                                  *)
(***************************************************************************)
ReleaseClaim(c, q) ==
  /\ q.op = "release"
  /\ pc[c] = "idle"
  /\ claims' = IF q.dry \/ dryRun THEN claims
               ELSE [claims EXCEPT ![q.service] = NoClaim]
  /\ overruled' = overruled \cup Overruling(c, q)
  /\ UNCHANGED <<dryRun, now, cooldowns, inflight, local, sinceMark>>

(***************************************************************************)
(* handlePlan, its end: the plan is the reply.                             *)
(***************************************************************************)
AnswerPlan(c) ==
  /\ req[c].op = "plan"
  /\ Goto(c, "cooled", "idle")
  /\ Forget(c)
  /\ UNCHANGED <<dryRun, now, shared, job, sinceMark>>

(***************************************************************************)
(* A dry run answers with its plan.  No cooldown is applied: an explicit   *)
(* request or evict acts at once.                                          *)
(***************************************************************************)
AnswerDryRun(c) ==
  /\ req[c].op \in {"request", "evict"} /\ IsDry(c)
  /\ Goto(c, "marked", "idle")
  /\ Forget(c)
  /\ UNCHANGED <<dryRun, now, shared, job, sinceMark>>

(***************************************************************************)
(* handleRequest and handleEvict decide, announce and start the actions of *)
(* the plan, all at once.  last is the action that ends the plan's list.   *)
(***************************************************************************)
LastOf(obs, actions) ==
  LET names == {a.service : a \in actions}
  IN IF names = {} THEN NoService
     ELSE CHOOSE s \in names : \A t \in names \ {s} : FreedBefore(obs, t, s)

DecideClient(c) ==
  /\ req[c].op \in {"request", "evict"} /\ ~IsDry(c)
  /\ Goto(c, "marked", "executing")
  /\ \E probes \in [Services -> Probes], free \in Readings :
       LET obs == Observation(c, probes, free)
           p == PlanFrom(c, obs)
       IN /\ job' = [job EXCEPT ![c] = Spawned(p.actions)]
          /\ plan' = [plan EXCEPT ![c] =
               IF req[c].op = "evict" THEN NoPlan
               ELSE [beneficiary |-> p.beneficiary, target |-> p.target, current |-> free,
                     last |-> LastOf(obs, p.actions)]]
  /\ seen' = [seen EXCEPT ![c] = NoSight]
  /\ UNCHANGED <<dryRun, now, shared, req, reply, history>>

(***************************************************************************)
(* The reply, once every action is over: the card is read again, failing   *)
(* that the reading the last action ended with stands in, failing that the *)
(* plan's own figure, which is 0 when the plan had none.  free keeps a     *)
(* figure that was never read apart from a 0 that was.                     *)
(***************************************************************************)
Executed(c) == {s \in Services : job[c][s].pc = "done"}

FigureFor(c, freeAfter) ==
  IF Executed(c) = {} THEN plan[c].current
  ELSE IF freeAfter # Unknown THEN freeAfter
  ELSE IF plan[c].last \in Services /\ job[c][plan[c].last].after # Unknown
    THEN job[c][plan[c].last].after
  ELSE plan[c].current

(* Mutant of TargetMet: strictly more than was asked. *)
TargetMetStrictly(c, figure) ==
  (IF figure = Unknown THEN 0 ELSE figure) > plan[c].target

TargetMet(c, figure) ==
  (IF figure = Unknown THEN 0 ELSE figure) >= plan[c].target

(* Mutant of Answer: it waits for a result from every service. *)
AnswerWhenAllDone(c) ==
  /\ Goto(c, "executing", "answered")
  /\ \A s \in Services : job[c][s].pc = "done"
  /\ job' = [job EXCEPT ![c] = [s \in Services |-> NoJob]]
  /\ UNCHANGED <<dryRun, now, shared, req, seen, plan, reply, history>>

Answer(c) ==
  /\ Goto(c, "executing", "answered")
  /\ \A s \in Services : job[c][s].pc \in {"none", "done"}
  /\ \E freeAfter \in Readings :
       LET figure == FigureFor(c, freeAfter)
       IN reply' = [reply EXCEPT ![c] =
            IF req[c].op = "evict" THEN NoReply
            ELSE [met |-> IF TargetMet(c, figure) THEN "yes" ELSE "no", free |-> figure]]
  /\ job' = [job EXCEPT ![c] = [s \in Services |-> NoJob]]
  /\ UNCHANGED <<dryRun, now, shared, req, seen, plan, history>>

HangUp(c) ==
  /\ Goto(c, "answered", "idle")
  /\ Forget(c)
  /\ UNCHANGED <<dryRun, now, shared, job, sinceMark>>

-----------------------------------------------------------------------------
(* executeGuarded, one goroutine per action. *)

(***************************************************************************)
(* What the goroutine leaves: a client waits for its result, the loop does *)
(* not.                                                                    *)
(***************************************************************************)
Ended(w, s) ==
  IF w \in Clients THEN [job[w][s] EXCEPT !.pc = "done"] ELSE NoJob

(***************************************************************************)
(* acquire: the service's one slot is taken.  The history records it for   *)
(* every other worker whose observation can still lead to an action.       *)
(***************************************************************************)
Acquire(w, s) ==
  /\ job[w][s].pc = "go"
  /\ s \notin inflight
  /\ inflight' = inflight \cup {s}
  /\ job' = [job EXCEPT ![w][s].pc = "acting"]
  /\ sinceMark' = [v \in Workers |-> IF v # w THEN sinceMark[v] \cup {s} ELSE sinceMark[v]]
  /\ UNCHANGED <<dryRun, now, claims, cooldowns, pc, req, seen, plan, reply, overruled>>

(* Mutant of Skip: the release is deferred before the slot is acquired. *)
SkipReleasing(w, s) ==
  /\ job[w][s].pc = "go"
  /\ s \in inflight
  /\ inflight' = inflight \ {s}
  /\ job' = [job EXCEPT ![w][s] = Ended(w, s)]
  /\ UNCHANGED <<dryRun, now, claims, cooldowns, pc, req, seen, plan, reply, history>>

Skip(w, s) ==
  /\ job[w][s].pc = "go"
  /\ s \in inflight
  /\ job' = [job EXCEPT ![w][s] = Ended(w, s)]
  /\ UNCHANGED <<dryRun, now, shared, pc, req, seen, plan, reply, history>>

(* Mutant of CooldownsAfter: a cooldown is added to the one still running. *)
CooldownsAdded(s, failed, before, after) ==
  LET measured == before # Unknown /\ after # Unknown
      worked == ~failed /\ measured /\ after - before >= Policy.minEffect
      unknown == ~failed /\ ~measured
  IN [cooldowns EXCEPT ![s] = IF worked THEN 0
                              ELSE IF unknown THEN @
                              ELSE IF @ = 0 THEN now + Policy.actionCooldown
                              ELSE @ + Policy.actionCooldown]

(***************************************************************************)
(* recordEffect: what the cooldowns become when an action on s ends.  A    *)
(* measured gain of minEffect ends a cooldown, an effect that could not be *)
(* measured is no evidence, anything else starts one.                      *)
(***************************************************************************)
CooldownsAfter(s, failed, before, after) ==
  LET measured == before # Unknown /\ after # Unknown
      worked == ~failed /\ measured /\ after - before >= Policy.minEffect
      unknown == ~failed /\ ~measured
  IN [cooldowns EXCEPT ![s] = IF worked THEN 0
                              ELSE IF unknown THEN @
                              ELSE now + Policy.actionCooldown]

(***************************************************************************)
(* executeOne: the card is read, the adapter is called, the card is read   *)
(* again and the effect is recorded.  A stop that allow_stop does not      *)
(* permit and a dry run end before the call and record nothing.            *)
(***************************************************************************)
ExecuteOne(w, s) ==
  /\ job[w][s].pc = "acting"
  /\ \E failed \in BOOLEAN, before, after \in Readings :
       LET refused == job[w][s].verb = "stop" /\ ~Config[s].allowStop
           figure == IF refused THEN Unknown ELSE IF dryRun THEN before ELSE after
       IN /\ job' = [job EXCEPT ![w][s].pc = "recorded", ![w][s].after = figure]
          /\ cooldowns' = IF refused \/ dryRun THEN cooldowns
                          ELSE CooldownsAfter(s, failed, before, after)
  /\ UNCHANGED <<dryRun, now, claims, inflight, pc, req, seen, plan, reply, history>>

(* Mutant of ReleaseSlot: the slot is kept. *)
ReleaseSlotNot(w, s) ==
  /\ job[w][s].pc = "recorded"
  /\ job' = [job EXCEPT ![w][s] = Ended(w, s)]
  /\ UNCHANGED <<dryRun, now, shared, pc, req, seen, plan, reply, history>>

(***************************************************************************)
(* The deferred releaseSlot, after the effect was recorded.                *)
(***************************************************************************)
ReleaseSlot(w, s) ==
  /\ job[w][s].pc = "recorded"
  /\ inflight' = inflight \ {s}
  /\ job' = [job EXCEPT ![w][s] = Ended(w, s)]
  /\ UNCHANGED <<dryRun, now, claims, cooldowns, pc, req, seen, plan, reply, history>>

-----------------------------------------------------------------------------
ClockTick ==
  /\ now < MaxTime
  /\ now' = now + 1
  /\ UNCHANGED <<dryRun, shared, local, history>>

Arrive(c) == \E q \in Requests : RecordClaim(c, q) \/ ReceiveOther(c, q) \/ ReleaseClaim(c, q)

Handle(c) ==
  \/ Observe(c, "received")
  \/ ApplyInflight(c)
  \/ ApplyCooldowns(c)
  \/ AnswerPlan(c)
  \/ AnswerDryRun(c)
  \/ DecideClient(c)
  \/ Answer(c)
  \/ HangUp(c)

Poll(r) == ApplyInflight(r) \/ ApplyCooldowns(r) \/ DecideTick(r)

Execute(w, s) == Acquire(w, s) \/ Skip(w, s) \/ ExecuteOne(w, s) \/ ReleaseSlot(w, s)

Next ==
  \/ ClockTick
  \/ \E r \in Rounds : StartTick(r) \/ Poll(r)
  \/ \E c \in Clients : Arrive(c) \/ Handle(c)
  \/ \E w \in Workers, s \in Services : Execute(w, s)

Spec == Init /\ [][Next]_vars

-----------------------------------------------------------------------------
(* Fairness.  The ticker keeps firing, the Go scheduler runs every         *)
(* goroutine, and an adapter call ends, because it is made under a         *)
(* timeout; the calls the constant Hanging names need not.                 *)

FairSpec ==
  /\ Spec
  /\ WF_vars(\E r \in Rounds : StartTick(r))
  /\ \A r \in Rounds : WF_vars(Poll(r))
  /\ \A c \in Clients : WF_vars(Handle(c))
  /\ \A w \in Workers, s \in Services :
       IF <<w, s>> \in Hanging THEN WF_vars(Acquire(w, s) \/ Skip(w, s) \/ ReleaseSlot(w, s))
       ELSE WF_vars(Execute(w, s))

-----------------------------------------------------------------------------
(* Properties. *)

Time == 0..(MaxTime + Policy.actionCooldown)

ClaimType == [need : Nat, at : 1..MaxTime] \cup {NoClaim}

SeenClaim == [service : Services, need : Nat, at : 1..MaxTime, pos : {0, 1}]

SightType == [claims : SUBSET SeenClaim, inflight : SUBSET Services,
              cooling : SUBSET Services, since : 0..MaxTime]

PlanType == [beneficiary : Services \cup {NoService}, target : Nat, current : Readings,
             last : Services \cup {NoService}]

PcType == {"idle", "received", "observed", "marked", "cooled", "executing", "answered"}

JobType == [pc : {"none", "go", "acting", "recorded", "done"},
            verb : {"none", "release", "stop"}, after : Readings]

StateOK ==
  /\ dryRun \in BOOLEAN
  /\ now \in 1..MaxTime
  /\ claims \in [Services -> ClaimType]
  /\ cooldowns \in [Services -> Time]
  /\ inflight \in SUBSET Services
  /\ pc \in [Workers -> PcType]
  /\ req \in [Workers -> Requests \cup {NoReq}]
  /\ seen \in [Workers -> SightType]
  /\ job \in [Workers -> [Services -> JobType]]
  /\ sinceMark \in [Workers -> SUBSET Services]
  /\ overruled \in SUBSET Clients

AnswersOK ==
  /\ plan \in [Workers -> PlanType]
  /\ reply \in [Workers -> [met : {"absent", "yes", "no"}, free : Readings]]

(***************************************************************************)
(* The type invariant.  It bounds the cooldowns: none reaches further than *)
(* one action_cooldown beyond the clock's last reading.                    *)
(***************************************************************************)
TypeOK == StateOK /\ AnswersOK

(***************************************************************************)
(* One action per service: inflight is exactly the set of services some    *)
(* goroutine is acting on, and no two goroutines act on the same one,      *)
(* whoever started them and however stale the plans they come from are.    *)
(***************************************************************************)
OneActionPerService ==
  /\ inflight = {s \in Services : \E w \in Workers : Acting(w, s)}
  /\ \A s \in Services : \A v, w \in Workers : Acting(v, s) /\ Acting(w, s) => v = w

(***************************************************************************)
(* The loop never starts an action on a service that is cooling, unless    *)
(* another action on that service began after this round looked at what is *)
(* in flight.  An action that was running then is either marked in flight  *)
(* or has recorded its effect before the cooldowns are read: it cannot     *)
(* slip between the two readings.                                          *)
(***************************************************************************)
LoopHonoursCooldowns ==
  [][\A r \in Rounds, s \in Services :
       /\ DecideTick(r)
       /\ job'[r][s].pc = "go"
       /\ Cooling(cooldowns[s], now)
       => s \in sinceMark[r]]_vars

(***************************************************************************)
(* A cooldown that is still running is touched only by the end of an       *)
(* action on its service: no sweep forgets it early, at any clock reading. *)
(***************************************************************************)
CooldownsRunTheirTime ==
  [][\A s \in Services :
       Cooling(cooldowns[s], now) /\ cooldowns'[s] # cooldowns[s] =>
         \E w \in Workers : job[w][s].pc = "acting" /\ job'[w][s].pc = "recorded"]_vars

(***************************************************************************)
(* Nobody jumps the queue: while the winning claim stands, asking again in *)
(* its own or in any other name does not hand the GPU to a service of the  *)
(* same or a lower priority.  Only a newcomer may go first, and only one   *)
(* that asked no later (daemon.go:682-685, "settled by who asked first"):  *)
(* its handler read the clock first and got the mutex second.              *)
(***************************************************************************)
Winner == BestClaim(SchedulerConfig, [claims |-> SnapshotClaims]).service

NobodyJumpsTheQueue ==
  [][\A s \in Services :
       (claims[s] # NoClaim /\ s = Winner /\ claims'[s] # NoClaim) =>
         \/ Winner' = s
         \/ Config[Winner'].priority > Config[s].priority
         \/ claims[Winner'] = NoClaim /\ claims'[Winner'].at <= claims[s].at]_vars

(***************************************************************************)
(* A unit is stopped only where allow_stop says so and nothing gentler     *)
(* exists, by whatever path the action was planned: the check executeOne   *)
(* repeats never has to refuse.                                            *)
(***************************************************************************)
StopIsTheLastResort ==
  \A w \in Workers, s \in Services :
    job[w][s].verb = "stop" => Config[s].allowStop /\ ~Config[s].canRelease

(***************************************************************************)
(* A daemon started with --dry-run plans, takes slots and answers, and     *)
(* leaves no trace: no claim, no cooldown, and no claim dropped.           *)
(***************************************************************************)
DryDaemonLeavesNoTrace ==
  dryRun => \A s \in Services : claims[s] = NoClaim /\ cooldowns[s] = 0

TargetOf(q) == IF q.need = 0 THEN Policy.floor ELSE q.need

(***************************************************************************)
(* When the plan served the request's own claim, and no other client has   *)
(* changed that claim before the plan's observation copied it, target_met  *)
(* says whether the figure read last reaches the target that request set:  *)
(* whatever is claimed, released and measured by others later on.          *)
(***************************************************************************)
TargetMetIsRightForTheWinner ==
  \A c \in Clients \ overruled :
    reply[c].met # "absent" /\ plan[c].beneficiary = req[c].service =>
      (reply[c].met = "yes" <=> reply[c].free >= TargetOf(req[c]))

(***************************************************************************)
(* Every request is answered, whatever the loop and the other clients do,  *)
(* unless an action of its own hangs: actions of others that hang do not   *)
(* hold it up.                                                             *)
(***************************************************************************)
Hangs(w, s) == <<w, s>> \in Hanging /\ job[w][s].pc = "acting"

EveryRequestIsAnswered ==
  \A c \in Clients : pc[c] # "idle" ~> pc[c] = "idle" \/ \E s \in Services : Hangs(c, s)

(***************************************************************************)
(* Every slot is returned: no service stays unevictable for ever, unless   *)
(* the call that holds its slot hangs.                                     *)
(***************************************************************************)
SlotsAreReturned ==
  \A s \in Services : s \in inflight ~> s \notin inflight \/ \E w \in Workers : Hangs(w, s)

(***************************************************************************)
(* The loop waits for no action: it goes on observing with an adapter call *)
(* that never returns.                                                     *)
(***************************************************************************)
LoopKeepsPolling == []<>(\E r \in Rounds : pc[r] = "marked")

-----------------------------------------------------------------------------
(* The abstract specification the daemon implements.                       *)

WhoIs(where) == [s \in Services |-> {w \in Workers : job[w][s].pc = where}]

Promise == INSTANCE Ledger WITH
  looking <- dryRun,
  taken <- inflight,
  working <- WhoIs("acting"),
  spent <- WhoIs("recorded"),
  Needs <- {q.need : q \in Requests},
  ActionCooldown <- Policy.actionCooldown

(***************************************************************************)
(* The daemon implements the ledger: whatever the loop, its rounds and the *)
(* clients do in between, each step either leaves what the daemon keeps    *)
(* alone or is one of the ledger's few entries, made by who may make it.   *)
(***************************************************************************)
ImplementsLedger == Promise!Spec

-----------------------------------------------------------------------------
(* What the repository says of the daemon and the code does not keep.      *)

(***************************************************************************)
(* daemon.go:678, "The plan it reports is still the one the real request   *)
(* would produce": a dry run plans the actions the same request, not dry,  *)
(* would plan from the same observation.                                   *)
(***************************************************************************)
ClaimsOfRealRequest(c) ==
  LET mine == {k \in seen[c].claims : k.service = req[c].service}
  IN (seen[c].claims \ mine) \cup {[k EXCEPT !.need = req[c].need] : k \in mine}

DryRunPlansTheRealThing ==
  \A c \in Clients :
    pc[c] = "marked" /\ req[c].op = "request" /\ IsDry(c) =>
      \A probes \in [Services -> Probes], free \in Readings :
        LET obs == Observation(c, probes, free)
            real == [obs EXCEPT !.claims = ClaimsOfRealRequest(c)]
        IN Decide(SchedulerConfig, obs).actions = Decide(SchedulerConfig, real).actions
=============================================================================
