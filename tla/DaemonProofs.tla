----------------------------- MODULE DaemonProofs -----------------------------
(***************************************************************************)
(* What the daemon keeps, for every set of services, workers and requests, *)
(* every configuration and every bound of the model.                       *)
(***************************************************************************)
EXTENDS Daemon, SchedulerProofs, TLAPS

-----------------------------------------------------------------------------
(* The goroutines a plan starts. *)

(***************************************************************************)
(* Every action of a plan made from an observation of the daemon is on a   *)
(* configured service, by a verb that service permits.                     *)
(***************************************************************************)
LEMMA PlansNameServices ==
  ASSUME NEW w, NEW probes, NEW free,
         NEW a \in PlanFrom(w, Observation(w, probes, free)).actions
  PROVE  /\ a.service \in Services
         /\ a.verb = ChooseVerb(ServiceState(w, a.service, probes[a.service]))
         /\ a.verb # "none"
<1> DEFINE obs == Observation(w, probes, free)
<1>1. \E s \in DOMAIN obs.services : a = ActionOn(obs, s) /\ Permits(obs, s)
  <2>1. CASE req[w].op # "evict"
    <3>1. a \in Decide(SchedulerConfig, obs).actions
      BY <2>1 DEF PlanFrom
    <3>2. PICK s \in Candidates(obs, Decide(SchedulerConfig, obs).beneficiary) :
            a = ActionOn(obs, s) /\ Permits(obs, s)
      BY <3>1, DecideActsOnCandidates
    <3> QED
      BY <3>2 DEF Candidates
  <2>2. CASE req[w].op = "evict" /\ req[w].all
    <3>1. a \in EvictAllExcept(obs, req[w].service).actions
      BY <2>2 DEF PlanFrom
    <3> QED
      BY <3>1, EvictAllExceptSparesTheKept DEF IsEvictable
  <2>3. CASE req[w].op = "evict" /\ ~req[w].all
    <3>1. a \in Evict(obs, {req[w].service}).actions
      BY <2>3 DEF PlanFrom
    <3> QED
      BY <3>1, EvictActsOnTheNamed DEF IsEvictable
  <2> QED
    BY <2>1, <2>2, <2>3
<1>2. obs.services = [s \in Services |-> ServiceState(w, s, probes[s])]
  BY DEF Observation
<1>3. PICK s \in Services : a = ActionOn(obs, s) /\ Permits(obs, s)
  BY <1>1, <1>2
<1>4. obs.services[s] = ServiceState(w, s, probes[s])
  BY <1>2
<1>5. a.service = s /\ a.verb = ChooseVerb(obs.services[s])
  BY <1>3 DEF ActionOn
<1>6. a.verb # "none"
  BY <1>3, <1>5 DEF Permits
<1> QED
  BY <1>3, <1>4, <1>5, <1>6

(***************************************************************************)
(* A plan starts at most one goroutine per service, none of which has      *)
(* begun, and none of which will stop a unit that may not be stopped.      *)
(***************************************************************************)
LEMMA SpawnedJobs ==
  ASSUME NEW w, NEW probes, NEW free, NEW jobs,
         jobs = Spawned(PlanFrom(w, Observation(w, probes, free)).actions)
  PROVE  /\ jobs \in [Services -> JobType]
         /\ \A s \in Services :
              /\ jobs[s].pc \in {"none", "go"}
              /\ jobs[s].verb = "stop" => Config[s].allowStop /\ ~Config[s].canRelease
<1> DEFINE actions == PlanFrom(w, Observation(w, probes, free)).actions
<1>1. ASSUME NEW s \in Services
      PROVE  /\ jobs[s] \in JobType
             /\ jobs[s].pc \in {"none", "go"}
             /\ jobs[s].verb = "stop" => Config[s].allowStop /\ ~Config[s].canRelease
  <2>1. CASE \E a \in actions : a.service = s
    <3> DEFINE a == CHOOSE x \in actions : x.service = s
    <3>1. a \in actions /\ a.service = s
      BY <2>1
    <3>2. a.verb = ChooseVerb(ServiceState(w, s, probes[s])) /\ a.verb # "none"
      BY <3>1, PlansNameServices
    <3>3. jobs[s] = [pc |-> "go", after |-> Unknown, verb |-> a.verb]
      BY <2>1 DEF Spawned
    <3>4. a.verb \in {"release", "stop"}
      BY <3>2, VerbsAreTheLeastInvasive
    <3>5. a.verb = "stop" => Config[s].allowStop /\ ~Config[s].canRelease
      <4>1. ServiceState(w, s, probes[s]).allowStop = Config[s].allowStop
            /\ ServiceState(w, s, probes[s]).canRelease = Config[s].canRelease
        BY DEF ServiceState
      <4> QED
        BY <3>2, <4>1, VerbsAreTheLeastInvasive
    <3> HIDE DEF a
    <3> QED
      BY <3>3, <3>4, <3>5 DEF JobType, Readings
  <2>2. CASE ~\E a \in actions : a.service = s
    <3>1. jobs[s] = NoJob
      BY <2>2 DEF Spawned
    <3> QED
      BY <3>1 DEF NoJob, JobType, Readings
  <2> QED
    BY <2>1, <2>2
<1>2. jobs = [s \in Services |-> jobs[s]]
  BY DEF Spawned
<1> QED
  BY <1>1, <1>2

-----------------------------------------------------------------------------
(* Types. *)

(***************************************************************************)
(* Updating one goroutine keeps the type of all.                           *)
(***************************************************************************)
LEMMA JobsUpdate ==
  ASSUME job \in [Workers -> [Services -> JobType]],
         NEW w \in Workers, NEW s \in Services, NEW one \in JobType
  PROVE  [job EXCEPT ![w][s] = one] \in [Workers -> [Services -> JobType]]
  OBVIOUS

(***************************************************************************)
(* The claims an observation copies are well formed.                       *)
(***************************************************************************)
LEMMA SnapshotTypes ==
  ASSUME StateOK
  PROVE  SnapshotClaims \in SUBSET SeenClaim
  BY DEF StateOK, SnapshotClaims, SeenClaim, ClaimType, NoClaim

(***************************************************************************)
(* However an action ends, its service's cooldown stays in range.          *)
(***************************************************************************)
LEMMA CooldownTypes ==
  ASSUME StateOK, NEW s \in Services, NEW failed, NEW before, NEW after
  PROVE  CooldownsAfter(s, failed, before, after) \in [Services -> Time]
<1>1. Policy.actionCooldown \in Nat /\ MaxTime \in Nat
  BY DaemonAssumption
<1>2. now + Policy.actionCooldown \in Time /\ 0 \in Time
  BY <1>1 DEF StateOK, Time
<1> QED
  BY <1>2 DEF StateOK, CooldownsAfter

(***************************************************************************)
(* What a goroutine leaves behind is a job that is over.                   *)
(***************************************************************************)
LEMMA EndedTypes ==
  ASSUME StateOK, NEW w \in Workers, NEW s \in Services
  PROVE  /\ Ended(w, s) \in JobType
         /\ Ended(w, s).pc \in {"none", "done"}
         /\ Ended(w, s).verb \in {"none", job[w][s].verb}
<1>1. job[w][s] \in JobType
  BY DEF StateOK
<1> QED
  BY <1>1 DEF Ended, NoJob, JobType, Readings

LEMMA InitTypes == Init => StateOK
<1> SUFFICES ASSUME Init PROVE StateOK
  OBVIOUS
<1>1. MaxTime \in Nat \ {0} /\ Policy.actionCooldown \in Nat /\ DryRuns \subseteq BOOLEAN
  BY DaemonAssumption
<1>2. 0 \in Time /\ 1 \in 1..MaxTime /\ 0 \in 0..MaxTime
  BY <1>1 DEF Time
<1>3. NoSight \in SightType
  BY <1>2 DEF NoSight, SightType
<1>4. NoJob \in JobType
  BY DEF NoJob, JobType, Readings
<1> QED
  BY <1>1, <1>2, <1>3, <1>4 DEF Init, StateOK, ClaimType, PcType

LEMMA NextTypes == StateOK /\ [Next]_vars => StateOK'
<1> SUFFICES ASSUME StateOK, [Next]_vars PROVE StateOK'
  OBVIOUS
<1> USE DEF shared, local, history
<1>0. NoSight \in SightType /\ NoJob \in JobType
  BY DaemonAssumption DEF NoSight, SightType, NoJob, JobType, Readings
<1>1. CASE ClockTick
  BY <1>1, DaemonAssumption DEF ClockTick, StateOK
<1>2. ASSUME NEW w \in Workers, NEW from, Observe(w, from) PROVE StateOK'
  <2>1. SnapshotClaims \in SUBSET SeenClaim
    BY SnapshotTypes
  <2>2. seen' \in [Workers -> SightType]
    <3>1. seen' = [seen EXCEPT ![w] = [seen[w] EXCEPT !.claims = SnapshotClaims \cup seen[w].claims]]
      BY <1>2 DEF Observe
    <3>2. seen[w] \in SightType
      BY DEF StateOK
    <3>3. SnapshotClaims \cup seen[w].claims \in SUBSET SeenClaim
      BY <2>1, <3>2 DEF SightType
    <3>4. [seen[w] EXCEPT !.claims = SnapshotClaims \cup seen[w].claims] \in SightType
      BY <3>2, <3>3 DEF SightType
    <3> QED
      BY <3>1, <3>4 DEF StateOK
  <2>3. pc' \in [Workers -> PcType]
    BY <1>2 DEF Observe, Goto, StateOK, PcType
  <2> QED
    BY <1>2, <2>2, <2>3 DEF Observe, StateOK
<1>3. ASSUME NEW w \in Workers, ApplyInflight(w) PROVE StateOK'
  <2>1. seen' \in [Workers -> SightType]
    <3>1. seen' = [seen EXCEPT ![w] = [seen[w] EXCEPT !.inflight = inflight, !.since = now]]
      BY <1>3 DEF ApplyInflight
    <3>2. seen[w] \in SightType /\ now \in 0..MaxTime
      BY DaemonAssumption DEF StateOK
    <3>3. [seen[w] EXCEPT !.inflight = inflight, !.since = now] \in SightType
      BY <3>2, inflight \in SUBSET Services DEF SightType, StateOK
    <3> QED
      BY <3>1, <3>3 DEF StateOK
  <2>2. pc' \in [Workers -> PcType] /\ sinceMark' \in [Workers -> SUBSET Services]
    BY <1>3 DEF ApplyInflight, Goto, StateOK, PcType
  <2> QED
    BY <1>3, <2>1, <2>2 DEF ApplyInflight, StateOK
<1>4. ASSUME NEW w \in Workers, ApplyCooldowns(w) PROVE StateOK'
  <2>1. PICK t \in seen[w].since..now :
          /\ cooldowns' = [s \in Services |-> IF Cooling(cooldowns[s], t) THEN cooldowns[s] ELSE 0]
          /\ seen' = [seen EXCEPT ![w].cooling = {s \in Services : Cooling(cooldowns[s], t)}]
    BY <1>4 DEF ApplyCooldowns
  <2>2. cooldowns' \in [Services -> Time]
    BY <2>1, DaemonAssumption DEF StateOK, Time
  <2>3. seen' \in [Workers -> SightType]
    <3> DEFINE cooling == {s \in Services : Cooling(cooldowns[s], t)}
    <3>1. seen' = [seen EXCEPT ![w] = [seen[w] EXCEPT !.cooling = cooling]]
      BY <2>1
    <3>2. [seen[w] EXCEPT !.cooling = cooling] \in SightType
      <4>1. seen[w] \in SightType /\ cooling \in SUBSET Services
        BY DEF StateOK
      <4> HIDE DEF cooling
      <4> QED
        BY <4>1 DEF SightType
    <3> QED
      BY <3>1, <3>2 DEF StateOK
  <2>4. pc' \in [Workers -> PcType]
    BY <1>4 DEF ApplyCooldowns, Goto, StateOK, PcType
  <2> QED
    BY <1>4, <2>2, <2>3, <2>4 DEF ApplyCooldowns, StateOK
<1>5. ASSUME NEW r \in Rounds, DecideTick(r) PROVE StateOK'
  <2>1. PICK probes \in [Services -> Probes], free \in Readings :
          job' = [job EXCEPT ![r] = Spawned(PlanFrom(r, Observation(r, probes, free)).actions)]
    BY <1>5 DEF DecideTick
  <2>2. job' \in [Workers -> [Services -> JobType]]
    BY <2>1, SpawnedJobs DEF StateOK
  <2>3. pc' \in [Workers -> PcType] /\ req' \in [Workers -> Requests \cup {NoReq}]
        /\ seen' \in [Workers -> SightType] /\ overruled' \in SUBSET Clients
    BY <1>0, <1>5 DEF DecideTick, Goto, Forget, StateOK, PcType
  <2> QED
    BY <1>5, <2>2, <2>3 DEF DecideTick, StateOK
<1>6. ASSUME NEW c \in Clients, NEW q \in Requests, RecordClaim(c, q) PROVE StateOK'
  <2>0. PICK at \in ClaimTimes(q.service) :
          /\ \/ claims' = claims
             \/ claims' = [claims EXCEPT ![q.service] = [need |-> q.need, at |-> at]]
          /\ \/ seen' = seen
             \/ seen' = [seen EXCEPT ![c].claims =
                  {[service |-> q.service, need |-> q.need, at |-> at, pos |-> 1]}]
    BY <1>6 DEF RecordClaim
  <2>1. q.service \in Services /\ q.need \in Nat
    BY DaemonAssumption DEF Request
  <2>2. at \in 1..MaxTime
    BY <2>1, DaemonAssumption DEF StateOK, ClaimType, ClaimTimes
  <2>3. claims' \in [Services -> ClaimType]
    <3>1. claims' = claims \/ claims' = [claims EXCEPT ![q.service] = [need |-> q.need, at |-> at]]
      BY <2>0
    <3>2. [need |-> q.need, at |-> at] \in ClaimType
      BY <2>1, <2>2 DEF ClaimType
    <3> QED
      BY <3>1, <3>2 DEF StateOK
  <2>4. seen' \in [Workers -> SightType]
    <3>1. seen' = seen \/ seen' = [seen EXCEPT ![c].claims =
            {[service |-> q.service, need |-> q.need, at |-> at, pos |-> 1]}]
      BY <2>0
    <3>2. [service |-> q.service, need |-> q.need, at |-> at, pos |-> 1] \in SeenClaim
      BY <2>1, <2>2 DEF SeenClaim
    <3> DEFINE claim == [service |-> q.service, need |-> q.need, at |-> at, pos |-> 1]
    <3>3. [seen[c] EXCEPT !.claims = {claim}] \in SightType
      <4>1. seen[c] \in SightType /\ {claim} \in SUBSET SeenClaim
        BY <3>2 DEF StateOK, Workers
      <4> HIDE DEF claim
      <4> QED
        BY <4>1 DEF SightType
    <3>4. seen' = seen \/ seen' = [seen EXCEPT ![c] = [seen[c] EXCEPT !.claims = {claim}]]
      BY <3>1
    <3> HIDE DEF claim
    <3> QED
      BY <3>3, <3>4 DEF StateOK
  <2>5. pc' \in [Workers -> PcType] /\ req' \in [Workers -> Requests \cup {NoReq}]
        /\ overruled' \in SUBSET Clients
    BY <1>6 DEF RecordClaim, Overruling, Goto, StateOK, PcType
  <2> QED
    BY <1>6, <2>3, <2>4, <2>5 DEF RecordClaim, StateOK
<1>7. ASSUME NEW c \in Clients, NEW q \in Requests, ReceiveOther(c, q) PROVE StateOK'
  BY <1>7 DEF ReceiveOther, Goto, StateOK, PcType
<1>8. ASSUME NEW c \in Clients, NEW q \in Requests, ReleaseClaim(c, q) PROVE StateOK'
  BY <1>8 DEF ReleaseClaim, Overruling, StateOK, ClaimType
<1>9. ASSUME NEW c \in Clients, AnswerPlan(c) \/ AnswerDryRun(c) \/ HangUp(c) PROVE StateOK'
  BY <1>0, <1>9 DEF AnswerPlan, AnswerDryRun, HangUp, Goto, Forget, StateOK, PcType
<1>10. ASSUME NEW c \in Clients, DecideClient(c) PROVE StateOK'
  <2>1. PICK probes \in [Services -> Probes], free \in Readings :
          job' = [job EXCEPT ![c] = Spawned(PlanFrom(c, Observation(c, probes, free)).actions)]
    BY <1>10 DEF DecideClient
  <2>2. job' \in [Workers -> [Services -> JobType]]
    BY <2>1, SpawnedJobs DEF StateOK
  <2>3. pc' \in [Workers -> PcType] /\ seen' \in [Workers -> SightType]
    BY <1>0, <1>10 DEF DecideClient, Goto, StateOK, PcType
  <2> QED
    BY <1>10, <2>2, <2>3 DEF DecideClient, StateOK
<1>11. ASSUME NEW c \in Clients, Answer(c) PROVE StateOK'
  BY <1>0, <1>11 DEF Answer, Goto, StateOK, PcType
<1>12. ASSUME NEW w \in Workers, NEW s \in Services, Acquire(w, s) PROVE StateOK'
  <2>1. job' \in [Workers -> [Services -> JobType]]
    <3>1. job' = [job EXCEPT ![w][s] = [job[w][s] EXCEPT !.pc = "acting"]]
      BY <1>12 DEF Acquire
    <3>2. job[w][s] \in JobType
      BY DEF StateOK
    <3>3. [job[w][s] EXCEPT !.pc = "acting"] \in JobType
      BY <3>2 DEF JobType
    <3> QED
      BY <3>1, <3>3, JobsUpdate DEF StateOK
  <2>2. sinceMark' \in [Workers -> SUBSET Services]
    BY <1>12 DEF Acquire, StateOK
  <2> QED
    BY <1>12, <2>1, <2>2 DEF Acquire, StateOK
<1>13. ASSUME NEW w \in Workers, NEW s \in Services, Skip(w, s) \/ ReleaseSlot(w, s) PROVE StateOK'
  <2>1. job' \in [Workers -> [Services -> JobType]]
    <3>1. job' = [job EXCEPT ![w][s] = Ended(w, s)]
      BY <1>13 DEF Skip, ReleaseSlot
    <3>2. Ended(w, s) \in JobType
      BY EndedTypes
    <3> QED
      BY <3>1, <3>2, JobsUpdate DEF StateOK
  <2> QED
    BY <1>13, <2>1 DEF Skip, ReleaseSlot, StateOK
<1>14. ASSUME NEW w \in Workers, NEW s \in Services, ExecuteOne(w, s) PROVE StateOK'
  <2>1. PICK failed \in BOOLEAN, before \in Readings, after \in Readings, figure \in Readings :
          /\ job' = [job EXCEPT ![w][s].pc = "recorded", ![w][s].after = figure]
          /\ \/ cooldowns' = cooldowns
             \/ cooldowns' = CooldownsAfter(s, failed, before, after)
    BY <1>14 DEF ExecuteOne, Readings
  <2>2. job' \in [Workers -> [Services -> JobType]]
    <3>1. job' = [job EXCEPT ![w][s] = [job[w][s] EXCEPT !.pc = "recorded", !.after = figure]]
      BY <2>1
    <3>2. job[w][s] \in JobType
      BY DEF StateOK
    <3>3. [job[w][s] EXCEPT !.pc = "recorded", !.after = figure] \in JobType
      BY <3>2 DEF JobType
    <3> QED
      BY <3>1, <3>3, JobsUpdate DEF StateOK
  <2>3. cooldowns' \in [Services -> Time]
    BY <2>1, CooldownTypes DEF StateOK
  <2> QED
    BY <1>14, <2>2, <2>3 DEF ExecuteOne, StateOK
<1>15. CASE UNCHANGED vars
  BY <1>15 DEF vars, StateOK
<1> QED
  BY <1>1, <1>2, <1>3, <1>4, <1>5, <1>6, <1>7, <1>8, <1>9, <1>10, <1>11, <1>12, <1>13, <1>14, <1>15
     DEF Next, StartTick, Poll, Arrive, Handle, Execute, Workers

(***************************************************************************)
(* Everything the daemon shares and every goroutine's own state keep their *)
(* types; in particular no cooldown reaches further than one               *)
(* action_cooldown beyond the clock.                                       *)
(***************************************************************************)
THEOREM TypeCorrect == Spec => []StateOK
<1>1. Init => StateOK
  BY InitTypes
<1>2. StateOK /\ [Next]_vars => StateOK'
  BY NextTypes
<1> QED
  BY <1>1, <1>2, PTL DEF Spec

-----------------------------------------------------------------------------
(* One action per service. *)

(***************************************************************************)
(* A worker overwrites its goroutines when it decides and when it answers. *)
(* OneActionPerService survives that only because none of them holds a     *)
(* slot then: before it decides a worker has no goroutine at all.          *)
(***************************************************************************)
Undecided(w) == IF w \in Clients THEN pc[w] # "executing" ELSE pc[w] # "idle"

QuietUntilDecided ==
  \A w \in Workers : Undecided(w) => \A s \in Services : job[w][s].pc = "none"

SlotInv == StateOK /\ QuietUntilDecided /\ OneActionPerService

(***************************************************************************)
(* A step that moves workers on, and leaves goroutines and slots alone.    *)
(***************************************************************************)
LEMMA MovingOn ==
  ASSUME SlotInv, NEW w \in Workers, UNCHANGED <<inflight, job>>,
         \A v \in Workers \ {w} : pc'[v] = pc[v],
         \/ Undecided(w)
         \/ ~Undecided(w)'
         \/ \A s \in Services : job[w][s].pc = "none"
  PROVE  QuietUntilDecided' /\ OneActionPerService'
<1>1. OneActionPerService'
  BY DEF SlotInv, OneActionPerService, Acting
<1>2. ASSUME NEW v \in Workers, Undecided(v)' PROVE \A s \in Services : job'[v][s].pc = "none"
  BY <1>2 DEF SlotInv, QuietUntilDecided, Undecided
<1> QED
  BY <1>1, <1>2 DEF QuietUntilDecided

(***************************************************************************)
(* A step that replaces all the goroutines of one worker by some that hold *)
(* no slot, where none held one before.                                    *)
(***************************************************************************)
LEMMA StartingOver ==
  ASSUME SlotInv, NEW w \in Workers, NEW jobs, job' = [job EXCEPT ![w] = jobs],
         inflight' = inflight,
         \A v \in Workers \ {w} : pc'[v] = pc[v],
         \A s \in Services : ~Acting(w, s) /\ jobs[s].pc \notin {"acting", "recorded"},
         Undecided(w)' => \A s \in Services : jobs[s].pc = "none"
  PROVE  QuietUntilDecided' /\ OneActionPerService'
<1>1. \A v \in Workers : job'[v] = IF v = w THEN jobs ELSE job[v]
  BY DEF SlotInv, StateOK
<1>2. \A v \in Workers, s \in Services : Acting(v, s)' <=> Acting(v, s)
  BY <1>1 DEF Acting
<1>3. OneActionPerService'
  BY <1>2 DEF SlotInv, OneActionPerService
<1>4. ASSUME NEW v \in Workers, Undecided(v)' PROVE \A s \in Services : job'[v][s].pc = "none"
  BY <1>1, <1>4 DEF SlotInv, QuietUntilDecided, Undecided
<1> QED
  BY <1>3, <1>4 DEF QuietUntilDecided

(***************************************************************************)
(* A step of one goroutine.                                                *)
(***************************************************************************)
LEMMA OneGoroutineMoves ==
  ASSUME SlotInv, NEW w \in Workers, NEW s \in Services, NEW one,
         job' = [job EXCEPT ![w][s] = one], pc' = pc, job[w][s].pc # "none",
         \/ /\ inflight' = inflight
            /\ Acting(w, s) <=> one.pc \in {"acting", "recorded"}
         \/ /\ inflight' = inflight \cup {s}
            /\ s \notin inflight
            /\ one.pc \in {"acting", "recorded"}
         \/ /\ inflight' = inflight \ {s}
            /\ Acting(w, s)
            /\ one.pc \notin {"acting", "recorded"}
  PROVE  QuietUntilDecided' /\ OneActionPerService'
<1>1. \A v \in Workers, u \in Services : job'[v][u] = IF v = w /\ u = s THEN one ELSE job[v][u]
  BY DEF SlotInv, StateOK
<1>2. \A v \in Workers, u \in Services :
        Acting(v, u)' <=> IF v = w /\ u = s THEN one.pc \in {"acting", "recorded"} ELSE Acting(v, u)
  BY <1>1 DEF Acting
<1>3. OneActionPerService'
  <2>1. inflight \in SUBSET Services
    BY DEF SlotInv, StateOK
  <2>2. \A u \in Services : u \in inflight <=> \E v \in Workers : Acting(v, u)
    BY DEF SlotInv, OneActionPerService
  <2>3. \A u \in Services : \A v, x \in Workers : Acting(v, u) /\ Acting(x, u) => v = x
    BY DEF SlotInv, OneActionPerService
  <2>4. \A u \in Services : u \in inflight' <=> \E v \in Workers : Acting(v, u)'
    BY <1>2, <2>1, <2>2, <2>3
  <2>5. \A u \in Services : \A v, x \in Workers : Acting(v, u)' /\ Acting(x, u)' => v = x
    BY <1>2, <2>2, <2>3
  <2>6. inflight' \subseteq Services
    BY <2>1
  <2> QED
    BY <2>4, <2>5, <2>6 DEF OneActionPerService
<1>4. ASSUME NEW v \in Workers, Undecided(v)', NEW u \in Services PROVE job'[v][u].pc = "none"
  BY <1>1, <1>4 DEF SlotInv, QuietUntilDecided, Undecided
<1> QED
  BY <1>3, <1>4 DEF QuietUntilDecided

LEMMA InitSlots == Init => SlotInv
<1> SUFFICES ASSUME Init PROVE SlotInv
  OBVIOUS
<1>1. \A w \in Workers, s \in Services : job[w][s].pc = "none"
  BY DEF Init, NoJob
<1>2. QuietUntilDecided
  BY <1>1 DEF QuietUntilDecided
<1>3. OneActionPerService
  BY <1>1 DEF Init, OneActionPerService, Acting
<1> QED
  BY <1>2, <1>3, InitTypes DEF SlotInv

LEMMA NextSlots == SlotInv /\ [Next]_vars => SlotInv'
<1> SUFFICES ASSUME SlotInv, [Next]_vars PROVE QuietUntilDecided' /\ OneActionPerService'
  BY NextTypes DEF SlotInv
<1> USE DEF shared, local, history
<1>0. /\ Rounds \cap Clients = {}
      /\ pc \in [Workers -> PcType]
      /\ \A w \in Workers : DOMAIN job[w] = Services
  BY DaemonAssumption DEF SlotInv, StateOK
<1>1. CASE ClockTick \/ UNCHANGED vars
  BY <1>1 DEF ClockTick, vars, SlotInv, QuietUntilDecided, Undecided, OneActionPerService, Acting
<1>2. ASSUME NEW r \in Rounds, StartTick(r) PROVE QuietUntilDecided' /\ OneActionPerService'
  BY <1>0, <1>2, MovingOn DEF StartTick, Observe, Goto, Workers
<1>3. ASSUME NEW w \in Workers, ApplyInflight(w) \/ ApplyCooldowns(w)
      PROVE  QuietUntilDecided' /\ OneActionPerService'
  <2>1. Undecided(w)
    BY <1>0, <1>3 DEF ApplyInflight, ApplyCooldowns, Goto, Undecided
  <2> QED
    BY <1>0, <1>3, <2>1, MovingOn DEF ApplyInflight, ApplyCooldowns, Goto
<1>4. ASSUME NEW c \in Clients, NEW q,
             RecordClaim(c, q) \/ ReceiveOther(c, q) \/ ReleaseClaim(c, q)
      PROVE  QuietUntilDecided' /\ OneActionPerService'
  <2>1. Undecided(c)
    BY <1>0, <1>4 DEF RecordClaim, ReceiveOther, ReleaseClaim, Goto, Undecided
  <2> QED
    BY <1>0, <1>4, <2>1, MovingOn DEF RecordClaim, ReceiveOther, ReleaseClaim, Goto, Workers
<1>5. ASSUME NEW c \in Clients,
             Observe(c, "received") \/ AnswerPlan(c) \/ AnswerDryRun(c) \/ HangUp(c)
      PROVE  QuietUntilDecided' /\ OneActionPerService'
  <2>1. Undecided(c)
    BY <1>0, <1>5 DEF Observe, AnswerPlan, AnswerDryRun, HangUp, Goto, Undecided
  <2> QED
    BY <1>0, <1>5, <2>1, MovingOn DEF Observe, AnswerPlan, AnswerDryRun, HangUp, Goto, Workers
<1>6. ASSUME NEW w \in Workers, (w \in Rounds /\ DecideTick(w)) \/ (w \in Clients /\ DecideClient(w))
      PROVE  QuietUntilDecided' /\ OneActionPerService'
  <2>1. PICK probes, free :
          job' = [job EXCEPT ![w] = Spawned(PlanFrom(w, Observation(w, probes, free)).actions)]
    BY <1>6 DEF DecideTick, DecideClient
  <2> DEFINE jobs == Spawned(PlanFrom(w, Observation(w, probes, free)).actions)
  <2>2. \A s \in Services : jobs[s].pc \in {"none", "go"}
    BY SpawnedJobs
  <2>3. Undecided(w) /\ ~Undecided(w)' /\ \A v \in Workers \ {w} : pc'[v] = pc[v]
    BY <1>0, <1>6 DEF DecideTick, DecideClient, Goto, Undecided
  <2>4. \A s \in Services : ~Acting(w, s)
    BY <2>3 DEF SlotInv, QuietUntilDecided, Acting
  <2>5. inflight' = inflight
    BY <1>6 DEF DecideTick, DecideClient
  <2> HIDE DEF jobs
  <2> QED
    BY <2>1, <2>2, <2>3, <2>4, <2>5, StartingOver DEF jobs
<1>7. ASSUME NEW c \in Clients, Answer(c) PROVE QuietUntilDecided' /\ OneActionPerService'
  <2> DEFINE jobs == [s \in Services |-> NoJob]
  <2>1. job' = [job EXCEPT ![c] = jobs] /\ inflight' = inflight
    BY <1>7 DEF Answer
  <2>2. \A s \in Services : jobs[s].pc = "none"
    BY DEF NoJob
  <2>3. \A s \in Services : ~Acting(c, s)
    BY <1>7 DEF Answer, Acting
  <2>4. \A v \in Workers \ {c} : pc'[v] = pc[v]
    BY <1>0, <1>7 DEF Answer, Goto
  <2> HIDE DEF jobs
  <2> QED
    BY <2>1, <2>2, <2>3, <2>4, StartingOver DEF Workers
<1>8. ASSUME NEW w \in Workers, NEW s \in Services, Execute(w, s)
      PROVE  QuietUntilDecided' /\ OneActionPerService'
  <2>1. CASE Acquire(w, s)
    <3> DEFINE one == [job[w][s] EXCEPT !.pc = "acting"]
    <3>1. job' = [job EXCEPT ![w][s] = one]
      BY <2>1 DEF Acquire
    <3>2. job[w][s] \in JobType
      BY DEF SlotInv, StateOK
    <3>3. one.pc = "acting"
      BY <3>2 DEF JobType
    <3>4. ~Acting(w, s) /\ job[w][s].pc # "none" /\ s \notin inflight
          /\ inflight' = inflight \cup {s} /\ pc' = pc
      BY <2>1 DEF Acquire, Acting
    <3> HIDE DEF one
    <3> QED
      BY <3>1, <3>3, <3>4, OneGoroutineMoves
  <2>2. CASE Skip(w, s)
    <3>1. ~Acting(w, s) /\ Ended(w, s).pc \notin {"acting", "recorded"}
      BY <2>2, EndedTypes DEF Skip, Acting, SlotInv
    <3> QED
      BY <2>2, <3>1, OneGoroutineMoves DEF Skip
  <2>3. CASE ExecuteOne(w, s)
    <3>1. PICK figure : job' = [job EXCEPT ![w][s].pc = "recorded", ![w][s].after = figure]
      BY <2>3 DEF ExecuteOne
    <3> DEFINE one == [job[w][s] EXCEPT !.pc = "recorded", !.after = figure]
    <3>2. job[w][s] \in JobType
      BY DEF SlotInv, StateOK
    <3>3. job' = [job EXCEPT ![w][s] = one]
      BY <3>1
    <3>4. one.pc = "recorded"
      BY <3>2 DEF JobType
    <3>5. Acting(w, s) /\ job[w][s].pc # "none" /\ inflight' = inflight /\ pc' = pc
      BY <2>3 DEF ExecuteOne, Acting
    <3> HIDE DEF one
    <3> QED
      BY <3>3, <3>4, <3>5, OneGoroutineMoves
  <2>4. CASE ReleaseSlot(w, s)
    <3>1. Acting(w, s) /\ Ended(w, s).pc \notin {"acting", "recorded"}
      BY <2>4, EndedTypes DEF ReleaseSlot, Acting, SlotInv
    <3> QED
      BY <2>4, <3>1, OneGoroutineMoves DEF ReleaseSlot
  <2> QED
    BY <1>8, <2>1, <2>2, <2>3, <2>4 DEF Execute
<1> QED
  BY <1>1, <1>2, <1>3, <1>4, <1>5, <1>6, <1>7, <1>8 DEF Next, Poll, Arrive, Handle, Workers

(***************************************************************************)
(* No two goroutines ever act on one service, and the in-flight marks that *)
(* observations carry are exact when they are taken: whatever number of    *)
(* rounds, clients and services there is, and however stale the plans are. *)
(***************************************************************************)
THEOREM SlotsExclude == Spec => []OneActionPerService
<1>1. Init => SlotInv
  BY InitSlots
<1>2. SlotInv /\ [Next]_vars => SlotInv'
  BY NextSlots
<1>3. SlotInv => OneActionPerService
  BY DEF SlotInv
<1> QED
  BY <1>1, <1>2, <1>3, PTL DEF Spec

-----------------------------------------------------------------------------
(* Stops. *)

LEMMA InitStops == Init => StopIsTheLastResort
  BY DEF Init, NoJob, StopIsTheLastResort

LEMMA NextStops == StateOK /\ StopIsTheLastResort /\ [Next]_vars => StopIsTheLastResort'
<1> SUFFICES ASSUME StateOK, StopIsTheLastResort, [Next]_vars PROVE StopIsTheLastResort'
  OBVIOUS
<1> USE DEF shared, local, history
<1>0. /\ job \in [Workers -> [Services -> JobType]]
      /\ \A w \in Workers, s \in Services : job[w][s] \in JobType
  BY DEF StateOK
<1>1. CASE UNCHANGED job
  BY <1>1 DEF StopIsTheLastResort
<1>2. ASSUME NEW w \in Workers, DecideTick(w) \/ DecideClient(w) PROVE StopIsTheLastResort'
  <2>1. PICK probes, free :
          job' = [job EXCEPT ![w] = Spawned(PlanFrom(w, Observation(w, probes, free)).actions)]
    BY <1>2 DEF DecideTick, DecideClient
  <2> DEFINE jobs == Spawned(PlanFrom(w, Observation(w, probes, free)).actions)
  <2>2. \A s \in Services : jobs[s].verb = "stop" => Config[s].allowStop /\ ~Config[s].canRelease
    BY SpawnedJobs
  <2>3. \A v \in Workers : job'[v] = IF v = w THEN jobs ELSE job[v]
    BY <1>0, <2>1
  <2> HIDE DEF jobs
  <2> QED
    BY <2>2, <2>3 DEF StopIsTheLastResort
<1>3. ASSUME NEW c \in Workers, Answer(c) PROVE StopIsTheLastResort'
  BY <1>0, <1>3 DEF Answer, NoJob, StopIsTheLastResort
<1>4. ASSUME NEW w \in Workers, NEW s \in Services, Execute(w, s) PROVE StopIsTheLastResort'
  <2>1. PICK one : /\ job' = [job EXCEPT ![w][s] = one]
                   /\ one.verb \in {"none", job[w][s].verb}
    <3>1. CASE Acquire(w, s)
      <4>1. job' = [job EXCEPT ![w][s] = [job[w][s] EXCEPT !.pc = "acting"]]
        BY <3>1 DEF Acquire
      <4>2. [job[w][s] EXCEPT !.pc = "acting"].verb = job[w][s].verb
        BY <1>0 DEF JobType
      <4> QED
        BY <4>1, <4>2
    <3>2. CASE Skip(w, s) \/ ReleaseSlot(w, s)
      BY <3>2, EndedTypes DEF Skip, ReleaseSlot
    <3>3. CASE ExecuteOne(w, s)
      <4>1. PICK figure :
              job' = [job EXCEPT ![w][s].pc = "recorded", ![w][s].after = figure]
        BY <3>3 DEF ExecuteOne
      <4>2. job' = [job EXCEPT ![w][s] = [job[w][s] EXCEPT !.pc = "recorded", !.after = figure]]
        BY <4>1
      <4>3. [job[w][s] EXCEPT !.pc = "recorded", !.after = figure].verb = job[w][s].verb
        BY <1>0 DEF JobType
      <4> QED
        BY <4>2, <4>3
    <3> QED
      BY <1>4, <3>1, <3>2, <3>3 DEF Execute
  <2>2. \A v \in Workers, u \in Services : job'[v][u] = IF v = w /\ u = s THEN one ELSE job[v][u]
    BY <1>0, <2>1
  <2> QED
    BY <2>1, <2>2 DEF StopIsTheLastResort
<1>5. \/ UNCHANGED job
      \/ \E w \in Workers : DecideTick(w) \/ DecideClient(w) \/ Answer(w)
      \/ \E w \in Workers, s \in Services : Execute(w, s)
  BY DEF Next, ClockTick, StartTick, Poll, Arrive, Handle, Observe, ApplyInflight, ApplyCooldowns,
         RecordClaim, ReceiveOther, ReleaseClaim, AnswerPlan, AnswerDryRun, HangUp, Workers, vars
<1> QED
  BY <1>1, <1>2, <1>3, <1>4, <1>5

(***************************************************************************)
(* No goroutine, whoever planned it and from whatever observation, is ever *)
(* about to stop a unit without allow_stop, or one that can be asked to    *)
(* release instead.                                                        *)
(***************************************************************************)
THEOREM StopsAreLastResorts == Spec => []StopIsTheLastResort
<1>1. Init => StateOK /\ StopIsTheLastResort
  BY InitTypes, InitStops
<1>2. StateOK /\ StopIsTheLastResort /\ [Next]_vars => StateOK' /\ StopIsTheLastResort'
  BY NextTypes, NextStops
<1> QED
  BY <1>1, <1>2, PTL DEF Spec

-----------------------------------------------------------------------------
(* A daemon started with --dry-run. *)

LEMMA NextDry == StateOK /\ DryDaemonLeavesNoTrace /\ [Next]_vars => DryDaemonLeavesNoTrace'
<1> SUFFICES ASSUME StateOK, DryDaemonLeavesNoTrace, [Next]_vars PROVE DryDaemonLeavesNoTrace'
  OBVIOUS
<1> USE DEF shared, local, history
<1>0. dryRun' = dryRun
  BY DEF Next, ClockTick, StartTick, Poll, Arrive, Handle, Execute, Observe, ApplyInflight,
         ApplyCooldowns, DecideTick, RecordClaim, ReceiveOther, ReleaseClaim, AnswerPlan,
         AnswerDryRun, DecideClient, Answer, HangUp, Acquire, Skip, ExecuteOne, ReleaseSlot, vars
<1>1. CASE UNCHANGED <<claims, cooldowns>>
  BY <1>0, <1>1 DEF DryDaemonLeavesNoTrace
<1>2. ASSUME NEW w, ApplyCooldowns(w) PROVE DryDaemonLeavesNoTrace'
  BY <1>0, <1>2 DEF ApplyCooldowns, DryDaemonLeavesNoTrace
<1>3. ASSUME NEW c, NEW q, RecordClaim(c, q) \/ ReleaseClaim(c, q) PROVE DryDaemonLeavesNoTrace'
  BY <1>0, <1>3 DEF RecordClaim, ReleaseClaim, DryDaemonLeavesNoTrace
<1>4. ASSUME NEW w, NEW s, ExecuteOne(w, s) PROVE DryDaemonLeavesNoTrace'
  BY <1>0, <1>4 DEF ExecuteOne, DryDaemonLeavesNoTrace
<1>5. \/ UNCHANGED <<claims, cooldowns>>
      \/ \E w \in Workers : ApplyCooldowns(w)
      \/ \E c \in Clients, q \in Requests : RecordClaim(c, q) \/ ReleaseClaim(c, q)
      \/ \E w \in Workers, s \in Services : ExecuteOne(w, s)
  BY DEF Next, ClockTick, StartTick, Poll, Arrive, Handle, Execute, Observe, ApplyInflight,
         DecideTick, ReceiveOther, AnswerPlan, AnswerDryRun, DecideClient, Answer, HangUp,
         Acquire, Skip, ReleaseSlot, Workers, vars
<1> QED
  BY <1>1, <1>2, <1>3, <1>4, <1>5

(***************************************************************************)
(* A daemon started with --dry-run never holds a claim or a cooldown.      *)
(***************************************************************************)
THEOREM DryRunsLeaveNoTrace == Spec => []DryDaemonLeavesNoTrace
<1>1. Init => StateOK /\ DryDaemonLeavesNoTrace
  <2>1. Init => DryDaemonLeavesNoTrace
    BY DEF Init, DryDaemonLeavesNoTrace
  <2> QED
    BY <2>1, InitTypes
<1>2. StateOK /\ DryDaemonLeavesNoTrace /\ [Next]_vars => StateOK' /\ DryDaemonLeavesNoTrace'
  BY NextTypes, NextDry
<1> QED
  BY <1>1, <1>2, PTL DEF Spec

-----------------------------------------------------------------------------
(* Cooldowns. *)

(***************************************************************************)
(* What a round of the loop may rely on, for a service that was not in     *)
(* flight when it looked and that nobody has acquired since: once it has   *)
(* looked, no goroutine is acting on the service, so nothing can start a   *)
(* cooldown; once it has read the cooldowns, a service it does not see     *)
(* cooling is not cooling.                                                 *)
(***************************************************************************)
SightHolds(r, s) ==
  s \notin seen[r].inflight \cup sinceMark[r] =>
    /\ pc[r] \in {"marked", "cooled"} => \A w \in Workers : job[w][s].pc # "acting"
    /\ pc[r] = "cooled" /\ s \notin seen[r].cooling => ~Cooling(cooldowns[s], now)

SightInv == SlotInv /\ \A r \in Rounds, s \in Services : SightHolds(r, s)

(***************************************************************************)
(* The steps of everybody else leave it so.                                *)
(***************************************************************************)
LEMMA StepsOfOthers ==
  ASSUME NEW r, NEW s, SightHolds(r, s),
         pc'[r] = pc[r], seen'[r] = seen[r], sinceMark[r] \subseteq sinceMark'[r],
         pc[r] \in {"marked", "cooled"} =>
           \A w \in Workers : job'[w][s].pc = "acting" => job[w][s].pc = "acting" \/ s \in sinceMark'[r],
         Cooling(cooldowns'[s], now') =>
           Cooling(cooldowns[s], now) \/ \E w \in Workers : job[w][s].pc = "acting"
  PROVE  SightHolds(r, s)'
<1>1. SUFFICES ASSUME s \notin seen'[r].inflight \cup sinceMark'[r]
               PROVE  /\ pc'[r] \in {"marked", "cooled"} => \A w \in Workers : job'[w][s].pc # "acting"
                      /\ pc'[r] = "cooled" /\ s \notin seen'[r].cooling => ~Cooling(cooldowns'[s], now')
  BY DEF SightHolds
<1>2. s \notin seen[r].inflight \cup sinceMark[r]
  BY <1>1
<1>3. pc[r] \in {"marked", "cooled"} => \A w \in Workers : job[w][s].pc # "acting"
  BY <1>2 DEF SightHolds
<1>4. pc'[r] = "cooled" /\ s \notin seen'[r].cooling => ~Cooling(cooldowns'[s], now')
  BY <1>2, <1>3 DEF SightHolds
<1>5. pc'[r] \in {"marked", "cooled"} => \A w \in Workers : job'[w][s].pc # "acting"
  BY <1>1, <1>3
<1> QED
  BY <1>4, <1>5

(***************************************************************************)
(* A cooldown can come to run, or a goroutine to act, only as named here.  *)
(***************************************************************************)
LEMMA CooldownsComeFromActions ==
  ASSUME StateOK, [Next]_vars, NEW s \in Services, Cooling(cooldowns'[s], now')
  PROVE  Cooling(cooldowns[s], now) \/ \E w \in Workers : ExecuteOne(w, s)
<1> USE DEF shared, local, history
<1>0. /\ now \in Nat /\ now >= 1 /\ cooldowns[s] \in Int
      /\ DOMAIN cooldowns = Services /\ MaxTime \in Nat
  BY DaemonAssumption DEF StateOK, Time
<1>1. CASE ClockTick
  BY <1>0, <1>1 DEF ClockTick, Cooling
<1>2. CASE UNCHANGED <<now, cooldowns>>
  BY <1>2
<1>3. ASSUME NEW w, ApplyCooldowns(w) PROVE Cooling(cooldowns[s], now)
  BY <1>0, <1>3 DEF ApplyCooldowns, Cooling
<1>4. ASSUME NEW w, NEW u \in Services, u # s, ExecuteOne(w, u) PROVE Cooling(cooldowns[s], now)
  <2>1. cooldowns'[s] = cooldowns[s] /\ now' = now
    BY <1>0, <1>4 DEF ExecuteOne, CooldownsAfter
  <2> QED
    BY <2>1
<1>5. \/ ClockTick \/ UNCHANGED <<now, cooldowns>>
      \/ \E w \in Workers : ApplyCooldowns(w)
      \/ \E w \in Workers, u \in Services : ExecuteOne(w, u)
  BY DEF Next, StartTick, Poll, Arrive, Handle, Execute, Observe, ApplyInflight, DecideTick,
         RecordClaim, ReceiveOther, ReleaseClaim, AnswerPlan, AnswerDryRun, DecideClient, Answer,
         HangUp, Acquire, Skip, ReleaseSlot, Workers, vars
<1> QED
  BY <1>1, <1>2, <1>3, <1>4, <1>5

LEMMA ActingComesFromAcquire ==
  ASSUME StateOK, [Next]_vars, NEW s \in Services, NEW w \in Workers,
         job'[w][s].pc = "acting", job[w][s].pc # "acting"
  PROVE  Acquire(w, s)
<1> USE DEF shared, local, history
<1>0. /\ job \in [Workers -> [Services -> JobType]]
      /\ \A v \in Workers, u \in Services : job[v][u] \in JobType
  BY DEF StateOK
<1>1. ~UNCHANGED job
  OBVIOUS
<1>2. ASSUME NEW v \in Workers, DecideTick(v) \/ DecideClient(v) PROVE FALSE
  <2>1. PICK probes, free :
          job' = [job EXCEPT ![v] = Spawned(PlanFrom(v, Observation(v, probes, free)).actions)]
    BY <1>2 DEF DecideTick, DecideClient
  <2> DEFINE jobs == Spawned(PlanFrom(v, Observation(v, probes, free)).actions)
  <2>2. jobs[s].pc # "acting"
    BY SpawnedJobs
  <2>3. job'[w] = IF w = v THEN jobs ELSE job[w]
    BY <1>0, <2>1
  <2> HIDE DEF jobs
  <2> QED
    BY <2>2, <2>3
<1>3. ASSUME NEW v \in Workers, Answer(v) PROVE FALSE
  BY <1>0, <1>3 DEF Answer, NoJob
<1>4. ASSUME NEW v \in Workers, NEW u \in Services, Skip(v, u) \/ ReleaseSlot(v, u) PROVE FALSE
  <2>1. job' = [job EXCEPT ![v][u] = Ended(v, u)] /\ Ended(v, u).pc # "acting"
    BY <1>4, EndedTypes DEF Skip, ReleaseSlot
  <2> QED
    BY <1>0, <2>1
<1>5. ASSUME NEW v \in Workers, NEW u \in Services, ExecuteOne(v, u) PROVE FALSE
  <2>1. PICK figure : job' = [job EXCEPT ![v][u].pc = "recorded", ![v][u].after = figure]
    BY <1>5 DEF ExecuteOne
  <2> DEFINE one == [job[v][u] EXCEPT !.pc = "recorded", !.after = figure]
  <2>2. job' = [job EXCEPT ![v][u] = one] /\ one.pc = "recorded"
    BY <1>0, <2>1 DEF JobType
  <2> HIDE DEF one
  <2> QED
    BY <1>0, <2>2
<1>6. ASSUME NEW v \in Workers, NEW u \in Services, Acquire(v, u), v # w \/ u # s PROVE FALSE
  <2> DEFINE one == [job[v][u] EXCEPT !.pc = "acting"]
  <2>1. job' = [job EXCEPT ![v][u] = one]
    BY <1>6 DEF Acquire
  <2> HIDE DEF one
  <2>2. job'[w][s] = job[w][s]
    BY <1>0, <1>6, <2>1
  <2> QED
    BY <2>2
<1>7. \/ UNCHANGED job
      \/ \E v \in Workers : DecideTick(v) \/ DecideClient(v) \/ Answer(v)
      \/ \E v \in Workers, u \in Services : Execute(v, u)
  BY DEF Next, ClockTick, StartTick, Poll, Arrive, Handle, Observe, ApplyInflight, ApplyCooldowns,
         RecordClaim, ReceiveOther, ReleaseClaim, AnswerPlan, AnswerDryRun, HangUp, Workers, vars
<1> QED
  BY <1>1, <1>2, <1>3, <1>4, <1>5, <1>6, <1>7 DEF Execute

(***************************************************************************)
(* What a round knows changes only by its own steps; its list of services  *)
(* acquired since it looked is only added to by others.                    *)
(***************************************************************************)
LEMMA RoundsKeepTheirSight ==
  ASSUME StateOK, [Next]_vars, NEW r \in Rounds
  PROVE  \/ StartTick(r) \/ ApplyInflight(r) \/ ApplyCooldowns(r) \/ DecideTick(r)
         \/ pc'[r] = pc[r] /\ seen'[r] = seen[r] /\ sinceMark[r] \subseteq sinceMark'[r]
<1> USE DEF shared, local, history
<1>0. /\ DOMAIN pc = Workers /\ DOMAIN seen = Workers /\ DOMAIN sinceMark = Workers
      /\ r \in Workers /\ r \notin Clients
  BY DaemonAssumption DEF StateOK, Workers
<1> DEFINE Kept == pc'[r] = pc[r] /\ seen'[r] = seen[r] /\ sinceMark[r] \subseteq sinceMark'[r]
<1>1. CASE ClockTick \/ UNCHANGED vars
  BY <1>1 DEF ClockTick, vars
<1>2. ASSUME NEW q \in Rounds, q # r, StartTick(q) \/ DecideTick(q) PROVE Kept
  BY <1>0, <1>2 DEF StartTick, Observe, DecideTick, Goto, Forget
<1>3. ASSUME NEW w \in Workers, w # r, ApplyInflight(w) \/ ApplyCooldowns(w) PROVE Kept
  BY <1>0, <1>3 DEF ApplyInflight, ApplyCooldowns, Goto
<1>4. ASSUME NEW c \in Clients, NEW q \in Requests,
             RecordClaim(c, q) \/ ReceiveOther(c, q) \/ ReleaseClaim(c, q)
      PROVE  Kept
  BY <1>0, <1>4 DEF RecordClaim, ReceiveOther, ReleaseClaim, Goto
<1>5. ASSUME NEW c \in Clients,
             \/ Observe(c, "received") \/ AnswerPlan(c) \/ AnswerDryRun(c)
             \/ DecideClient(c) \/ Answer(c) \/ HangUp(c)
      PROVE  Kept
  BY <1>0, <1>5 DEF Observe, AnswerPlan, AnswerDryRun, DecideClient, Answer, HangUp, Goto, Forget
<1>6. ASSUME NEW w \in Workers, NEW s \in Services, Execute(w, s) PROVE Kept
  BY <1>0, <1>6 DEF Execute, Acquire, Skip, ExecuteOne, ReleaseSlot
<1> QED
  BY <1>1, <1>2, <1>3, <1>4, <1>5, <1>6 DEF Next, Poll, Arrive, Handle, Workers

LEMMA NextSight == SightInv /\ [Next]_vars => SightInv'
<1> SUFFICES ASSUME SightInv, [Next]_vars, NEW r \in Rounds, NEW s \in Services
             PROVE  SightHolds(r, s)'
  BY NextSlots DEF SightInv
<1> USE DEF shared, local, history
<1>0. /\ SlotInv /\ StateOK /\ SightHolds(r, s)
      /\ DOMAIN pc = Workers /\ DOMAIN sinceMark = Workers
      /\ r \in Workers /\ r \notin Clients
      /\ now \in Nat /\ cooldowns[s] \in Int
  BY DaemonAssumption DEF SightInv, SlotInv, StateOK, Time, Workers
<1>1. CASE StartTick(r) \/ DecideTick(r)
  <2>1. pc'[r] \in {"observed", "idle"}
    BY <1>0, <1>1 DEF StartTick, Observe, DecideTick, Goto
  <2> QED
    BY <2>1 DEF SightHolds
<1>2. CASE ApplyInflight(r)
  <2>1. pc'[r] = "marked" /\ job' = job
    BY <1>0, <1>2 DEF ApplyInflight, Goto
  <2>2. seen'[r].inflight = inflight
    <3>1. seen[r] \in SightType
      BY <1>0 DEF StateOK
    <3>2. seen'[r] = [seen[r] EXCEPT !.inflight = inflight, !.since = now]
      BY <1>0, <1>2 DEF ApplyInflight, StateOK
    <3> QED
      BY <3>1, <3>2 DEF SightType
  <2>3. s \notin inflight => \A w \in Workers : job[w][s].pc # "acting"
    BY <1>0 DEF SlotInv, OneActionPerService, Acting
  <2> QED
    BY <2>1, <2>2, <2>3 DEF SightHolds
<1>3. CASE ApplyCooldowns(r)
  <2>1. PICK t \in seen[r].since..now :
          /\ cooldowns' = [u \in Services |-> IF Cooling(cooldowns[u], t) THEN cooldowns[u] ELSE 0]
          /\ seen' = [seen EXCEPT ![r].cooling = {u \in Services : Cooling(cooldowns[u], t)}]
    BY <1>3 DEF ApplyCooldowns
  <2>2. pc[r] = "marked" /\ job' = job /\ now' = now /\ sinceMark' = sinceMark
    BY <1>3 DEF ApplyCooldowns, Goto
  <2>3. /\ seen'[r].inflight = seen[r].inflight
        /\ seen'[r].cooling = {u \in Services : Cooling(cooldowns[u], t)}
    <3>1. seen[r] \in SightType
      BY <1>0 DEF StateOK
    <3> DEFINE cooling == {u \in Services : Cooling(cooldowns[u], t)}
    <3>2. seen'[r] = [seen[r] EXCEPT !.cooling = cooling]
      BY <1>0, <2>1 DEF StateOK
    <3> HIDE DEF cooling
    <3>3. seen'[r].inflight = seen[r].inflight /\ seen'[r].cooling = cooling
      BY <3>1, <3>2 DEF SightType
    <3> QED
      BY <3>3 DEF cooling
  <2>4. s \notin seen'[r].cooling => ~Cooling(cooldowns'[s], now')
    BY <1>0, <2>1, <2>2, <2>3 DEF Cooling
  <2> QED
    BY <1>0, <2>2, <2>3, <2>4 DEF SightHolds
<1>4. CASE pc'[r] = pc[r] /\ seen'[r] = seen[r] /\ sinceMark[r] \subseteq sinceMark'[r]
  <2>1. ASSUME pc[r] \in {"marked", "cooled"}, NEW w \in Workers,
               job'[w][s].pc = "acting", job[w][s].pc # "acting"
        PROVE  s \in sinceMark'[r]
    <3>1. Acquire(w, s)
      BY <1>0, <2>1, ActingComesFromAcquire
    <3>2. w # r
      <4>1. job[r][s].pc = "none"
        BY <1>0, <2>1 DEF SlotInv, QuietUntilDecided, Undecided
      <4> QED
        BY <3>1, <4>1 DEF Acquire
    <3> QED
      BY <1>0, <3>1, <3>2 DEF Acquire
  <2>2. ASSUME Cooling(cooldowns'[s], now')
        PROVE  Cooling(cooldowns[s], now) \/ \E w \in Workers : job[w][s].pc = "acting"
    BY <1>0, <2>2, CooldownsComeFromActions DEF ExecuteOne
  <2> QED
    BY <1>0, <1>4, <2>1, <2>2, StepsOfOthers
<1> QED
  BY <1>0, <1>1, <1>2, <1>3, <1>4, RoundsKeepTheirSight

LEMMA InitSight == Init => SightInv
<1> SUFFICES ASSUME Init, NEW r \in Rounds, NEW s \in Services PROVE SightHolds(r, s)
  BY InitSlots DEF SightInv
<1> QED
  BY DEF Init, SightHolds, Workers

(***************************************************************************)
(* A round of the loop is nobody's request: it decides, it does not evict. *)
(***************************************************************************)
TicksAskNothing == \A r \in Rounds : req[r] = NoReq

LEMMA NextAsks == StateOK /\ TicksAskNothing /\ [Next]_vars => TicksAskNothing'
<1> SUFFICES ASSUME StateOK, TicksAskNothing, [Next]_vars, NEW r \in Rounds PROVE req'[r] = NoReq
  BY DEF TicksAskNothing
<1> USE DEF shared, local, history
<1>0. DOMAIN req = Workers /\ r \in Workers /\ r \notin Clients /\ req[r] = NoReq
  BY DaemonAssumption DEF StateOK, Workers, TicksAskNothing
<1>1. CASE UNCHANGED req
  BY <1>0, <1>1
<1>2. ASSUME NEW q \in Rounds, DecideTick(q) PROVE req'[r] = NoReq
  BY <1>0, <1>2 DEF DecideTick, Forget
<1>3. ASSUME NEW c \in Clients, AnswerPlan(c) \/ AnswerDryRun(c) \/ HangUp(c) PROVE req'[r] = NoReq
  BY <1>0, <1>3 DEF AnswerPlan, AnswerDryRun, HangUp, Forget
<1>4. ASSUME NEW c \in Clients, NEW q \in Requests, RecordClaim(c, q) \/ ReceiveOther(c, q)
      PROVE  req'[r] = NoReq
  BY <1>0, <1>4 DEF RecordClaim, ReceiveOther
<1>5. \/ UNCHANGED req
      \/ \E q \in Rounds : DecideTick(q)
      \/ \E c \in Clients : AnswerPlan(c) \/ AnswerDryRun(c) \/ HangUp(c)
      \/ \E c \in Clients, q \in Requests : RecordClaim(c, q) \/ ReceiveOther(c, q)
  BY DEF Next, ClockTick, StartTick, Poll, Arrive, Handle, Execute, Observe, ApplyInflight,
         ApplyCooldowns, ReleaseClaim, DecideClient, Answer, Acquire, Skip, ExecuteOne,
         ReleaseSlot, vars
<1> QED
  BY <1>1, <1>2, <1>3, <1>4, <1>5

(***************************************************************************)
(* An action the loop starts is on a service it saw neither in flight nor  *)
(* cooling.                                                                *)
(***************************************************************************)
LEMMA TicksActOnTheirSight ==
  ASSUME StateOK, TicksAskNothing, NEW r \in Rounds, NEW s \in Services,
         DecideTick(r), job'[r][s].pc = "go"
  PROVE  pc[r] = "cooled" /\ s \notin seen[r].inflight \cup seen[r].cooling
<1>1. pc[r] = "cooled"
  BY DEF DecideTick, Goto
<1>2. PICK probes, free :
        job' = [job EXCEPT ![r] = Spawned(PlanFrom(r, Observation(r, probes, free)).actions)]
  BY DEF DecideTick
<1> DEFINE obs == Observation(r, probes, free)
           actions == PlanFrom(r, obs).actions
<1>3. job'[r] = Spawned(actions)
  BY <1>2 DEF StateOK, Workers
<1>4. PICK a \in actions : a.service = s
  BY <1>3 DEF Spawned, NoJob
<1>5. s \notin seen[r].inflight \cup seen[r].cooling
  <2>1. a \in Decide(SchedulerConfig, obs).actions
    BY <1>4 DEF PlanFrom, TicksAskNothing, NoReq
  <2>2. PICK u \in Candidates(obs, Decide(SchedulerConfig, obs).beneficiary) : a = ActionOn(obs, u)
    BY <2>1, DecideActsOnCandidates
  <2>3. u = s
    BY <1>4, <2>2 DEF ActionOn
  <2>4. ~obs.services[s].cooling /\ ~obs.services[s].inflight
    BY <2>2, <2>3 DEF Candidates, IsCandidate
  <2>5. obs.services = [v \in Services |-> ServiceState(r, v, probes[v])]
    BY DEF Observation
  <2>6. obs.services[s] = ServiceState(r, s, probes[s])
    BY <2>5
  <2>7. /\ ServiceState(r, s, probes[s]).cooling = (s \in seen[r].cooling)
        /\ ServiceState(r, s, probes[s]).inflight = (s \in seen[r].inflight)
    BY DEF ServiceState
  <2>8. s \notin seen[r].cooling /\ s \notin seen[r].inflight
    BY <2>4, <2>6, <2>7
  <2> QED
    BY <2>8
<1> QED
  BY <1>1, <1>5

(***************************************************************************)
(* The loop never starts an action on a service that is cooling, unless    *)
(* another action on it began after the loop looked at what is in flight.  *)
(* It is the order of the two readings that makes it so: what is in flight *)
(* first, the cooldowns second.                                            *)
(***************************************************************************)
THEOREM TicksHonourCooldowns == Spec => LoopHonoursCooldowns
<1> DEFINE Inv == SightInv /\ TicksAskNothing
           Honours == \A r \in Rounds, s \in Services :
                        /\ DecideTick(r)
                        /\ job'[r][s].pc = "go"
                        /\ Cooling(cooldowns[s], now)
                        => s \in sinceMark[r]
<1>1. Init => Inv
  <2>1. Init => TicksAskNothing
    BY DEF Init, TicksAskNothing, Workers
  <2> QED
    BY <2>1, InitSight
<1>2. Inv /\ [Next]_vars => Inv'
  BY NextSight, NextAsks DEF SightInv, SlotInv
<1>3. Inv => Honours
  <2> SUFFICES ASSUME Inv, NEW r \in Rounds, NEW s \in Services, DecideTick(r),
                      job'[r][s].pc = "go", Cooling(cooldowns[s], now)
               PROVE  s \in sinceMark[r]
    OBVIOUS
  <2>1. pc[r] = "cooled" /\ s \notin seen[r].inflight \cup seen[r].cooling
    BY TicksActOnTheirSight DEF SightInv, SlotInv
  <2>2. SightHolds(r, s)
    BY DEF SightInv
  <2> QED
    BY <2>1, <2>2 DEF SightHolds
<1>4. Inv /\ [Next]_vars => [Honours]_vars
  BY <1>3
<1>5. Init /\ [][Next]_vars => [][Honours]_vars
  <2> HIDE DEF Inv, Honours
  <2> QED
    BY <1>1, <1>2, <1>4, PTL
<1> QED
  BY <1>5 DEF Spec, LoopHonoursCooldowns

(***************************************************************************)
(* A cooldown that is running is touched by nothing but the end of an      *)
(* action: the sweep compares with a reading of the clock that is never    *)
(* ahead of it.                                                            *)
(***************************************************************************)
LEMMA OnlyActionsEndCooldowns ==
  ASSUME StateOK, [Next]_vars, NEW s \in Services,
         Cooling(cooldowns[s], now), cooldowns'[s] # cooldowns[s]
  PROVE  \E w \in Workers : job[w][s].pc = "acting" /\ job'[w][s].pc = "recorded"
<1> USE DEF shared, local, history
<1>0. /\ now \in Int /\ cooldowns[s] \in Int /\ DOMAIN cooldowns = Services
      /\ \A w \in Workers : seen[w].since \in Int
  BY DaemonAssumption DEF StateOK, Time, SightType
<1>1. ~UNCHANGED cooldowns
  OBVIOUS
<1>2. ASSUME NEW w \in Workers, ApplyCooldowns(w) PROVE FALSE
  BY <1>0, <1>2 DEF ApplyCooldowns, Cooling
<1>3. ASSUME NEW w \in Workers, NEW u \in Services, u # s, ExecuteOne(w, u) PROVE FALSE
  BY <1>0, <1>3 DEF ExecuteOne, CooldownsAfter
<1>4. ASSUME NEW w \in Workers, ExecuteOne(w, s)
      PROVE  job[w][s].pc = "acting" /\ job'[w][s].pc = "recorded"
  <2>1. PICK figure : job' = [job EXCEPT ![w][s].pc = "recorded", ![w][s].after = figure]
    BY <1>4 DEF ExecuteOne
  <2> DEFINE one == [job[w][s] EXCEPT !.pc = "recorded", !.after = figure]
  <2>2. job' = [job EXCEPT ![w][s] = one]
    BY <2>1
  <2>3. job[w][s] \in JobType
    BY DEF StateOK
  <2>4. one.pc = "recorded"
    BY <2>3 DEF JobType
  <2> HIDE DEF one
  <2>5. job'[w][s] = one
    BY <2>2 DEF StateOK
  <2> QED
    BY <1>4, <2>4, <2>5 DEF ExecuteOne
<1>5. \/ UNCHANGED cooldowns
      \/ \E w \in Workers : ApplyCooldowns(w)
      \/ \E w \in Workers, u \in Services : ExecuteOne(w, u)
  BY DEF Next, ClockTick, StartTick, Poll, Arrive, Handle, Execute, Observe, ApplyInflight,
         DecideTick, RecordClaim, ReceiveOther, ReleaseClaim, AnswerPlan, AnswerDryRun,
         DecideClient, Answer, HangUp, Acquire, Skip, ReleaseSlot, Workers, vars
<1> QED
  BY <1>1, <1>2, <1>3, <1>4, <1>5

(***************************************************************************)
(* A cooldown runs its time unless an action on its service ends first.    *)
(***************************************************************************)
THEOREM CooldownsLast == Spec => CooldownsRunTheirTime
<1> DEFINE Lasts == \A s \in Services :
                      Cooling(cooldowns[s], now) /\ cooldowns'[s] # cooldowns[s] =>
                        \E w \in Workers : job[w][s].pc = "acting" /\ job'[w][s].pc = "recorded"
<1>1. StateOK /\ [Next]_vars => [Lasts]_vars
  BY OnlyActionsEndCooldowns
<1>2. Init /\ [][Next]_vars => [][Lasts]_vars
  <2> HIDE DEF Lasts
  <2> QED
    BY <1>1, InitTypes, NextTypes, PTL
<1> QED
  BY <1>2 DEF Spec, CooldownsRunTheirTime
-----------------------------------------------------------------------------
(* The ledger.  Every step of the loop, of a handler or of a goroutine is  *)
(* one entry of it, made by who may make it, or leaves it alone.  That no  *)
(* entry is missing or doubled rests on SlotInv: inflight is exactly who   *)
(* is acting, and a worker replaces its goroutines only when none of them  *)
(* is.                                                                     *)


Busy == {"acting", "recorded"}

(***************************************************************************)
(* A step that neither touches what is shared nor moves a goroutine into   *)
(* or out of its critical section leaves the ledger alone.                 *)
(***************************************************************************)
LEMMA LeavesTheLedgerAlone ==
  ASSUME UNCHANGED <<dryRun, now, claims, cooldowns, inflight>>,
         \A w \in Workers, s \in Services :
           job'[w][s].pc = job[w][s].pc \/ {job[w][s].pc, job'[w][s].pc} \cap Busy = {}
  PROVE  UNCHANGED Promise!ledger
<1>1. WhoIs("acting")' = WhoIs("acting")
  BY DEF WhoIs, Busy
<1>2. WhoIs("recorded")' = WhoIs("recorded")
  BY DEF WhoIs, Busy
<1> QED
  BY <1>1, <1>2 DEF Promise!ledger

(***************************************************************************)
(* When one goroutine moves, only the services' entries for that goroutine *)
(* move with it.                                                           *)
(***************************************************************************)
LEMMA OneEntryMoves ==
  ASSUME StateOK, NEW w \in Workers, NEW s \in Services, NEW one,
         job' = [job EXCEPT ![w][s] = one],
         NEW where \in Busy
  PROVE  /\ one.pc = where => WhoIs(where)' = [WhoIs(where) EXCEPT ![s] = WhoIs(where)[s] \cup {w}]
         /\ one.pc # where => WhoIs(where)' = [WhoIs(where) EXCEPT ![s] = WhoIs(where)[s] \ {w}]
<1>1. \A v \in Workers, u \in Services : job'[v][u] = IF v = w /\ u = s THEN one ELSE job[v][u]
  BY DEF StateOK
<1> DEFINE was(u) == {v \in Workers : job[v][u].pc = where}
           is(u) == {v \in Workers : job'[v][u].pc = where}
<1>2. WhoIs(where) = [u \in Services |-> was(u)] /\ WhoIs(where)' = [u \in Services |-> is(u)]
  BY DEF WhoIs
<1>3. \A u \in Services : u # s => is(u) = was(u)
  BY <1>1
<1>4. is(s) = IF one.pc = where THEN was(s) \cup {w} ELSE was(s) \ {w}
  <2>1. \A v \in Workers : job'[v][s] = IF v = w THEN one ELSE job[v][s]
    BY <1>1
  <2>2. CASE one.pc = where
    BY <2>1, <2>2
  <2>3. CASE one.pc # where
    BY <2>1, <2>3
  <2> QED
    BY <2>2, <2>3
<1> HIDE DEF was, is
<1> QED
  BY <1>2, <1>3, <1>4

(***************************************************************************)
(* Whoever acts on a service is alone with it.                             *)
(***************************************************************************)
LEMMA ActingAlone ==
  ASSUME SlotInv, NEW w \in Workers, NEW s \in Services, NEW where \in Busy,
         NEW other \in Busy \ {where}, job[w][s].pc = where
  PROVE  WhoIs(where)[s] = {w} /\ WhoIs(other)[s] = {}
<1>1. \A v \in Workers : job[v][s].pc \in Busy => v = w
  BY DEF SlotInv, OneActionPerService, Acting, Busy
<1> QED
  BY <1>1 DEF WhoIs

(***************************************************************************)
(* A service whose slot is free has nobody acting on it.                   *)
(***************************************************************************)
LEMMA NobodyActing ==
  ASSUME SlotInv, NEW s \in Services, s \notin inflight, NEW where \in Busy
  PROVE  WhoIs(where)[s] = {}
<1>1. \A w \in Workers : job[w][s].pc \notin Busy
  BY DEF SlotInv, OneActionPerService, Acting, Busy
<1> QED
  BY <1>1 DEF WhoIs

LEMMA StartsTheLedger == Init => Promise!Init
<1> SUFFICES ASSUME Init PROVE Promise!Init
  OBVIOUS
<1>1. dryRun \in BOOLEAN
  BY DaemonAssumption DEF Init
<1>2. \A w \in Workers, s \in Services : job[w][s].pc = "none"
  BY DEF Init, NoJob
<1>3. \A where \in Busy : WhoIs(where) = [s \in Services |-> {}]
  BY <1>2 DEF WhoIs, Busy
<1>4. WhoIs("acting") = [s \in Services |-> {}] /\ WhoIs("recorded") = [s \in Services |-> {}]
  BY <1>3 DEF Busy
<1> QED
  BY <1>1, <1>4 DEF Init, Promise!Init, Promise!Unclaimed, NoClaim

(***************************************************************************)
(* The sweep forgets what had ended by a reading of the clock taken no     *)
(* later than now, so what it forgets has ended.                           *)
(***************************************************************************)
LEMMA SweepsTheEnded ==
  ASSUME SlotInv, NEW w \in Workers, ApplyCooldowns(w)
  PROVE  \E ended \in SUBSET Services : Promise!Sweep(ended)
<1>1. PICK t \in seen[w].since..now :
        cooldowns' = [s \in Services |-> IF Cooling(cooldowns[s], t) THEN cooldowns[s] ELSE 0]
  BY DEF ApplyCooldowns
<1> DEFINE ended == {s \in Services : ~Cooling(cooldowns[s], t)}
<1>2. now \in Int /\ seen[w].since \in Int /\ \A s \in Services : cooldowns[s] \in Int
  BY DaemonAssumption DEF SlotInv, StateOK, SightType, Time
<1>3. \A s \in ended : cooldowns[s] <= now
  BY <1>1, <1>2 DEF Cooling
<1>4. cooldowns' = [s \in Services |-> IF s \in ended THEN 0 ELSE cooldowns[s]]
  BY <1>1
<1>5. UNCHANGED <<dryRun, now, claims, inflight, WhoIs("acting"), WhoIs("recorded")>>
  BY DEF ApplyCooldowns, WhoIs
<1>6. ended \in SUBSET Services
  OBVIOUS
<1> HIDE DEF ended
<1>7. Promise!Sweep(ended)
  BY <1>3, <1>4, <1>5 DEF Promise!Sweep
<1> QED
  BY <1>6, <1>7

(***************************************************************************)
(* A claim is written down as the ledger writes it, or not at all.         *)
(***************************************************************************)
LEMMA ClaimsAreEntered ==
  ASSUME SlotInv, NEW c \in Clients, NEW q \in Requests,
         RecordClaim(c, q) \/ ReleaseClaim(c, q)
  PROVE  \/ Promise!Claim(q.service, q.need)
         \/ Promise!Drop(q.service)
         \/ UNCHANGED Promise!ledger
<1> USE DEF local, history
<1>1. UNCHANGED <<dryRun, now, cooldowns, inflight, job, WhoIs("acting"), WhoIs("recorded")>>
  BY DEF RecordClaim, ReleaseClaim, WhoIs
<1>2. CASE claims' = claims
  BY <1>1, <1>2 DEF Promise!ledger
<1>3. CASE RecordClaim(c, q) /\ ~(q.dry \/ dryRun)
  BY <1>1, <1>3 DEF RecordClaim, ClaimTimes, Promise!Claim, Promise!Unclaimed, NoClaim
<1>4. CASE ReleaseClaim(c, q) /\ ~(q.dry \/ dryRun)
  BY <1>1, <1>4 DEF ReleaseClaim, Promise!Drop, Promise!Unclaimed, NoClaim
<1> QED
  BY <1>2, <1>3, <1>4 DEF RecordClaim, ReleaseClaim

(***************************************************************************)
(* A goroutine's steps are the ledger's.                                   *)
(***************************************************************************)
LEMMA SlotsAreEntered ==
  ASSUME SlotInv, NEW w \in Workers, NEW s \in Services, Execute(w, s)
  PROVE  \/ Promise!Take(s, w)
         \/ Promise!Record(s, w)
         \/ Promise!Give(s, w)
         \/ UNCHANGED Promise!ledger
<1>0. StateOK /\ s \in DOMAIN WhoIs("acting") /\ s \in DOMAIN WhoIs("recorded")
  BY DEF SlotInv, WhoIs
<1>1. CASE Acquire(w, s)
  <2> DEFINE one == [job[w][s] EXCEPT !.pc = "acting"]
  <2>1. job' = [job EXCEPT ![w][s] = one]
    BY <1>1 DEF Acquire
  <2>2. one.pc = "acting"
    BY <1>0 DEF StateOK, JobType
  <2> HIDE DEF one
  <2>3. WhoIs("acting")[s] = {} /\ WhoIs("recorded")[s] = {}
    BY <1>1, NobodyActing DEF Acquire, Busy
  <2>4. WhoIs("acting")' = [WhoIs("acting") EXCEPT ![s] = WhoIs("acting")[s] \cup {w}]
    BY <1>0, <2>1, <2>2, OneEntryMoves DEF Busy
  <2>5. WhoIs("recorded")' = [WhoIs("recorded") EXCEPT ![s] = WhoIs("recorded")[s] \ {w}]
    BY <1>0, <2>1, <2>2, OneEntryMoves DEF Busy
  <2>6. WhoIs("acting")' = [WhoIs("acting") EXCEPT ![s] = {w}]
    BY <2>3, <2>4
  <2>7. WhoIs("recorded")' = WhoIs("recorded")
    BY <2>3, <2>5 DEF WhoIs
  <2> QED
    BY <1>1, <2>3, <2>6, <2>7 DEF Acquire, Promise!Take
<1>2. CASE Skip(w, s)
  <2>1. job' = [job EXCEPT ![w][s] = Ended(w, s)]
    BY <1>2 DEF Skip
  <2>2. Ended(w, s).pc \in {"none", "done"}
    BY <1>0, EndedTypes
  <2>3. \A v \in Workers, u \in Services : job'[v][u] = IF v = w /\ u = s THEN Ended(w, s) ELSE job[v][u]
    BY <1>0, <2>1 DEF StateOK
  <2>4. UNCHANGED <<dryRun, now, claims, cooldowns, inflight>> /\ job[w][s].pc = "go"
    BY <1>2 DEF Skip, shared
  <2>5. ASSUME NEW v \in Workers, NEW u \in Services
        PROVE  job'[v][u].pc = job[v][u].pc \/ {job[v][u].pc, job'[v][u].pc} \cap Busy = {}
    BY <2>2, <2>3, <2>4 DEF Busy
  <2> QED
    BY <2>4, <2>5, LeavesTheLedgerAlone
<1>3. CASE ExecuteOne(w, s)
  <2>1. PICK failed \in BOOLEAN, before \in Readings, after \in Readings, figure \in Readings :
          /\ job' = [job EXCEPT ![w][s].pc = "recorded", ![w][s].after = figure]
          /\ \/ cooldowns' = cooldowns
             \/ ~dryRun /\ cooldowns' = CooldownsAfter(s, failed, before, after)
    BY <1>3 DEF ExecuteOne, Readings
  <2> DEFINE one == [job[w][s] EXCEPT !.pc = "recorded", !.after = figure]
  <2>2. job' = [job EXCEPT ![w][s] = one]
    BY <2>1
  <2>3. one.pc = "recorded"
    BY <1>0 DEF StateOK, JobType
  <2> HIDE DEF one
  <2>4. WhoIs("acting")[s] = {w} /\ WhoIs("recorded")[s] = {}
    BY <1>3, ActingAlone DEF ExecuteOne, Busy
  <2>5. WhoIs("acting")' = [WhoIs("acting") EXCEPT ![s] = {}]
    <3>1. WhoIs("acting")' = [WhoIs("acting") EXCEPT ![s] = WhoIs("acting")[s] \ {w}]
      BY <1>0, <2>2, <2>3, OneEntryMoves DEF Busy
    <3> QED
      BY <2>4, <3>1
  <2>6. WhoIs("recorded")' = [WhoIs("recorded") EXCEPT ![s] = {w}]
    <3>1. WhoIs("recorded")' = [WhoIs("recorded") EXCEPT ![s] = WhoIs("recorded")[s] \cup {w}]
      BY <1>0, <2>2, <2>3, OneEntryMoves DEF Busy
    <3> QED
      BY <2>4, <3>1
  <2>7. \/ cooldowns' = cooldowns
        \/ ~dryRun /\ cooldowns' = [cooldowns EXCEPT ![s] = 0]
        \/ ~dryRun /\ cooldowns' = [cooldowns EXCEPT ![s] = now + Policy.actionCooldown]
    <3>1. \/ CooldownsAfter(s, failed, before, after) = [cooldowns EXCEPT ![s] = 0]
          \/ CooldownsAfter(s, failed, before, after) = cooldowns
          \/ CooldownsAfter(s, failed, before, after) = [cooldowns EXCEPT ![s] = now + Policy.actionCooldown]
      BY <1>0 DEF CooldownsAfter, StateOK
    <3> QED
      BY <2>1, <3>1
  <2> QED
    BY <1>3, <2>4, <2>5, <2>6, <2>7 DEF ExecuteOne, Promise!Record
<1>4. CASE ReleaseSlot(w, s)
  <2>1. job' = [job EXCEPT ![w][s] = Ended(w, s)]
    BY <1>4 DEF ReleaseSlot
  <2>2. Ended(w, s).pc \notin Busy
    BY <1>0, EndedTypes DEF Busy
  <2>3. WhoIs("recorded")[s] = {w} /\ WhoIs("acting")[s] = {}
    BY <1>4, ActingAlone DEF ReleaseSlot, Busy
  <2>4. WhoIs("recorded")' = [WhoIs("recorded") EXCEPT ![s] = {}]
    <3>1. WhoIs("recorded")' = [WhoIs("recorded") EXCEPT ![s] = WhoIs("recorded")[s] \ {w}]
      BY <1>0, <2>1, <2>2, OneEntryMoves DEF Busy
    <3> QED
      BY <2>3, <3>1
  <2>5. WhoIs("acting")' = WhoIs("acting")
    <3>1. WhoIs("acting")' = [WhoIs("acting") EXCEPT ![s] = WhoIs("acting")[s] \ {w}]
      BY <1>0, <2>1, <2>2, OneEntryMoves DEF Busy
    <3> QED
      BY <2>3, <3>1 DEF WhoIs
  <2> QED
    BY <1>4, <2>3, <2>4, <2>5 DEF ReleaseSlot, Promise!Give
<1> QED
  BY <1>1, <1>2, <1>3, <1>4 DEF Execute

LEMMA StepsTheLedger == SlotInv /\ [Next]_vars => [Promise!Next]_(Promise!ledger)
<1> SUFFICES ASSUME SlotInv, [Next]_vars PROVE Promise!Next \/ UNCHANGED Promise!ledger
  OBVIOUS
<1> USE DEF shared, local, history
<1>0. StateOK /\ Rounds \cap Clients = {}
  BY DaemonAssumption DEF SlotInv
<1>1. CASE ClockTick
  BY <1>1 DEF ClockTick, Promise!Next, Promise!TimePasses, WhoIs
<1>2. ASSUME UNCHANGED <<dryRun, now, claims, cooldowns, inflight, job>>
      PROVE  UNCHANGED Promise!ledger
  BY <1>2, LeavesTheLedgerAlone
<1>3. ASSUME NEW w \in Workers, NEW from, Observe(w, from) \/ ApplyInflight(w)
      PROVE  UNCHANGED Promise!ledger
  BY <1>2, <1>3 DEF Observe, ApplyInflight
<1>4. ASSUME NEW w \in Workers, ApplyCooldowns(w) PROVE Promise!Next
  BY <1>4, SweepsTheEnded DEF Promise!Next
<1>5. ASSUME NEW w \in Workers, NEW jobs,
             UNCHANGED <<dryRun, now, claims, cooldowns, inflight>>,
             job' = [job EXCEPT ![w] = jobs],
             \A s \in Services : job[w][s].pc \notin Busy /\ jobs[s].pc \notin Busy
      PROVE  UNCHANGED Promise!ledger
  <2>1. \A v \in Workers : job'[v] = IF v = w THEN jobs ELSE job[v]
    BY <1>0, <1>5 DEF StateOK
  <2>2. \A v \in Workers, s \in Services :
          job'[v][s].pc = job[v][s].pc \/ {job[v][s].pc, job'[v][s].pc} \cap Busy = {}
    BY <1>5, <2>1
  <2> QED
    BY <1>5, <2>2, LeavesTheLedgerAlone
<1>6. ASSUME NEW w \in Workers, (w \in Rounds /\ DecideTick(w)) \/ (w \in Clients /\ DecideClient(w))
      PROVE  UNCHANGED Promise!ledger
  <2>1. PICK probes, free :
          job' = [job EXCEPT ![w] = Spawned(PlanFrom(w, Observation(w, probes, free)).actions)]
    BY <1>6 DEF DecideTick, DecideClient
  <2> DEFINE jobs == Spawned(PlanFrom(w, Observation(w, probes, free)).actions)
  <2>2. \A s \in Services : jobs[s].pc \notin Busy
    BY SpawnedJobs DEF Busy
  <2>3. Undecided(w)
    BY <1>0, <1>6 DEF DecideTick, DecideClient, Goto, Undecided
  <2>4. \A s \in Services : job[w][s].pc \notin Busy
    BY <2>3 DEF SlotInv, QuietUntilDecided, Busy
  <2>5. UNCHANGED <<dryRun, now, claims, cooldowns, inflight>>
    BY <1>6 DEF DecideTick, DecideClient
  <2> HIDE DEF jobs
  <2> QED
    BY <1>5, <2>1, <2>2, <2>4, <2>5 DEF jobs
<1>7. ASSUME NEW c \in Clients, NEW q \in Requests, RecordClaim(c, q) \/ ReleaseClaim(c, q)
      PROVE  Promise!Next \/ UNCHANGED Promise!ledger
  <2>1. q.service \in Services /\ q.need \in {r.need : r \in Requests}
    BY DaemonAssumption DEF Request
  <2> QED
    BY <1>7, <2>1, ClaimsAreEntered DEF Promise!Next
<1>8. ASSUME NEW c \in Clients, NEW q,
             ReceiveOther(c, q) \/ AnswerPlan(c) \/ AnswerDryRun(c) \/ HangUp(c)
      PROVE  UNCHANGED Promise!ledger
  BY <1>2, <1>8 DEF ReceiveOther, AnswerPlan, AnswerDryRun, HangUp
<1>9. ASSUME NEW c \in Clients, Answer(c) PROVE UNCHANGED Promise!ledger
  <2> DEFINE jobs == [s \in Services |-> NoJob]
  <2>1. job' = [job EXCEPT ![c] = jobs] /\ UNCHANGED <<dryRun, now, claims, cooldowns, inflight>>
    BY <1>9 DEF Answer
  <2>2. \A s \in Services : job[c][s].pc \notin Busy /\ jobs[s].pc \notin Busy
    BY <1>9 DEF Answer, NoJob, Busy
  <2>3. c \in Workers
    BY DEF Workers
  <2> HIDE DEF jobs
  <2> QED
    BY <1>5, <2>1, <2>2, <2>3
<1>10. ASSUME NEW w \in Workers, NEW s \in Services, Execute(w, s)
       PROVE  Promise!Next \/ UNCHANGED Promise!ledger
  BY <1>10, SlotsAreEntered DEF Promise!Next
<1>11. CASE UNCHANGED vars
  BY <1>2, <1>11 DEF vars
<1> QED
  BY <1>1, <1>3, <1>4, <1>6, <1>7, <1>8, <1>9, <1>10, <1>11
     DEF Next, StartTick, Poll, Arrive, Handle, Workers

(***************************************************************************)
(* The daemon implements the ledger, for every set of services, rounds and *)
(* clients and every configuration: see ImplementsLedger in Daemon.        *)
(***************************************************************************)
THEOREM DaemonKeepsTheLedger == Spec => ImplementsLedger
<1>1. Init => Promise!Init
  BY StartsTheLedger
<1>2. SlotInv /\ [Next]_vars => [Promise!Next]_(Promise!ledger)
  BY StepsTheLedger
<1>3. Init => SlotInv
  BY InitSlots
<1>4. SlotInv /\ [Next]_vars => SlotInv'
  BY NextSlots
<1> QED
  BY <1>1, <1>2, <1>3, <1>4, PTL DEF Spec, ImplementsLedger, Promise!Spec
-----------------------------------------------------------------------------
(* What a client is told. *)

(***************************************************************************)
(* What a worker has copied of the claims is a slice: finite, with one     *)
(* claim of a service in one place.  Before it has copied any it carries   *)
(* at most the claim of a dry run.                                         *)
(***************************************************************************)
SightOK(w) ==
  /\ IsFiniteSet(seen[w].claims)
  /\ \A k, l \in seen[w].claims : k.service = l.service /\ k.pos = l.pos => k = l
  /\ pc[w] = "idle" => seen[w].claims = {}
  /\ pc[w] = "received" =>
       /\ w \in Clients
       /\ \A k \in seen[w].claims : k.pos = 1
       /\ seen[w].claims # {} => IsDry(w)

(***************************************************************************)
(* The claim a request recorded is the one its plan is made with, unless   *)
(* another client has changed it in between; if the plan serves that       *)
(* claim, its target is the request's and the card was read.               *)
(***************************************************************************)
ClaimStands(c) ==
  req[c].op = "request" /\ c \notin overruled =>
    /\ pc[c] = "received" /\ ~IsDry(c) =>
         claims[req[c].service] # NoClaim /\ claims[req[c].service].need = req[c].need
    /\ pc[c] \in {"observed", "marked"} /\ ~IsDry(c) =>
         /\ \E k \in seen[c].claims : k.service = req[c].service
         /\ \A k \in seen[c].claims : k.service = req[c].service => k.need = req[c].need
    /\ pc[c] \in {"executing", "answered"} /\ plan[c].beneficiary = req[c].service =>
         plan[c].target = TargetOf(req[c]) /\ plan[c].current # Unknown

WasAsked(c) == pc[c] \in {"executing", "answered"} => req[c].op \in {"request", "evict"}

ToldTheTruth(c) ==
  reply[c].met # "absent" =>
    /\ pc[c] = "answered"
    /\ c \notin overruled /\ plan[c].beneficiary = req[c].service =>
         (reply[c].met = "yes" <=> reply[c].free >= TargetOf(req[c]))

AnswerInv ==
  /\ StateOK
  /\ AnswersOK
  /\ \A w \in Workers : SightOK(w)
  /\ \A c \in Clients : WasAsked(c) /\ ClaimStands(c) /\ ToldTheTruth(c)

(***************************************************************************)
(* An observation of the daemon is one the scheduler is made for.          *)
(***************************************************************************)
LEMMA ObservationsAreOK ==
  ASSUME StateOK, NEW w \in Workers, SightOK(w), NEW probes \in [Services -> Probes], NEW free,
         NEW obs, obs = Observation(w, probes, free)
  PROVE  ServicesOK(obs) /\ ClaimsOK(SchedulerConfig, obs) /\ DOMAIN obs.services = Services
<1>1. obs.services = [s \in Services |-> ServiceState(w, s, probes[s])] /\ obs.claims = seen[w].claims
  BY DEF Observation
<1>2. ASSUME NEW s \in Services
      PROVE  obs.services[s].priority \in Int /\ obs.services[s].held \in Nat
  <2>1. Config[s] \in ServiceConfig /\ probes[s] \in ProbeResult
    BY DaemonAssumption
  <2>2. Config[s].priority \in Int /\ probes[s].held \in Nat
    BY <2>1 DEF ServiceConfig, ProbeResult
  <2>3. /\ obs.services[s].priority = Config[s].priority
        /\ obs.services[s].held = IF probes[s].err THEN 0 ELSE probes[s].held
    BY <1>1 DEF ServiceState
  <2> QED
    BY <2>2, <2>3
<1>3. ServicesOK(obs)
  BY <1>1, <1>2 DEF ServicesOK
<1>4. SchedulerConfig.priority \in [Services -> Int]
  BY DaemonAssumption DEF SchedulerConfig, ServiceConfig
<1>5. \A k \in obs.claims : k.need \in Nat /\ k.at \in Int /\ k.pos \in Int
  BY <1>1 DEF StateOK, SightType, SeenClaim
<1> QED
  BY <1>1, <1>3, <1>4, <1>5 DEF ClaimsOK, SightOK

(***************************************************************************)
(* A plan on demand is for the demand it was made from, or for nobody when *)
(* the card was not read.                                                  *)
(***************************************************************************)
LEMMA DecidePlansForItsDemand ==
  ASSUME NEW cfg, NEW obs
  PROVE  \/ /\ ~obs.device.known
            /\ Decide(cfg, obs).beneficiary = NoService /\ Decide(cfg, obs).target = 0
         \/ /\ obs.device.known
            /\ Decide(cfg, obs).beneficiary = SelectDemand(cfg, obs).beneficiary
            /\ Decide(cfg, obs).target = SelectDemand(cfg, obs).target
  BY DEF Decide, PlanFor, Blind

(***************************************************************************)
(* The last action of a plan is one of its actions.                        *)
(***************************************************************************)
LEMMA LastIsPlanned ==
  ASSUME StateOK, NEW w \in Workers, SightOK(w), NEW probes \in [Services -> Probes], NEW free,
         NEW obs, obs = Observation(w, probes, free), NEW actions, actions = PlanFrom(w, obs).actions
  PROVE  LastOf(obs, actions) \in Services \cup {NoService}
<1> DEFINE names == {a.service : a \in actions}
<1>1. names \subseteq Services
  BY PlansNameServices
<1>2. CASE names = {}
  BY <1>2 DEF LastOf
<1>3. CASE names # {}
  <2>1. ServicesOK(obs) /\ names \in SUBSET DOMAIN obs.services
    BY <1>1, ObservationsAreOK
  <2> HIDE DEF names
  <2>2. \E s \in names : \A t \in names \ {s} : FreedBefore(obs, t, s)
    BY <1>3, <2>1, LastFreedExists
  <2>3. (CHOOSE s \in names : \A t \in names \ {s} : FreedBefore(obs, t, s)) \in names
    BY <2>2
  <2> QED
    BY <1>1, <1>3, <2>3 DEF LastOf, names
<1> QED
  BY <1>2, <1>3

(***************************************************************************)
(* What a client's plan is for, when it sees its own claim as it asked.    *)
(***************************************************************************)
LEMMA PlansForTheAsked ==
  ASSUME StateOK, NEW w \in Workers, SightOK(w), NEW probes \in [Services -> Probes],
         NEW free \in Readings, NEW obs, obs = Observation(w, probes, free),
         NEW p, p = Decide(SchedulerConfig, obs)
  PROVE  /\ p.beneficiary \in Services \cup {NoService} /\ p.target \in Nat
         /\ \A q \in Requests :
              /\ \E k \in seen[w].claims : k.service = q.service
              /\ \A k \in seen[w].claims : k.service = q.service => k.need = q.need
              /\ p.beneficiary = q.service
              => p.target = TargetOf(q) /\ free # Unknown
<1> DEFINE demand == SelectDemand(SchedulerConfig, obs)
<1>1. ServicesOK(obs) /\ ClaimsOK(SchedulerConfig, obs) /\ obs.claims = seen[w].claims
  BY ObservationsAreOK DEF Observation
<1>2. SchedulerConfig.floor = Policy.floor /\ Policy.floor \in Nat
      /\ DOMAIN SchedulerConfig.priority = Services
  BY DaemonAssumption DEF SchedulerConfig
<1>3. DemandOK(demand, obs)
  BY <1>1, <1>2, DemandsAreForTheConfigured
<1>4. \/ ~obs.device.known /\ p.beneficiary = NoService /\ p.target = 0
      \/ obs.device.known /\ p.beneficiary = demand.beneficiary /\ p.target = demand.target
  BY DecidePlansForItsDemand
<1>5. p.beneficiary \in Services \cup {NoService} /\ p.target \in Nat
  BY <1>3, <1>4 DEF DemandOK
<1>6. ASSUME NEW q \in Requests,
             \E k \in seen[w].claims : k.service = q.service,
             \A k \in seen[w].claims : k.service = q.service => k.need = q.need,
             p.beneficiary = q.service
      PROVE  p.target = TargetOf(q) /\ free # Unknown
  <2>1. q.service \in Services /\ q.service # NoService
    BY DaemonAssumption, NamesAssumption DEF Request, NoService
  <2>2. obs.device.known /\ demand.beneficiary = q.service /\ p.target = demand.target
    BY <1>4, <1>6, <2>1
  <2>3. free # Unknown
    BY <2>2 DEF Observation, Device
  <2>4. LiveClaims(SchedulerConfig, obs) # {}
    BY <1>1, <1>2, <1>6, <2>1 DEF LiveClaims
  <2> DEFINE best == BestClaim(SchedulerConfig, obs)
  <2>5. best \in seen[w].claims
    BY <1>1, <2>4, BestClaimIsFirst DEF LiveClaims
  <2>6. demand = ClaimDemand(SchedulerConfig, obs)
    BY <2>4 DEF SelectDemand
  <2> HIDE DEF best
  <2>7. /\ demand.beneficiary = best.service
        /\ demand.target = IF best.need = 0 THEN Policy.floor ELSE best.need
    BY <1>2, <2>6 DEF ClaimDemand, best
  <2>8. best.need = q.need
    BY <1>6, <2>2, <2>5, <2>7
  <2> QED
    BY <2>2, <2>3, <2>7, <2>8 DEF TargetOf
<1> QED
  BY <1>5, <1>6

(***************************************************************************)
(* What a client is about changes only by its own steps.  Its recorded     *)
(* claim stands until it is copied, or the client is overruled.            *)
(***************************************************************************)
LEMMA ClientsKeepTheirRequest ==
  ASSUME StateOK, AnswersOK, [Next]_vars, NEW c \in Clients
  PROVE  \/ \E q \in Requests : RecordClaim(c, q) \/ ReceiveOther(c, q)
         \/ Handle(c)
         \/ /\ pc'[c] = pc[c] /\ req'[c] = req[c] /\ plan'[c] = plan[c] /\ reply'[c] = reply[c]
            /\ seen'[c].claims = seen[c].claims
            /\ c \in overruled => c \in overruled'
            /\ pc[c] = "received" /\ c \notin overruled' =>
                 claims'[req[c].service] = claims[req[c].service]
<1> USE DEF shared, local, history
<1>0. /\ DOMAIN pc = Workers /\ DOMAIN seen = Workers /\ DOMAIN req = Workers
      /\ DOMAIN plan = Workers /\ DOMAIN reply = Workers /\ DOMAIN claims = Services
      /\ c \in Workers /\ c \notin Rounds
  BY DaemonAssumption DEF StateOK, AnswersOK, Workers
<1> DEFINE Same == /\ pc'[c] = pc[c] /\ req'[c] = req[c] /\ plan'[c] = plan[c] /\ reply'[c] = reply[c]
                   /\ seen'[c].claims = seen[c].claims
           Stands == /\ c \in overruled => c \in overruled'
                     /\ pc[c] = "received" /\ c \notin overruled' =>
                          claims'[req[c].service] = claims[req[c].service]
<1>1. ASSUME claims' = claims, overruled' = overruled PROVE Stands
  BY <1>1
<1>2. CASE ClockTick \/ UNCHANGED vars
  BY <1>2 DEF ClockTick, vars
<1>3. ASSUME NEW r \in Rounds, StartTick(r) PROVE Same /\ Stands
  BY <1>0, <1>3 DEF StartTick, Observe, Goto
<1>4. ASSUME NEW w \in Workers, w # c, ApplyInflight(w) \/ ApplyCooldowns(w) PROVE Same /\ Stands
  BY <1>0, <1>4 DEF ApplyInflight, ApplyCooldowns, Goto
<1>5. ASSUME NEW r \in Rounds, DecideTick(r) PROVE Same /\ Stands
  BY <1>0, <1>5 DEF DecideTick, Goto, Forget
<1>6. ASSUME NEW d \in Clients, NEW q \in Requests,
             \/ ReleaseClaim(d, q)
             \/ d # c /\ (RecordClaim(d, q) \/ ReceiveOther(d, q))
      PROVE  Same /\ Stands
  <2>1. Same
    BY <1>0, <1>6 DEF ReleaseClaim, RecordClaim, ReceiveOther, Goto
  <2>2. CASE claims' = claims
    BY <1>6, <2>1, <2>2 DEF ReleaseClaim, RecordClaim, ReceiveOther
  <2>3. CASE claims' # claims
    <3>1. \E one : claims' = [claims EXCEPT ![q.service] = one]
      BY <1>6, <2>3 DEF ReleaseClaim, RecordClaim, ReceiveOther
    <3>2. overruled' = overruled \cup Overruling(d, q)
      BY <1>6, <2>3 DEF ReleaseClaim, RecordClaim, ReceiveOther
    <3>3. ASSUME pc[c] = "received", c \notin overruled' PROVE req[c].service # q.service
      <4>1. d # c
        BY <1>6, <3>3 DEF ReleaseClaim
      <4> QED
        BY <2>3, <3>2, <3>3, <4>1 DEF Overruling
    <3>4. q.service \in Services
      BY DaemonAssumption DEF Request
    <3> QED
      BY <1>0, <3>1, <3>2, <3>3, <3>4, <2>1
  <2> QED
    BY <2>1, <2>2, <2>3
<1>7. ASSUME NEW d \in Clients, d # c,
             \/ Observe(d, "received") \/ DecideClient(d) \/ Answer(d)
             \/ AnswerPlan(d) \/ AnswerDryRun(d) \/ HangUp(d)
      PROVE  Same /\ Stands
  <2>1. claims' = claims /\ (c \in overruled => c \in overruled')
    BY <1>7 DEF Observe, AnswerPlan, AnswerDryRun, DecideClient, Answer, HangUp, Forget
  <2>2. Same
    BY <1>0, <1>7 DEF Observe, AnswerPlan, AnswerDryRun, DecideClient, Answer, HangUp, Goto, Forget
  <2> QED
    BY <2>1, <2>2
<1>8. ASSUME NEW w \in Workers, NEW s \in Services, Execute(w, s) PROVE Same /\ Stands
  BY <1>8 DEF Execute, Acquire, Skip, ExecuteOne, ReleaseSlot
<1> QED
  BY <1>0, <1>2, <1>3, <1>4, <1>5, <1>6, <1>7, <1>8 DEF Next, Poll, Arrive, Handle, Workers

LEMMA DryRunStays == [Next]_vars => dryRun' = dryRun
  BY DEF Next, ClockTick, StartTick, Poll, Arrive, Handle, Execute, Observe, ApplyInflight,
         ApplyCooldowns, DecideTick, RecordClaim, ReceiveOther, ReleaseClaim, AnswerPlan,
         AnswerDryRun, DecideClient, Answer, HangUp, Acquire, Skip, ExecuteOne, ReleaseSlot,
         vars, shared, local, history

(***************************************************************************)
(* The claims are a map: their copy is a slice with one claim of each      *)
(* service, all before one that is appended.                               *)
(***************************************************************************)
LEMMA SnapshotsAreSlices ==
  /\ IsFiniteSet(SnapshotClaims)
  /\ \A k \in SnapshotClaims : k.pos = 0
  /\ \A k, l \in SnapshotClaims : k.service = l.service => k = l
<1> DEFINE claimed == {t \in Services : claims[t] # NoClaim}
           Copy(s) == [service |-> s, need |-> claims[s].need, at |-> claims[s].at, pos |-> 0]
<1>1. SnapshotClaims = {Copy(s) : s \in claimed}
  BY DEF SnapshotClaims
<1>2. IsFiniteSet(claimed)
  BY FS_Subset, NamesAssumption
<1>3. \A s : Copy(s).service = s /\ Copy(s).pos = 0
  OBVIOUS
<1> HIDE DEF claimed, Copy
<1>4. IsFiniteSet({Copy(s) : s \in claimed})
  <2> DEFINE T == {Copy(s) : s \in claimed}
             f == [s \in claimed |-> Copy(s)]
  <2>1. f \in Surjection(claimed, T)
    BY DEF Surjection
  <2> HIDE DEF f, T
  <2>2. IsFiniteSet(T)
    BY <1>2, <2>1, FS_Surjection
  <2> QED
    BY <2>2 DEF T
<1> QED
  BY <1>1, <1>3, <1>4

(***************************************************************************)
(* A worker's copy of the claims stays a slice.                            *)
(***************************************************************************)
LEMMA SightsStaySlices ==
  ASSUME StateOK, AnswersOK, [Next]_vars, NEW w \in Workers, SightOK(w)
  PROVE  SightOK(w)'
<1> USE DEF shared, local, history
<1>0. /\ DOMAIN pc = Workers /\ DOMAIN req = Workers /\ Rounds \cap Clients = {}
      /\ seen \in [Workers -> SightType] /\ seen[w] \in SightType
      /\ Workers = Rounds \cup Clients /\ dryRun' = dryRun
  BY DaemonAssumption, DryRunStays DEF StateOK, Workers
<1>1. ASSUME NEW from \in {"idle", "received"}, Observe(w, from) PROVE SightOK(w)'
  <2>1. pc[w] = from /\ pc'[w] = "observed"
    BY <1>0, <1>1 DEF Observe, Goto
  <2>2. seen'[w].claims = SnapshotClaims \cup seen[w].claims
    <3>1. seen'[w] = [seen[w] EXCEPT !.claims = SnapshotClaims \cup seen[w].claims]
      BY <1>0, <1>1 DEF Observe
    <3> QED
      BY <1>0, <3>1 DEF SightType
  <2>3. \A k \in seen[w].claims : k.pos = 1
    BY <2>1 DEF SightOK
  <2>4. IsFiniteSet(seen'[w].claims)
    <3>1. IsFiniteSet(SnapshotClaims) /\ IsFiniteSet(seen[w].claims)
      BY SnapshotsAreSlices DEF SightOK
    <3>2. IsFiniteSet(SnapshotClaims \cup seen[w].claims)
      BY <3>1, FS_Union
    <3> QED
      BY <2>2, <3>2
  <2>5. \A k, l \in seen'[w].claims : k.service = l.service /\ k.pos = l.pos => k = l
    BY <2>2, <2>3, SnapshotsAreSlices DEF SightOK
  <2> QED
    BY <2>1, <2>4, <2>5 DEF SightOK
<1>2. CASE ApplyInflight(w) \/ ApplyCooldowns(w)
  <2>1. pc'[w] \in {"marked", "cooled"}
    BY <1>0, <1>2 DEF ApplyInflight, ApplyCooldowns, Goto
  <2>2. seen'[w].claims = seen[w].claims
    <3>1. CASE ApplyInflight(w)
      <4>1. seen'[w] = [seen[w] EXCEPT !.inflight = inflight, !.since = now]
        BY <1>0, <3>1 DEF ApplyInflight
      <4> QED
        BY <1>0, <4>1 DEF SightType
    <3>2. CASE ApplyCooldowns(w)
      <4>1. PICK cooling : seen' = [seen EXCEPT ![w].cooling = cooling]
        BY <3>2 DEF ApplyCooldowns
      <4> QED
        BY <1>0, <4>1 DEF SightType
    <3> QED
      BY <1>2, <3>1, <3>2
  <2> QED
    BY <2>1, <2>2 DEF SightOK
<1>3. CASE seen'[w] = NoSight /\ pc'[w] \in {"idle", "executing"}
  <2>1. seen'[w].claims = {}
    BY <1>3 DEF NoSight
  <2> QED
    BY <1>3, <2>1, FS_EmptySet DEF SightOK
<1>4. ASSUME NEW q \in Requests, RecordClaim(w, q) \/ ReceiveOther(w, q), w \in Clients PROVE SightOK(w)'
  <2>1. pc[w] = "idle" /\ pc'[w] = "received" /\ req'[w] = q
    BY <1>0, <1>4 DEF RecordClaim, ReceiveOther, Goto
  <2>2. seen[w].claims = {}
    BY <2>1 DEF SightOK
  <2>3. CASE seen' = seen
    BY <1>4, <2>1, <2>2, <2>3 DEF SightOK
  <2>4. CASE seen' # seen
    <3>1. PICK k : k.pos = 1 /\ seen' = [seen EXCEPT ![w].claims = {k}]
      BY <1>4, <2>4 DEF RecordClaim, ReceiveOther
    <3>2. seen'[w].claims = {k}
      BY <1>0, <3>1 DEF SightType
    <3>3. IsDry(w)'
      BY <1>0, <1>4, <2>1, <2>4 DEF RecordClaim, ReceiveOther, IsDry
    <3> QED
      BY <1>4, <2>1, <3>1, <3>2, <3>3, FS_Singleton DEF SightOK
  <2> QED
    BY <2>3, <2>4
<1>5. CASE pc'[w] = pc[w] /\ seen'[w].claims = seen[w].claims /\ (w \in Clients => req'[w] = req[w])
  BY <1>0, <1>5 DEF SightOK, IsDry
<1>6. CASE w \in Rounds
  <2>1. StartTick(w) => SightOK(w)'
    BY <1>1 DEF StartTick
  <2>2. DecideTick(w) => SightOK(w)'
    BY <1>0, <1>3 DEF DecideTick, Forget, Goto
  <2> QED
    BY <1>0, <1>2, <1>5, <1>6, <2>1, <2>2, RoundsKeepTheirSight
<1>7. CASE w \in Clients
  <2>1. Answer(w) => SightOK(w)'
    BY <1>0 DEF Answer, Goto, SightOK
  <2>2. AnswerPlan(w) \/ AnswerDryRun(w) \/ HangUp(w) \/ DecideClient(w) => SightOK(w)'
    BY <1>0, <1>3 DEF AnswerPlan, AnswerDryRun, HangUp, DecideClient, Forget, Goto
  <2>3. Observe(w, "received") => SightOK(w)'
    BY <1>1
  <2> QED
    BY <1>2, <1>4, <1>5, <1>7, <2>1, <2>2, <2>3, ClientsKeepTheirRequest DEF Handle
<1> QED
  BY <1>0, <1>6, <1>7

(***************************************************************************)
(* Whatever is reported is a reading, or the mark of one that failed.      *)
(***************************************************************************)
LEMMA FiguresAreReadings ==
  ASSUME StateOK, AnswersOK, NEW c \in Clients, NEW freeAfter \in Readings
  PROVE  /\ FigureFor(c, freeAfter) \in Readings
         /\ FigureFor(c, freeAfter) = Unknown => plan[c].current = Unknown
<1>1. plan[c] \in PlanType /\ \A s \in Services : job[c][s] \in JobType
  BY DEF StateOK, AnswersOK, Workers
<1> QED
  BY <1>1 DEF FigureFor, PlanType, JobType

LEMMA NextAnswers ==
  ASSUME StateOK, AnswersOK, [Next]_vars, \A w \in Workers : SightOK(w)
  PROVE  AnswersOK'
<1> USE DEF shared, local, history
<1>0. /\ NoPlan \in PlanType
      /\ NoReply \in [met : {"absent", "yes", "no"}, free : Readings]
      /\ Clients \subseteq Workers
  BY DEF NoPlan, NoReply, PlanType, Readings, Workers
<1>1. CASE UNCHANGED <<plan, reply>>
  BY <1>1 DEF AnswersOK
<1>2. ASSUME NEW w \in Workers, Forget(w) PROVE AnswersOK'
  BY <1>0, <1>2 DEF Forget, AnswersOK
<1>3. ASSUME NEW c \in Clients, DecideClient(c) PROVE AnswersOK'
  <2>1. PICK probes \in [Services -> Probes], free \in Readings :
          LET obs == Observation(c, probes, free)
              p == PlanFrom(c, obs)
          IN plan' = [plan EXCEPT ![c] =
               IF req[c].op = "evict" THEN NoPlan
               ELSE [beneficiary |-> p.beneficiary, target |-> p.target, current |-> free,
                     last |-> LastOf(obs, p.actions)]]
    BY <1>3 DEF DecideClient
  <2>2. CASE req[c].op = "evict"
    BY <1>0, <1>3, <2>1, <2>2 DEF AnswersOK, DecideClient
  <2>3. CASE req[c].op # "evict"
    <3> DEFINE obs == Observation(c, probes, free)
               p == PlanFrom(c, obs)
               one == [beneficiary |-> p.beneficiary, target |-> p.target, current |-> free,
                       last |-> LastOf(obs, p.actions)]
    <3>1. p = Decide(SchedulerConfig, obs)
      BY <2>3 DEF PlanFrom
    <3>2. p.beneficiary \in Services \cup {NoService} /\ p.target \in Nat
      BY <1>0, <3>1, PlansForTheAsked
    <3>3. LastOf(obs, p.actions) \in Services \cup {NoService}
      BY <1>0, LastIsPlanned
    <3>4. plan' = [plan EXCEPT ![c] = one]
      BY <2>1, <2>3
    <3> HIDE DEF obs, p
    <3>5. one \in PlanType
      BY <3>2, <3>3 DEF PlanType
    <3> QED
      BY <1>3, <3>4, <3>5 DEF AnswersOK, DecideClient
  <2> QED
    BY <2>2, <2>3
<1>4. ASSUME NEW c \in Clients, Answer(c) PROVE AnswersOK'
  <2>1. PICK freeAfter \in Readings :
          reply' = [reply EXCEPT ![c] =
            IF req[c].op = "evict" THEN NoReply
            ELSE [met |-> IF TargetMet(c, FigureFor(c, freeAfter)) THEN "yes" ELSE "no",
                  free |-> FigureFor(c, freeAfter)]]
    BY <1>4 DEF Answer
  <2>2. FigureFor(c, freeAfter) \in Readings
    BY FiguresAreReadings
  <2> QED
    BY <1>0, <1>4, <2>1, <2>2 DEF AnswersOK, Answer
<1> QED
  BY <1>0, <1>1, <1>2, <1>3, <1>4
     DEF Next, ClockTick, StartTick, Poll, Arrive, Handle, Execute, Observe, ApplyInflight,
         ApplyCooldowns, DecideTick, RecordClaim, ReceiveOther, ReleaseClaim, AnswerPlan,
         AnswerDryRun, HangUp, Acquire, Skip, ExecuteOne, ReleaseSlot, Workers, vars

(***************************************************************************)
(* A request's claim stands.                                               *)
(***************************************************************************)
LEMMA ClaimsStand ==
  ASSUME StateOK, AnswersOK, [Next]_vars, NEW c \in Clients, SightOK(c), ClaimStands(c)
  PROVE  ClaimStands(c)'
<1> USE DEF shared, local, history
<1>0. /\ DOMAIN pc = Workers /\ DOMAIN req = Workers /\ DOMAIN plan = Workers
      /\ claims \in [Services -> ClaimType]
      /\ seen \in [Workers -> SightType] /\ seen[c] \in SightType
      /\ c \in Workers /\ dryRun' = dryRun
  BY DaemonAssumption, DryRunStays DEF StateOK, AnswersOK, Workers
<1>1. CASE pc'[c] \in {"idle", "cooled"}
  BY <1>1 DEF ClaimStands
<1>2. ASSUME NEW q \in Requests, RecordClaim(c, q) PROVE ClaimStands(c)'
  <2>1. pc'[c] = "received" /\ req'[c] = q /\ q.service \in Services
    BY <1>0, <1>2, DaemonAssumption DEF RecordClaim, Goto, Request
  <2>2. ASSUME ~IsDry(c)' PROVE claims'[q.service] # NoClaim /\ claims'[q.service].need = q.need
    <3>1. ~(q.dry \/ dryRun)
      BY <1>0, <2>1, <2>2 DEF IsDry
    <3>2. PICK at \in ClaimTimes(q.service) : claims'[q.service] = [need |-> q.need, at |-> at]
      BY <1>0, <1>2, <2>1, <3>1 DEF RecordClaim
    <3>3. at # 0
      BY <1>0, <2>1 DEF StateOK, ClaimType, ClaimTimes
    <3> QED
      BY <3>2, <3>3 DEF NoClaim
  <2> QED
    BY <2>1, <2>2 DEF ClaimStands
<1>3. ASSUME NEW q \in Requests, ReceiveOther(c, q) PROVE ClaimStands(c)'
  BY <1>0, <1>3 DEF ReceiveOther, ClaimStands
<1>4. CASE Observe(c, "received")
  <2>1. pc[c] = "received" /\ pc'[c] = "observed" /\ req' = req /\ overruled' = overruled
    BY <1>0, <1>4 DEF Observe, Goto
  <2>2. seen'[c].claims = SnapshotClaims \cup seen[c].claims
    BY <1>0, <1>4 DEF Observe, SightType
  <2>3. ASSUME req[c].op = "request", c \notin overruled, ~IsDry(c)
        PROVE  /\ \E k \in seen'[c].claims : k.service = req[c].service
               /\ \A k \in seen'[c].claims : k.service = req[c].service => k.need = req[c].need
    <3> DEFINE s == req[c].service
    <3>1. claims[s] # NoClaim /\ claims[s].need = req[c].need
      BY <2>1, <2>3 DEF ClaimStands
    <3>2. seen'[c].claims = SnapshotClaims
      BY <2>1, <2>2, <2>3 DEF SightOK
    <3>3. s \in Services
      BY <1>0, <2>3, DaemonAssumption DEF StateOK, NoReq, Request
    <3>4. [service |-> s, need |-> claims[s].need, at |-> claims[s].at, pos |-> 0] \in SnapshotClaims
      BY <3>1, <3>3 DEF SnapshotClaims
    <3>5. \A k \in SnapshotClaims : k.need = claims[k.service].need
      BY DEF SnapshotClaims
    <3> QED
      BY <3>1, <3>2, <3>4, <3>5
  <2> QED
    BY <1>0, <2>1, <2>3 DEF ClaimStands, IsDry
<1>5. CASE ApplyInflight(c)
  <2>1. pc[c] = "observed" /\ pc'[c] = "marked" /\ req' = req /\ overruled' = overruled
    BY <1>0, <1>5 DEF ApplyInflight, Goto
  <2>2. seen'[c].claims = seen[c].claims
    BY <1>0, <1>5 DEF ApplyInflight, SightType
  <2> QED
    BY <1>0, <2>1, <2>2 DEF ClaimStands, IsDry
<1>6. CASE DecideClient(c)
  <2>1. /\ pc[c] = "marked" /\ pc'[c] = "executing" /\ req' = req /\ overruled' = overruled
        /\ ~IsDry(c)
    BY <1>0, <1>6 DEF DecideClient, Goto
  <2>2. ASSUME req[c].op = "request", c \notin overruled, plan'[c].beneficiary = req[c].service
        PROVE  plan'[c].target = TargetOf(req[c]) /\ plan'[c].current # Unknown
    <3>1. PICK probes \in [Services -> Probes], free \in Readings :
            LET obs == Observation(c, probes, free)
                p == PlanFrom(c, obs)
            IN plan' = [plan EXCEPT ![c] =
                 IF req[c].op = "evict" THEN NoPlan
                 ELSE [beneficiary |-> p.beneficiary, target |-> p.target, current |-> free,
                       last |-> LastOf(obs, p.actions)]]
      BY <1>6 DEF DecideClient
    <3> DEFINE obs == Observation(c, probes, free)
               p == Decide(SchedulerConfig, obs)
    <3>2. /\ plan'[c].beneficiary = p.beneficiary /\ plan'[c].target = p.target
          /\ plan'[c].current = free
      BY <1>0, <2>2, <3>1 DEF PlanFrom
    <3>3. req[c] \in Requests
      BY <1>0, <2>2 DEF StateOK, NoReq
    <3>4. /\ \E k \in seen[c].claims : k.service = req[c].service
          /\ \A k \in seen[c].claims : k.service = req[c].service => k.need = req[c].need
      BY <2>1, <2>2 DEF ClaimStands
    <3>5. p.beneficiary = req[c].service => p.target = TargetOf(req[c]) /\ free # Unknown
      BY <1>0, <3>3, <3>4, PlansForTheAsked
    <3> QED
      BY <2>2, <3>2, <3>5
  <2> QED
    BY <2>1, <2>2 DEF ClaimStands, TargetOf
<1>7. CASE Answer(c)
  <2>1. pc[c] = "executing" /\ pc'[c] = "answered" /\ UNCHANGED <<req, overruled, plan>>
    BY <1>0, <1>7 DEF Answer, Goto
  <2> QED
    BY <2>1 DEF ClaimStands, TargetOf
<1>8. CASE /\ pc'[c] = pc[c] /\ req'[c] = req[c] /\ plan'[c] = plan[c]
           /\ seen'[c].claims = seen[c].claims
           /\ c \in overruled => c \in overruled'
           /\ pc[c] = "received" /\ c \notin overruled' =>
                claims'[req[c].service] = claims[req[c].service]
  BY <1>0, <1>8 DEF ClaimStands, IsDry, TargetOf
<1>9. AnswerPlan(c) \/ AnswerDryRun(c) \/ HangUp(c) \/ ApplyCooldowns(c) => pc'[c] \in {"idle", "cooled"}
  BY <1>0 DEF AnswerPlan, AnswerDryRun, HangUp, ApplyCooldowns, Goto
<1> QED
  BY <1>1, <1>2, <1>3, <1>4, <1>5, <1>6, <1>7, <1>8, <1>9, ClientsKeepTheirRequest DEF Handle

(***************************************************************************)
(* Only requests and evictions lead to actions.                            *)
(***************************************************************************)
LEMMA ActionsWereAsked ==
  ASSUME StateOK, AnswersOK, [Next]_vars, NEW c \in Clients, WasAsked(c)
  PROVE  WasAsked(c)'
<1> USE DEF shared, local, history
<1>0. DOMAIN pc = Workers /\ c \in Workers
  BY DEF StateOK, Workers
<1>1. CASE pc'[c] \notin {"executing", "answered"}
  BY <1>1 DEF WasAsked
<1>2. CASE DecideClient(c)
  BY <1>0, <1>2 DEF DecideClient, WasAsked
<1>3. CASE Answer(c)
  BY <1>0, <1>3 DEF Answer, Goto, WasAsked
<1>4. CASE pc'[c] = pc[c] /\ req'[c] = req[c]
  BY <1>4 DEF WasAsked
<1>5. ASSUME NEW q, \/ RecordClaim(c, q) \/ ReceiveOther(c, q) \/ Observe(c, "received")
                    \/ ApplyInflight(c) \/ ApplyCooldowns(c) \/ AnswerPlan(c) \/ AnswerDryRun(c)
                    \/ HangUp(c)
      PROVE  pc'[c] \notin {"executing", "answered"}
  BY <1>0, <1>5 DEF RecordClaim, ReceiveOther, Observe, ApplyInflight, ApplyCooldowns, AnswerPlan,
                    AnswerDryRun, HangUp, Goto
<1> QED
  BY <1>1, <1>2, <1>3, <1>4, <1>5, ClientsKeepTheirRequest DEF Handle

(***************************************************************************)
(* A client that is told the truth stays told it, and whoever is answered  *)
(* is told it.                                                             *)
(***************************************************************************)
LEMMA TruthIsTold ==
  ASSUME StateOK, AnswersOK, [Next]_vars, NEW c \in Clients, WasAsked(c), ClaimStands(c), ToldTheTruth(c)
  PROVE  ToldTheTruth(c)'
<1> USE DEF shared, local, history
<1>0. /\ DOMAIN pc = Workers /\ DOMAIN reply = Workers /\ c \in Workers
      /\ req[c] \in Requests \cup {NoReq}
  BY DEF StateOK, AnswersOK, Workers
<1>1. CASE reply'[c] = NoReply
  BY <1>1 DEF ToldTheTruth, NoReply
<1>2. CASE pc[c] # "answered" /\ reply'[c] = reply[c]
  BY <1>2 DEF ToldTheTruth
<1>3. CASE Answer(c)
  <2>1. /\ pc[c] = "executing" /\ pc'[c] = "answered" /\ UNCHANGED <<req, overruled, plan>>
    BY <1>0, <1>3 DEF Answer, Goto
  <2>2. CASE req[c].op = "evict"
    BY <1>0, <1>1, <1>3, <2>2 DEF Answer
  <2>3. CASE req[c].op # "evict"
    <3>1. PICK freeAfter \in Readings :
            reply'[c] = [met |-> IF TargetMet(c, FigureFor(c, freeAfter)) THEN "yes" ELSE "no",
                         free |-> FigureFor(c, freeAfter)]
      BY <1>0, <1>3, <2>3 DEF Answer
    <3> DEFINE figure == FigureFor(c, freeAfter)
    <3>2. figure \in Readings /\ (figure = Unknown => plan[c].current = Unknown)
      BY FiguresAreReadings
    <3> HIDE DEF figure
    <3>3. ASSUME c \notin overruled, plan[c].beneficiary = req[c].service
          PROVE  reply'[c].met = "yes" <=> reply'[c].free >= TargetOf(req[c])
      <4>1. req[c].op = "request"
        BY <2>1, <2>3 DEF WasAsked
      <4>2. plan[c].target = TargetOf(req[c]) /\ plan[c].current # Unknown
        BY <2>1, <3>3, <4>1 DEF ClaimStands
      <4>3. reply'[c].free = figure /\ (reply'[c].met = "yes" <=> TargetMet(c, figure))
        BY <3>1 DEF figure
      <4> QED
        BY <3>2, <4>2, <4>3 DEF TargetMet
    <3> QED
      BY <2>1, <3>3 DEF ToldTheTruth, TargetOf
  <2> QED
    BY <2>2, <2>3
<1>4. CASE /\ pc'[c] = pc[c] /\ req'[c] = req[c] /\ plan'[c] = plan[c] /\ reply'[c] = reply[c]
           /\ c \in overruled => c \in overruled'
  BY <1>4 DEF ToldTheTruth, TargetOf
<1>5. AnswerPlan(c) \/ AnswerDryRun(c) \/ HangUp(c) => reply'[c] = NoReply
  BY <1>0 DEF AnswerPlan, AnswerDryRun, HangUp, Forget
<1>6. ASSUME NEW q, \/ RecordClaim(c, q) \/ ReceiveOther(c, q) \/ Observe(c, "received")
                    \/ ApplyInflight(c) \/ ApplyCooldowns(c) \/ DecideClient(c)
      PROVE  pc[c] # "answered" /\ reply'[c] = reply[c]
  BY <1>6 DEF RecordClaim, ReceiveOther, Observe, ApplyInflight, ApplyCooldowns, DecideClient, Goto
<1> QED
  BY <1>1, <1>2, <1>3, <1>4, <1>5, <1>6, ClientsKeepTheirRequest DEF Handle

(***************************************************************************)
(* Nobody is told anything before a request arrives.                       *)
(***************************************************************************)
LEMMA InitAnswers == Init => AnswerInv
<1> SUFFICES ASSUME Init PROVE AnswerInv
  OBVIOUS
<1>1. StateOK
  BY InitTypes
<1>2. AnswersOK
  BY DEF Init, AnswersOK, NoPlan, NoReply, PlanType, Readings
<1>3. ASSUME NEW w \in Workers PROVE SightOK(w)
  <2>1. seen[w].claims = {} /\ pc[w] = "idle"
    BY DEF Init, NoSight
  <2> QED
    BY <2>1, FS_EmptySet DEF SightOK
<1>4. ASSUME NEW c \in Clients PROVE WasAsked(c) /\ ClaimStands(c) /\ ToldTheTruth(c)
  BY DEF Init, Workers, NoReply, WasAsked, ClaimStands, ToldTheTruth
<1> QED
  BY <1>1, <1>2, <1>3, <1>4 DEF AnswerInv

LEMMA NextAnswerInv == AnswerInv /\ [Next]_vars => AnswerInv'
<1> SUFFICES ASSUME AnswerInv, [Next]_vars PROVE AnswerInv'
  OBVIOUS
<1>1. StateOK /\ AnswersOK /\ Clients \subseteq Workers
  BY DEF AnswerInv, Workers
<1>2. StateOK'
  BY <1>1, NextTypes
<1>3. AnswersOK'
  BY <1>1, NextAnswers DEF AnswerInv
<1>4. \A w \in Workers : SightOK(w)'
  BY <1>1, SightsStaySlices DEF AnswerInv
<1>5. \A c \in Clients : WasAsked(c)' /\ ClaimStands(c)' /\ ToldTheTruth(c)'
  BY <1>1, ActionsWereAsked, ClaimsStand, TruthIsTold DEF AnswerInv
<1> QED
  BY <1>2, <1>3, <1>4, <1>5 DEF AnswerInv

(***************************************************************************)
(* The whole type invariant: what the daemon keeps, and what its clients   *)
(* are told.  A plan's target is a number and its last action is one of    *)
(* its actions because every copy of the claims is a slice.                *)
(***************************************************************************)
THEOREM StateAndAnswersAreTyped == Spec => []TypeOK
<1>1. AnswerInv => TypeOK
  BY DEF AnswerInv, TypeOK
<1> QED
  BY <1>1, InitAnswers, NextAnswerInv, PTL DEF Spec

(***************************************************************************)
(* target_met is right for the winner: when the plan served the request's  *)
(* own claim, unchanged until the plan's observation copied it, the reply  *)
(* compares the figure it reports with the target that request set.        *)
(***************************************************************************)
THEOREM WinnersAreToldTheTruth == Spec => []TargetMetIsRightForTheWinner
<1>1. AnswerInv => TargetMetIsRightForTheWinner
  BY DEF AnswerInv, ToldTheTruth, TargetMetIsRightForTheWinner
<1> QED
  BY <1>1, InitAnswers, NextAnswerInv, PTL DEF Spec
-----------------------------------------------------------------------------
(* The queue of the claims. *)

(***************************************************************************)
(* s goes before t among such claims: by priority, then by the time of the *)
(* claim, then by name.                                                    *)
(***************************************************************************)
GoesBefore(among, s, t) ==
  \/ Config[s].priority > Config[t].priority
  \/ /\ Config[s].priority = Config[t].priority
     /\ \/ among[s].at < among[t].at
        \/ among[s].at = among[t].at /\ NameRank[s] < NameRank[t]

(***************************************************************************)
(* While anybody claims, the winner is whoever goes before all others.     *)
(***************************************************************************)
WinnerGoesFirst ==
  \A s \in Services :
    claims[s] # NoClaim =>
      /\ Winner \in Services /\ claims[Winner] # NoClaim
      /\ Winner # s => GoesBefore(claims, Winner, s)

LEMMA WinnersGoFirst == StateOK => WinnerGoesFirst
<1> SUFFICES ASSUME StateOK, NEW s \in Services, claims[s] # NoClaim
             PROVE  /\ Winner \in Services /\ claims[Winner] # NoClaim
                    /\ Winner # s => GoesBefore(claims, Winner, s)
  BY DEF WinnerGoesFirst
<1> DEFINE obs == [claims |-> SnapshotClaims]
           Copy(t) == [service |-> t, need |-> claims[t].need, at |-> claims[t].at, pos |-> 0]
           best == BestClaim(SchedulerConfig, obs)
<1>1. /\ SchedulerConfig.priority = [t \in Services |-> Config[t].priority]
      /\ \A t \in Services : Config[t].priority \in Int
  BY DaemonAssumption DEF SchedulerConfig, ServiceConfig
<1>2. SnapshotClaims \subseteq SeenClaim
  BY SnapshotTypes
<1>3. ClaimsOK(SchedulerConfig, obs)
  <2>1. \A k \in SnapshotClaims : k.need \in Nat /\ k.at \in Int /\ k.pos \in Int
    BY <1>2 DEF SeenClaim
  <2> QED
    BY <1>1, <2>1, SnapshotsAreSlices DEF ClaimsOK
<1>4. LiveClaims(SchedulerConfig, obs) = SnapshotClaims
  BY <1>1, <1>2 DEF LiveClaims, SeenClaim
<1>5. Copy(s) \in SnapshotClaims
  BY DEF SnapshotClaims
<1>6. /\ best \in SnapshotClaims
      /\ \A k \in SnapshotClaims \ {best} :
           KeysBefore(ClaimKeys(SchedulerConfig, best), ClaimKeys(SchedulerConfig, k))
  BY <1>3, <1>4, <1>5, BestClaimIsFirst
<1>7. Winner = best.service
  BY DEF Winner
<1> HIDE DEF best, obs
<1>8. PICK w \in Services : best = Copy(w) /\ claims[w] # NoClaim
  BY <1>6 DEF SnapshotClaims
<1>9. Winner = w
  BY <1>7, <1>8
<1>10. ASSUME w # s PROVE GoesBefore(claims, w, s)
  <2>1. KeysBefore(ClaimKeys(SchedulerConfig, Copy(w)), ClaimKeys(SchedulerConfig, Copy(s)))
    BY <1>5, <1>6, <1>8, <1>10
  <2>2. \A t \in Services :
          ClaimKeys(SchedulerConfig, Copy(t)) = <<-Config[t].priority, claims[t].at, NameRank[t], 0>>
    BY <1>1 DEF ClaimKeys
  <2>3. \A t \in Services : /\ Config[t].priority \in Int /\ -Config[t].priority \in Int
                            /\ claims[t].at \in Int /\ NameRank[t] \in Int
    BY <1>1, RanksAreNumbers DEF StateOK, ClaimType, NoClaim
  <2> HIDE DEF Copy
  <2>4. \A t \in Services : ClaimKeys(SchedulerConfig, Copy(t)) \in Int \X Int \X Int \X Int
    BY <2>2, <2>3
  <2>5. \/ -Config[w].priority < -Config[s].priority
        \/ /\ -Config[w].priority = -Config[s].priority
           /\ \/ claims[w].at < claims[s].at
              \/ claims[w].at = claims[s].at /\ NameRank[w] < NameRank[s]
              \/ claims[w].at = claims[s].at /\ NameRank[w] = NameRank[s] /\ 0 < 0
    BY <2>1, <2>2, <2>4, FourKeys
  <2> QED
    BY <2>3, <2>5 DEF GoesBefore
<1> QED
  BY <1>8, <1>9, <1>10

(***************************************************************************)
(* A claim that stands keeps its time, for as long as it does.             *)
(***************************************************************************)
LEMMA ClaimsKeepTheirTime ==
  ASSUME StateOK, [Next]_vars, NEW s \in Services, claims[s] # NoClaim, claims'[s] # NoClaim
  PROVE  claims'[s].at = claims[s].at
<1> USE DEF shared, local, history
<1>1. DOMAIN claims = Services
  BY DEF StateOK
<1>2. ASSUME NEW c \in Clients, NEW q \in Requests, RecordClaim(c, q)
      PROVE  \/ claims' = claims
             \/ \E at \in ClaimTimes(q.service) :
                  claims' = [claims EXCEPT ![q.service] = [need |-> q.need, at |-> at]]
  BY <1>2 DEF RecordClaim
<1>3. ASSUME NEW c \in Clients, NEW q \in Requests, ReleaseClaim(c, q)
      PROVE  claims' = claims \/ claims' = [claims EXCEPT ![q.service] = NoClaim]
  BY <1>3 DEF ReleaseClaim
<1>4. CASE claims' = claims
  BY <1>4
<1>5. CASE claims' # claims
  <2>1. \E c \in Clients, q \in Requests : RecordClaim(c, q) \/ ReleaseClaim(c, q)
    BY <1>5 DEF Next, ClockTick, StartTick, Poll, Arrive, Handle, Execute, Observe, ApplyInflight,
                ApplyCooldowns, DecideTick, ReceiveOther, AnswerPlan, AnswerDryRun, DecideClient,
                Answer, HangUp, Acquire, Skip, ExecuteOne, ReleaseSlot, vars
  <2>2. CASE \E c \in Clients, q \in Requests : ReleaseClaim(c, q)
    BY <1>1, <1>3, <1>5, <2>2
  <2>3. CASE \E c \in Clients, q \in Requests : RecordClaim(c, q)
    <3>1. PICK q \in Requests : \E at \in ClaimTimes(q.service) :
            claims' = [claims EXCEPT ![q.service] = [need |-> q.need, at |-> at]]
      BY <1>2, <1>5, <2>3
    <3>2. CASE s = q.service
      BY <1>1, <3>1, <3>2 DEF ClaimTimes
    <3>3. CASE s # q.service
      BY <1>1, <3>1, <3>3
    <3> QED
      BY <3>2, <3>3
  <2> QED
    BY <2>1, <2>2, <2>3
<1> QED
  BY <1>4, <1>5

(***************************************************************************)
(* Whoever takes the winner's place has a higher priority, or is new and   *)
(* has asked no later than the winner.                                     *)
(***************************************************************************)
LEMMA WinnersKeepTheirPlace ==
  ASSUME StateOK, StateOK', [Next]_vars, NEW s \in Services,
         claims[s] # NoClaim, s = Winner, claims'[s] # NoClaim
  PROVE  \/ Winner' = s
         \/ Config[Winner'].priority > Config[s].priority
         \/ claims[Winner'] = NoClaim /\ claims'[Winner'].at <= claims[s].at
<1> DEFINE w == Winner'
<1>1. WinnerGoesFirst
  BY WinnersGoFirst
<1>2. WinnerGoesFirst'
  BY WinnersGoFirst, PTL
<1>3. w \in Services /\ claims'[w] # NoClaim /\ (w # s => GoesBefore(claims', w, s))
  BY <1>2 DEF WinnerGoesFirst, GoesBefore
<1> HIDE DEF w
<1>4. \A t \in Services : /\ Config[t].priority \in Int /\ NameRank[t] \in Int
                          /\ claims[t].at \in Int /\ claims'[t].at \in Int
  BY DaemonAssumption, RanksAreNumbers DEF StateOK, ClaimType, NoClaim, ServiceConfig
<1>5. claims'[s].at = claims[s].at
  BY ClaimsKeepTheirTime
<1>6. claims[w] # NoClaim => claims'[w].at = claims[w].at
  BY <1>3, ClaimsKeepTheirTime
<1>7. w = s \/ claims[w] = NoClaim \/ GoesBefore(claims, s, w)
  BY <1>1, <1>3 DEF WinnerGoesFirst
<1>8. ASSUME w # s
      PROVE  \/ Config[w].priority > Config[s].priority
             \/ claims[w] = NoClaim /\ claims'[w].at <= claims[s].at
  <2>1. \/ Config[w].priority > Config[s].priority
        \/ /\ Config[w].priority = Config[s].priority
           /\ \/ claims'[w].at < claims'[s].at
              \/ claims'[w].at = claims'[s].at /\ NameRank[w] < NameRank[s]
    BY <1>3, <1>8 DEF GoesBefore
  <2>2. CASE claims[w] = NoClaim
    BY <1>3, <1>4, <1>5, <2>1, <2>2
  <2>3. CASE claims[w] # NoClaim /\ GoesBefore(claims, s, w)
    BY <1>3, <1>4, <1>5, <1>6, <2>1, <2>3 DEF GoesBefore
  <2> QED
    BY <1>7, <1>8, <2>2, <2>3
<1> QED
  BY <1>8 DEF w

(***************************************************************************)
(* Nobody jumps the queue of the claims: the time of a claim is when it    *)
(* was first asked for, whatever is asked again and whenever, and only a   *)
(* claim that is new and asked for no later goes before the winner of its  *)
(* priority.                                                               *)
(***************************************************************************)
THEOREM TheQueueIsKept == Spec => NobodyJumpsTheQueue
<1>1. StateOK /\ StateOK' /\ [Next]_vars =>
        [\A s \in Services :
           (claims[s] # NoClaim /\ s = Winner /\ claims'[s] # NoClaim) =>
             \/ Winner' = s
             \/ Config[Winner'].priority > Config[s].priority
             \/ claims[Winner'] = NoClaim /\ claims'[Winner'].at <= claims[s].at]_vars
  BY WinnersKeepTheirPlace
<1> QED
  BY <1>1, InitTypes, NextTypes, PTL DEF Spec, NobodyJumpsTheQueue
=============================================================================
