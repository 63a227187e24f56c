---------------------------- MODULE PlannerProofs ----------------------------
(***************************************************************************)
(* The properties of one plan, for any services, configuration, claims and *)
(* card.                                                                   *)
(***************************************************************************)
EXTENDS Planner, SchedulerProofs

-----------------------------------------------------------------------------
(* The machine. *)

WorldOK ==
  /\ obs = [device |-> obs.device, claims |-> obs.claims, services |-> obs.services]
  /\ cfg.floor \in Nat
  /\ obs.device.used \in Nat /\ obs.device.total \in Nat
  /\ ClaimsOK(cfg, obs)
  /\ Planned => obs.services \in [Services -> ServiceState]

(***************************************************************************)
(* A plan that was made was made from what is observed.                    *)
(***************************************************************************)
PlanOK ==
  Planned =>
    \/ plan = Decide(cfg, obs)
    \/ \E names \in SUBSET Services : plan = Evict(obs, names)
    \/ \E keep \in Services \cup {Stranger} : plan = EvictAllExcept(obs, keep)

PlannerInv == WorldOK /\ PlanOK

LEMMA InitPlanner == Init => PlannerInv
<1> SUFFICES ASSUME Init PROVE PlannerInv
  OBVIOUS
<1>1. PICK d \in Demands, r \in Rankings, device \in Devices :
        /\ cfg = [floor |-> d.floor, reactive |-> d.reactive, workload |-> d.workload, priority |-> r]
        /\ obs = [device |-> device, claims |-> d.claims, services |-> <<>>]
  BY DEF Init
<1>2. obs.claims = d.claims /\ cfg.priority = r /\ cfg.floor = d.floor /\ obs.device = device
      /\ obs.services = <<>>
  BY <1>1
<1>3. ClaimsOK(cfg, obs)
  BY <1>2, PlannerAssumption DEF ClaimsOK
<1>4. cfg.floor \in Nat /\ obs.device.used \in Nat /\ obs.device.total \in Nat
  BY <1>2, PlannerAssumption
<1> QED
  BY <1>1, <1>2, <1>3, <1>4 DEF PlannerInv, WorldOK, PlanOK, Planned

LEMMA ObserveKeepsTheWorld == WorldOK /\ Observe => WorldOK'
<1> SUFFICES ASSUME WorldOK, Observe PROVE WorldOK'
  OBVIOUS
<1>1. PICK condition \in [Services -> Conditions] :
        obs' = [obs EXCEPT !.services =
                  [s \in Services |-> [condition[s] EXCEPT !.priority = cfg.priority[s]]]]
  BY DEF Observe
<1>2. /\ obs' = [device |-> obs'.device, claims |-> obs'.claims, services |-> obs'.services]
      /\ obs'.device = obs.device /\ obs'.claims = obs.claims
      /\ obs'.services = [s \in Services |-> [condition[s] EXCEPT !.priority = cfg.priority[s]]]
  BY <1>1 DEF WorldOK
<1>3. cfg' = cfg
  BY DEF Observe
<1>4. ASSUME NEW s \in Services
      PROVE  [condition[s] EXCEPT !.priority = cfg.priority[s]] \in ServiceState
  <2>1. condition[s] \in ServiceState
    BY PlannerAssumption
  <2>2. cfg.priority[s] \in Int
    BY DEF WorldOK, ClaimsOK
  <2> QED
    BY <2>1, <2>2 DEF ServiceState
<1>5. obs'.services \in [Services -> ServiceState]
  BY <1>2, <1>4
<1> QED
  BY <1>2, <1>3, <1>5 DEF WorldOK, ClaimsOK

LEMMA NextPlanner == PlannerInv /\ [Next]_vars => PlannerInv'
<1> SUFFICES ASSUME PlannerInv, [Next]_vars PROVE PlannerInv'
  OBVIOUS
<1>1. ASSUME Observe PROVE WorldOK' /\ cfg' = cfg
  BY <1>1, ObserveKeepsTheWorld DEF PlannerInv, Observe
<1>2. CASE PlanDemand
  BY <1>1, <1>2 DEF PlanDemand, PlannerInv, PlanOK
<1>3. CASE PlanEvict
  BY <1>1, <1>3 DEF PlanEvict, PlannerInv, PlanOK
<1>4. CASE PlanEvictAllExcept
  BY <1>1, <1>4 DEF PlanEvictAllExcept, PlannerInv, PlanOK
<1>5. CASE UNCHANGED vars
  BY <1>5 DEF vars, PlannerInv, WorldOK, PlanOK, Planned, ClaimsOK
<1> QED
  BY <1>2, <1>3, <1>4, <1>5 DEF Next

THEOREM PlansAreMadeFromObservations == Spec => []PlannerInv
  BY InitPlanner, NextPlanner, PTL DEF Spec

-----------------------------------------------------------------------------
(* Demand driven plans. *)

LEMMA WorldIsWellFormed ==
  ASSUME WorldOK, Planned
  PROVE  /\ ServicesOK(obs) /\ DOMAIN obs.services = Services
         /\ FreeMiB(obs.device) \in Nat
         /\ DemandOK(SelectDemand(cfg, obs), obs)
<1>1. obs.services \in [Services -> ServiceState]
  BY DEF WorldOK
<1>2. ServicesOK(obs) /\ DOMAIN obs.services = Services
  BY <1>1 DEF ServicesOK, ServiceState
<1>3. FreeMiB(obs.device) \in Nat
  BY DEF WorldOK, FreeMiB
<1> QED
  BY <1>2, <1>3, DemandsAreForTheConfigured DEF WorldOK

(***************************************************************************)
(* A plan of the override says so in its trigger.                          *)
(***************************************************************************)
LEMMA DemandedIsDecided ==
  ASSUME PlannerInv, Demanded
  PROVE  plan = Decide(cfg, obs)
<1>1. ASSUME NEW names PROVE Evict(obs, names).trigger = "evict"
  BY DEF Evict, PlanFor, Blind
<1>2. ASSUME NEW keep PROVE EvictAllExcept(obs, keep).trigger = "evict"
  <2> DEFINE p == Evict(obs, DOMAIN obs.services \ {keep})
  <2>1. p = [trigger |-> p.trigger, beneficiary |-> p.beneficiary, target |-> p.target,
             current |-> p.current, total |-> p.total, actions |-> p.actions, notes |-> p.notes]
    BY DEF Evict, PlanFor, Blind
  <2>2. p.trigger = "evict"
    BY <1>1
  <2> HIDE DEF p
  <2>3. [p EXCEPT !.beneficiary = keep].trigger = "evict"
    BY <2>1, <2>2
  <2>4. \/ EvictAllExcept(obs, keep) = [p EXCEPT !.beneficiary = keep]
        \/ EvictAllExcept(obs, keep) = PlanFor("evict", NoService, 0, obs.device, {}, {Note(keep, "refused")})
        \/ EvictAllExcept(obs, keep) = Blind("evict", {Note(keep, "refused")})
    BY DEF EvictAllExcept, p
  <2>5. PlanFor("evict", NoService, 0, obs.device, {}, {Note(keep, "refused")}).trigger = "evict"
    BY DEF PlanFor
  <2>6. Blind("evict", {Note(keep, "refused")}).trigger = "evict"
    BY DEF Blind
  <2> QED
    BY <2>3, <2>4, <2>5, <2>6
<1> QED
  BY <1>1, <1>2 DEF PlannerInv, PlanOK, Demanded

(***************************************************************************)
(* The four ways Decide ends, and what its plan holds in each.             *)
(***************************************************************************)
Refuses(p) ==
  /\ p.actions = {} /\ p.notes # {}
  /\ p.current \in Nat /\ p.target \in Nat
  /\ p.beneficiary = NoService \/ p.current >= p.target

Acts(p, demand) ==
  LET candidates == Candidates(obs, demand.beneficiary)
      needed == demand.target - FreeMiB(obs.device)
      chosen == Chosen(obs, candidates, needed)
  IN /\ obs.device.known
     /\ p.beneficiary = demand.beneficiary /\ demand.beneficiary \in DOMAIN obs.services
     /\ p.target = demand.target /\ p.current = FreeMiB(obs.device)
     /\ needed > 0
     /\ p.actions = {ActionOn(obs, s) : s \in chosen}
     /\ \E short \in SUBSET {Note(NoService, "best_effort")} :
          /\ p.notes = demand.notes \cup PassedOver(obs, demand.beneficiary, candidates, needed) \cup short
          /\ chosen = {} => short # {}

LEMMA DecideActsOrRefuses ==
  ASSUME WorldOK, Planned
  PROVE  \/ Refuses(Decide(cfg, obs))
         \/ Acts(Decide(cfg, obs), SelectDemand(cfg, obs))
<1> DEFINE demand == SelectDemand(cfg, obs)
           free == FreeMiB(obs.device)
           needed == demand.target - free
           candidates == Candidates(obs, demand.beneficiary)
           chosen == Chosen(obs, candidates, needed)
           short == IF HeldBy(obs, chosen) < needed THEN {Note(NoService, "best_effort")} ELSE {}
           said == demand.notes \cup PassedOver(obs, demand.beneficiary, candidates, needed) \cup short
<1>1. /\ free \in Nat /\ demand.target \in Nat /\ DOMAIN obs.services = Services
      /\ demand.trigger = "none" => demand.beneficiary = NoService
      /\ demand.trigger # "none" => demand.beneficiary \in Services
  BY WorldIsWellFormed DEF DemandOK
<1>2. CASE ~obs.device.known
  BY <1>2 DEF Decide, Blind, Refuses
<1>3. CASE obs.device.known /\ demand.trigger = "none"
  <2>1. LiveClaims(cfg, obs) = {}
    BY <1>3 DEF SelectDemand, ClaimDemand
  <2>2. Note(NoService, "nobody_to_serve") \in demand.notes
    BY <1>3, <2>1 DEF SelectDemand, ReactiveDemand, NoDemand
  <2>3. Decide(cfg, obs) = PlanFor("none", demand.beneficiary, demand.target, obs.device, {}, demand.notes \cup {})
    BY <1>3 DEF Decide
  <2>4. /\ Decide(cfg, obs).actions = {} /\ Decide(cfg, obs).notes = demand.notes
        /\ Decide(cfg, obs).current = free /\ Decide(cfg, obs).target = demand.target
        /\ Decide(cfg, obs).beneficiary = demand.beneficiary
    BY <2>3 DEF PlanFor
  <2> HIDE DEF demand, free
  <2> QED
    BY <1>1, <1>3, <2>2, <2>4 DEF Refuses
<1>4. CASE obs.device.known /\ demand.trigger # "none" /\ needed <= 0
  <2>1. Decide(cfg, obs) = PlanFor(demand.trigger, demand.beneficiary, demand.target, obs.device, {},
                                   demand.notes \cup {Note(NoService, "enough_is_free")})
    BY <1>4 DEF Decide
  <2>2. free >= demand.target
    BY <1>1, <1>4
  <2>3. /\ Decide(cfg, obs).actions = {}
        /\ Decide(cfg, obs).notes = demand.notes \cup {Note(NoService, "enough_is_free")}
        /\ Decide(cfg, obs).current = free /\ Decide(cfg, obs).target = demand.target
    BY <2>1 DEF PlanFor
  <2> HIDE DEF demand, free
  <2> QED
    BY <1>1, <2>2, <2>3 DEF Refuses
<1>5. CASE obs.device.known /\ demand.trigger # "none" /\ ~(needed <= 0)
  <2>1. demand.beneficiary \in DOMAIN obs.services /\ needed > 0
    BY <1>1, <1>5
  <2>2. Decide(cfg, obs) = PlanFor(demand.trigger, demand.beneficiary, demand.target, obs.device,
                                   {ActionOn(obs, s) : s \in chosen},
                                   demand.notes \cup (PassedOver(obs, demand.beneficiary, candidates, needed) \cup short))
    BY <1>5, <2>1 DEF Decide
  <2>3. chosen = {} => short # {}
    <3>1. ASSUME chosen = {} PROVE HeldBy(obs, chosen) = 0
      BY <3>1, SumOfNone DEF HeldBy
    <3> QED
      BY <2>1, <3>1
  <2>4. short \in SUBSET {Note(NoService, "best_effort")}
    OBVIOUS
  <2>5. Decide(cfg, obs).notes = said
    BY <2>2 DEF PlanFor
  <2>6. /\ Decide(cfg, obs).beneficiary = demand.beneficiary
        /\ Decide(cfg, obs).target = demand.target /\ Decide(cfg, obs).current = free
        /\ Decide(cfg, obs).actions = {ActionOn(obs, s) : s \in chosen}
    BY <2>2 DEF PlanFor
  <2> HIDE DEF short
  <2>7. \E x \in SUBSET {Note(NoService, "best_effort")} :
          /\ Decide(cfg, obs).notes =
               demand.notes \cup PassedOver(obs, demand.beneficiary, candidates, needed) \cup x
          /\ chosen = {} => x # {}
    BY <2>3, <2>4, <2>5
  <2> QED
    BY <1>5, <2>1, <2>6, <2>7 DEF Acts
<1> QED
  BY <1>1, <1>2, <1>3, <1>4, <1>5

(***************************************************************************)
(* A service is disrupted only after every service below it that permits   *)
(* an action, and every larger one beside it.                              *)
(***************************************************************************)
THEOREM TheLowestPay == Spec => []LowestPriorityPaysFirst
<1>1. ASSUME PlannerInv PROVE LowestPriorityPaysFirst
  <2> DEFINE demand == SelectDemand(cfg, obs)
             needed == demand.target - FreeMiB(obs.device)
             candidates == Candidates(obs, demand.beneficiary)
  <2> SUFFICES ASSUME Demanded, NEW s \in Named, NEW t \in Services \ Named,
                      \/ obs.services[t].priority < obs.services[s].priority
                      \/ /\ obs.services[t].priority = obs.services[s].priority
                         /\ obs.services[t].held > obs.services[s].held,
                      IsCandidate(obs, t, plan.beneficiary), Permits(obs, t)
               PROVE  FALSE
    BY DEF LowestPriorityPaysFirst, Permits
  <2>1. plan = Decide(cfg, obs) /\ WorldOK /\ Planned
    BY <1>1, DemandedIsDecided DEF PlannerInv, Demanded
  <2>2. ServicesOK(obs) /\ DOMAIN obs.services = Services /\ needed \in Int
    BY <2>1, WorldIsWellFormed DEF DemandOK
  <2>3. Acts(plan, demand)
    BY <2>1, DecideActsOrRefuses DEF Refuses, Named
  <2>4. Named = Chosen(obs, candidates, needed)
    <3>1. \A u : ActionOn(obs, u).service = u
      BY DEF ActionOn
    <3>2. plan.actions = {ActionOn(obs, u) : u \in Chosen(obs, candidates, needed)}
      BY <2>3 DEF Acts
    <3> QED
      BY <3>1, <3>2 DEF Named
  <2>5. t \in candidates /\ s \in candidates
    BY <2>2, <2>3, <2>4, ChosenAreCandidates DEF Acts, Candidates
  <2>6. candidates \in SUBSET DOMAIN obs.services
    BY DEF Candidates
  <2>7. FreedBefore(obs, t, s)
    BY <2>2, <2>5, <2>6, LowerIsFreedBefore
  <2> HIDE DEF candidates, needed
  <2>8. t \in Chosen(obs, candidates, needed)
    BY <2>2, <2>4, <2>5, <2>6, <2>7, ChosenIsClosed
  <2> QED
    BY <2>4, <2>8
<1> QED
  BY <1>1, PlansAreMadeFromObservations, PTL

(***************************************************************************)
(* A plan that acts accounts for every service but the beneficiary once.   *)
(***************************************************************************)
LEMMA EveryServiceIsAccountedFor ==
  ASSUME WorldOK, Planned, NEW p, Acts(p, SelectDemand(cfg, obs)),
         NEW s \in Services \ {p.beneficiary}
  PROVE  Cardinality({a \in p.actions : a.service = s})
           + Cardinality({n \in p.notes : n.service = s /\ n.stage # "workload_not_up"}) = 1
<1> DEFINE demand == SelectDemand(cfg, obs)
           needed == demand.target - FreeMiB(obs.device)
           candidates == Candidates(obs, demand.beneficiary)
           chosen == Chosen(obs, candidates, needed)
           over == PassedOver(obs, demand.beneficiary, candidates, needed)
           actions == {a \in p.actions : a.service = s}
           said == {n \in p.notes : n.service = s /\ n.stage # "workload_not_up"}
           stage == IF s \notin candidates THEN "not_a_candidate"
                    ELSE IF ~StillNeededAt(obs, candidates, needed, s) THEN "target_met_without_it"
                    ELSE "no_action_permitted"
<1>1. s # NoService /\ DOMAIN obs.services = Services
  BY WorldIsWellFormed, NamesAssumption DEF NoService
<1>2. \A n \in demand.notes : n.service = NoService \/ n.stage = "workload_not_up"
  BY WorldIsWellFormed DEF DemandOK
<1>3. \A u, x : Note(u, x).service = u /\ Note(u, x).stage = x /\ ActionOn(obs, u).service = u
  BY DEF Note, ActionOn
<1>4. p.actions = {ActionOn(obs, u) : u \in chosen} /\ p.beneficiary = demand.beneficiary
  BY DEF Acts
<1>5. PICK short \in SUBSET {Note(NoService, "best_effort")} : p.notes = demand.notes \cup over \cup short
  BY DEF Acts
<1>6. actions = IF s \in chosen THEN {ActionOn(obs, s)} ELSE {}
  BY <1>3, <1>4
<1>7. stage # "workload_not_up"
  OBVIOUS
<1>8. {n \in over : n.service = s} = IF s \in chosen THEN {} ELSE {Note(s, stage)}
  <2>1. ASSUME NEW n \in over, n.service = s PROVE s \notin chosen /\ n = Note(s, stage)
    <3>1. PICK u \in DOMAIN obs.services \ ({demand.beneficiary} \cup chosen) :
            n = Note(u, IF u \notin candidates THEN "not_a_candidate"
                        ELSE IF ~StillNeededAt(obs, candidates, needed, u) THEN "target_met_without_it"
                        ELSE "no_action_permitted")
      BY DEF PassedOver
    <3>2. u = s
      BY <1>3, <2>1, <3>1
    <3> QED
      BY <3>1, <3>2
  <2>2. ASSUME s \notin chosen PROVE Note(s, stage) \in over
    <3>1. s \in DOMAIN obs.services \ ({demand.beneficiary} \cup chosen)
      BY <1>1, <1>4, <2>2
    <3> QED
      BY <3>1 DEF PassedOver
  <2> HIDE DEF over, stage
  <2> QED
    BY <1>3, <2>1, <2>2
<1> HIDE DEF demand, needed, candidates, chosen, over, stage
<1>9. said = IF s \in chosen THEN {} ELSE {Note(s, stage)}
  <2>1. \A n \in demand.notes \cup short : n.service = s => n.stage = "workload_not_up"
    BY <1>1, <1>2, <1>3
  <2>2. said = {n \in over : n.service = s /\ n.stage # "workload_not_up"}
    BY <1>5, <2>1
  <2>3. \A n \in over : n.service = s => n = Note(s, stage)
    BY <1>8
  <2>4. said = {n \in over : n.service = s}
    BY <1>3, <1>7, <2>2, <2>3
  <2> QED
    BY <1>8, <2>4
<1>10. Cardinality({}) = 0 /\ \A x : Cardinality({x}) = 1
  BY FS_EmptySet, FS_Singleton
<1> HIDE DEF said, actions
<1>11. Cardinality(actions) + Cardinality(said) = 1
  <2>1. CASE s \in chosen
    <3>1. Cardinality(actions) = 1 /\ Cardinality(said) = 0
      BY <1>6, <1>9, <1>10, <2>1
    <3> QED
      BY <3>1
  <2>2. CASE s \notin chosen
    <3>1. Cardinality(actions) = 0 /\ Cardinality(said) = 1
      BY <1>6, <1>9, <1>10, <2>2
    <3> QED
      BY <3>1
  <2> QED
    BY <2>1, <2>2
<1> QED
  BY <1>11 DEF said, actions

(***************************************************************************)
(* No plan is silent about anybody.                                        *)
(***************************************************************************)
THEOREM NothingIsPassedOverInSilence == Spec => []NothingIsSilent
<1>1. ASSUME PlannerInv, Demanded
      PROVE  /\ plan.actions = {} => plan.notes # {}
             /\ plan.beneficiary # NoService /\ plan.current < plan.target =>
                  \A s \in Services \ {plan.beneficiary} :
                    Cardinality({a \in plan.actions : a.service = s})
                      + Cardinality({n \in plan.notes : n.service = s /\ n.stage # "workload_not_up"}) = 1
  <2>1. plan = Decide(cfg, obs) /\ WorldOK /\ Planned
    BY <1>1, DemandedIsDecided DEF PlannerInv, Demanded
  <2>2. FreeMiB(obs.device) \in Nat /\ SelectDemand(cfg, obs).target \in Nat
    BY <2>1, WorldIsWellFormed DEF DemandOK
  <2>3. CASE Refuses(plan)
    <3>1. plan.beneficiary # NoService => ~(plan.current < plan.target)
      BY <2>3 DEF Refuses
    <3> QED
      BY <2>3, <3>1 DEF Refuses
  <2>4. CASE Acts(plan, SelectDemand(cfg, obs))
    <3>1. plan.actions = {} => plan.notes # {}
      BY <2>4 DEF Acts
    <3> QED
      BY <2>1, <2>4, <3>1, EveryServiceIsAccountedFor
  <2> QED
    BY <2>1, <2>3, <2>4, DecideActsOrRefuses
<1>2. PlannerInv => NothingIsSilent
  BY <1>1 DEF NothingIsSilent
<1> QED
  BY <1>2, PlansAreMadeFromObservations, PTL

(***************************************************************************)
(* No plan for what it disrupts disrupts its beneficiary.                  *)
(***************************************************************************)
THEOREM NobodyEvictsBack == Spec => []NoPingPong
<1>1. ASSUME PlannerInv PROVE NoPingPong
  <2> DEFINE Back(t) == [obs EXCEPT !.claims = {[service |-> t, need |-> 9, at |-> 1, pos |-> 0]}]
  <2> SUFFICES ASSUME Demanded, NEW t \in Named, NEW b \in Decide(cfg, Back(t)).actions
               PROVE  b.service # plan.beneficiary
    BY DEF NoPingPong
  <2> DEFINE claim == [service |-> t, need |-> 9, at |-> 1, pos |-> 0]
             back == Back(t)
  <2>1. plan = Decide(cfg, obs) /\ WorldOK /\ Planned
    BY <1>1, DemandedIsDecided DEF PlannerInv, Demanded
  <2>2. ServicesOK(obs) /\ DOMAIN obs.services = Services
    BY <2>1, WorldIsWellFormed
  <2>3. PICK a \in plan.actions : a.service = t
    BY DEF Named
  <2>4. plan.beneficiary \in DOMAIN obs.services
    BY <2>1, <2>3, DecideActsOrRefuses DEF Acts, Refuses
  <2>5. t \in Services
    BY <2>1, <2>2, <2>3, DecideActsOnCandidates DEF Candidates, ActionOn
  <2>6. back.services = obs.services /\ back.claims = {claim}
    BY <2>1 DEF WorldOK
  <2>7. SelectDemand(cfg, back).beneficiary = t
    <3>1. cfg.priority \in [Services -> Int]
      BY <2>1 DEF WorldOK, ClaimsOK
    <3>2. LiveClaims(cfg, back) = {claim}
      BY <2>5, <2>6, <3>1 DEF LiveClaims
    <3>3. ClaimsOK(cfg, back)
      <4>1. claim.need \in Nat /\ claim.at \in Int /\ claim.pos \in Int
        OBVIOUS
      <4>2. IsFiniteSet({claim})
        BY FS_Singleton
      <4> HIDE DEF claim, back
      <4> QED
        BY <2>6, <3>1, <4>1, <4>2 DEF ClaimsOK
    <3>4. BestClaim(cfg, back) = claim
      BY <3>2, <3>3, BestClaimIsFirst
    <3>5. SelectDemand(cfg, back) = ClaimDemand(cfg, back)
      BY <3>2 DEF SelectDemand
    <3> QED
      BY <3>4, <3>5 DEF ClaimDemand
  <2> HIDE DEF back, claim
  <2>8. Decide(cfg, back).beneficiary = t /\ b \in Decide(cfg, back).actions
    BY <2>7, DecideActsForItsDemand DEF back
  <2>9. \A s \in DOMAIN obs.services :
          obs.services[s].priority \in Int /\ back.services[s].priority = obs.services[s].priority
    BY <2>2, <2>6 DEF ServicesOK
  <2> QED
    BY <2>1, <2>3, <2>4, <2>6, <2>8, <2>9, NoPingPongEver
<1> QED
  BY <1>1, PlansAreMadeFromObservations, PTL

-----------------------------------------------------------------------------
(* The loop. *)

(***************************************************************************)
(* w tells for each set of candidates in D what the loop holds after it.   *)
(***************************************************************************)
WalkOn(w, needed, D) ==
  w = [T \in D |-> IF T = {} THEN [freed |-> 0, names |-> {}]
                   ELSE LoopBody(Hindmost(T), w[T \ {Hindmost(T)}], needed)]

(***************************************************************************)
(* Candidates have a last one.                                             *)
(***************************************************************************)
LEMMA HindmostIsLast ==
  ASSUME ServicesOK(obs), NEW T \in SUBSET DOMAIN obs.services, T # {}
  PROVE  /\ Hindmost(T) \in T
         /\ \A t \in T \ {Hindmost(T)} : FreedBefore(obs, t, Hindmost(T))
  BY LastFreedExists DEF Hindmost

(***************************************************************************)
(* The function that the library's fold is the choice of exists.           *)
(***************************************************************************)
LEMMA WalkExists ==
  ASSUME ServicesOK(obs), NEW C \in SUBSET DOMAIN obs.services, NEW needed
  PROVE  \E w : WalkOn(w, needed, SUBSET C)
<1> DEFINE Level(n) == {T \in SUBSET C : Cardinality(T) <= n}
           Good == {T \in SUBSET C : \E w : WalkOn(w, needed, Level(Cardinality(T)))}
<1>a. IsFiniteSet(C)
  BY FS_Subset, NamesAssumption DEF ServicesOK
<1>0. \A T \in SUBSET C : IsFiniteSet(T) /\ Cardinality(T) \in Nat /\ Cardinality(T) <= Cardinality(C)
  BY <1>a, FS_Subset, FS_CardinalityType
<1>1. {} \in Good
  <2> DEFINE w == [T \in {{}} |-> [freed |-> 0, names |-> {}]]
  <2>1. Level(0) = {{}} /\ Cardinality({}) = 0
    BY <1>0, FS_EmptySet
  <2>2. WalkOn(w, needed, {{}})
    BY DEF WalkOn
  <2> QED
    BY <2>1, <2>2
<1>2. ASSUME NEW T \in SUBSET C, NEW x \in C, T \in Good, x \notin T
      PROVE  T \cup {x} \in Good
  <2> DEFINE n == Cardinality(T)
  <2>1. Cardinality(T \cup {x}) = n + 1 /\ n \in Nat
    BY <1>0, <1>2, FS_AddElement
  <2>2. PICK w : WalkOn(w, needed, Level(n))
    BY <1>2
  <2> DEFINE v == [U \in Level(n + 1) |-> IF U = {} THEN [freed |-> 0, names |-> {}]
                                          ELSE LoopBody(Hindmost(U), w[U \ {Hindmost(U)}], needed)]
  <2>3. ASSUME NEW U \in Level(n + 1), U # {}
        PROVE  w[U \ {Hindmost(U)}] = v[U \ {Hindmost(U)}]
    <3> DEFINE h == Hindmost(U)
    <3>1. h \in U
      BY <2>3, HindmostIsLast
    <3> HIDE DEF h
    <3>2. U \ {h} \in Level(n)
      BY <1>0, <2>1, <3>1, FS_RemoveElement
    <3>3. U \ {h} \in Level(n + 1)
      BY <1>0, <2>1, <3>2
    <3>4. w[U \ {h}] = v[U \ {h}]
      BY <2>2, <3>2, <3>3 DEF WalkOn
    <3> QED
      BY <3>4 DEF h
  <2> HIDE DEF n, Level
  <2>4. WalkOn(v, needed, Level(n + 1))
    BY <2>3 DEF WalkOn
  <2>5. \E k : WalkOn(k, needed, Level(Cardinality(T \cup {x})))
    BY <2>1, <2>4
  <2> QED
    BY <2>5
<1>3. C \in Good
  <2> HIDE DEF Good
  <2>1. \A T \in SUBSET C : T \in Good
    <3>1. \A T \in SUBSET C, x \in C : T \in Good /\ x \notin T => T \cup {x} \in Good
      BY <1>2
    <3> QED
      BY <1>1, <1>a, <3>1, FiniteGrowth
  <2> QED
    BY <2>1
<1>4. Level(Cardinality(C)) = SUBSET C
  BY <1>0
<1> QED
  BY <1>3, <1>4

LEMMA WalkIsSome ==
  ASSUME ServicesOK(obs), NEW C \in SUBSET DOMAIN obs.services, NEW needed
  PROVE  \E w : WalkOn(w, needed, SUBSET C) /\ Walk(C, needed) = w[C]
<1> DEFINE w == CHOOSE w : WalkOn(w, needed, SUBSET C)
<1>1. WalkOn(w, needed, SUBSET C)
  BY WalkExists
<1>2. Walk(C, needed) = w[C]
  BY DEF Walk, MapThenFoldSet, WalkOn
<1> QED
  BY <1>1, <1>2

(***************************************************************************)
(* While what is chosen falls short, everything that permits an action is  *)
(* chosen: the target is what ends the choosing.                           *)
(***************************************************************************)
LEMMA ShortMeansAll ==
  ASSUME ServicesOK(obs), NEW T \in SUBSET DOMAIN obs.services, NEW needed \in Int,
         HeldBy(obs, Chosen(obs, T, needed)) < needed
  PROVE  Chosen(obs, T, needed) = {t \in T : Permits(obs, t)}
<1> DEFINE chosen == Chosen(obs, T, needed)
           left == {t \in T : Permits(obs, t) /\ t \notin chosen}
           keys == [t \in left |-> CandidateKeys(obs, t)]
<1>1. chosen \subseteq {t \in T : Permits(obs, t)}
  BY ChosenAreCandidates
<1> SUFFICES ASSUME left # {} PROVE FALSE
  BY <1>1
<1>2. IsFiniteSet(left) /\ left \subseteq DOMAIN obs.services
  BY FS_Subset, NamesAssumption DEF ServicesOK
<1>3. PICK s \in left : \A t \in left \ {s} : FreedBefore(obs, s, t)
  <2>1. keys \in [left -> Int \X Int \X Int] /\ \A s, t \in left : keys[s] = keys[t] => s = t
    BY <1>2, CandidateKeysAreKeys
  <2>2. \A s, t \in left : KeysBefore(keys[s], keys[t]) <=> FreedBefore(obs, s, t)
    BY DEF FreedBefore
  <2> HIDE DEF left, keys
  <2>3. \E s \in left : \A t \in left \ {s} : KeysBefore(keys[s], keys[t])
    BY <1>2, <2>1, FirstByKeys DEF Keys
  <2> QED
    BY <2>2, <2>3
<1> DEFINE earlier == {t \in T : Permits(obs, t) /\ FreedBefore(obs, t, s)}
<1>4. ASSUME NEW t \in earlier PROVE t \in chosen
  <2>1. t # s /\ ~FreedBefore(obs, s, t)
    BY FreedBeforeOrders
  <2>2. t \notin left
    BY <1>3, <2>1
  <2> QED
    BY <2>2
<1> HIDE DEF earlier
<1>5. HeldBy(obs, earlier) < needed
  <2>1. chosen \in SUBSET DOMAIN obs.services /\ earlier \in SUBSET chosen
    BY <1>1, <1>4
  <2> HIDE DEF chosen
  <2>2. HeldBy(obs, earlier) \in Nat /\ HeldBy(obs, chosen) \in Nat /\ HeldBy(obs, earlier) <= HeldBy(obs, chosen)
    BY <2>1, HeldByGrows
  <2> QED
    BY <2>2 DEF chosen
<1>6. s \in Chosen(obs, T, needed)
  BY <1>3, <1>5 DEF Chosen, StillNeededAt, earlier
<1> QED
  BY <1>3, <1>6

(***************************************************************************)
(* The last candidate is chosen if it permits an action and what is chosen *)
(* of the others falls short.                                              *)
(***************************************************************************)
LEMMA ChosenOneMore ==
  ASSUME ServicesOK(obs), NEW T \in SUBSET DOMAIN obs.services, NEW needed \in Int,
         NEW s \in T, \A t \in T \ {s} : FreedBefore(obs, t, s)
  PROVE  LET before == Chosen(obs, T \ {s}, needed)
         IN Chosen(obs, T, needed) =
              IF HeldBy(obs, before) < needed /\ Permits(obs, s) THEN before \cup {s} ELSE before
<1> DEFINE rest == T \ {s}
           before == Chosen(obs, rest, needed)
           permitted == {t \in rest : Permits(obs, t)}
<1>1. \A u \in rest : {t \in T : Permits(obs, t) /\ FreedBefore(obs, t, u)}
                        = {t \in rest : Permits(obs, t) /\ FreedBefore(obs, t, u)}
  BY FreedBeforeOrders
<1>2. {u \in rest : Permits(obs, u) /\ StillNeededAt(obs, T, needed, u)} = before
  BY <1>1 DEF Chosen, StillNeededAt
<1>3. {t \in T : Permits(obs, t) /\ FreedBefore(obs, t, s)} = permitted
  BY FreedBeforeOrders
<1>4. StillNeededAt(obs, T, needed, s) <=> HeldBy(obs, permitted) < needed
  BY <1>3 DEF StillNeededAt
<1>5. before \subseteq permitted /\ permitted \in SUBSET DOMAIN obs.services /\ rest \in SUBSET DOMAIN obs.services
  BY ChosenAreCandidates
<1>6. HeldBy(obs, permitted) < needed <=> HeldBy(obs, before) < needed
  <2>1. HeldBy(obs, before) < needed => before = permitted
    BY <1>5, ShortMeansAll
  <2> HIDE DEF before, permitted, rest
  <2>2. HeldBy(obs, permitted) \in Nat /\ HeldBy(obs, before) \in Nat /\ HeldBy(obs, before) <= HeldBy(obs, permitted)
    BY <1>5, HeldByGrows
  <2> QED
    BY <2>1, <2>2
<1>7. Chosen(obs, T, needed) = {u \in rest : Permits(obs, u) /\ StillNeededAt(obs, T, needed, u)}
                                 \cup {u \in {s} : Permits(obs, u) /\ StillNeededAt(obs, T, needed, u)}
  BY DEF Chosen
<1> HIDE DEF before, permitted, rest
<1>8. Chosen(obs, T, needed) =
        IF HeldBy(obs, before) < needed /\ Permits(obs, s) THEN before \cup {s} ELSE before
  BY <1>2, <1>4, <1>6, <1>7
<1> QED
  BY <1>8 DEF before, rest

(***************************************************************************)
(* The loop ends with what the plan chooses and what that holds.           *)
(***************************************************************************)
LEMMA WalkChooses ==
  ASSUME ServicesOK(obs), NEW C \in SUBSET DOMAIN obs.services, NEW needed \in Int
  PROVE  Walk(C, needed).names = Chosen(obs, C, needed)
<1>1. PICK w : WalkOn(w, needed, SUBSET C) /\ Walk(C, needed) = w[C]
  BY WalkIsSome
<1> DEFINE chosen(T) == Chosen(obs, T, needed)
           Good == {T \in SUBSET C : w[T] = [freed |-> HeldBy(obs, chosen(T)), names |-> chosen(T)]}
<1>2. IsFiniteSet(C)
  BY FS_Subset, NamesAssumption DEF ServicesOK
<1>3. ASSUME NEW T \in SUBSET C, \A x \in T : T \ {x} \in Good
      PROVE  T \in Good
  <2>1. CASE T = {}
    <3>1. chosen(T) = {} /\ HeldBy(obs, {}) = 0
      BY <2>1, SumOfNone DEF Chosen, HeldBy
    <3>2. w[T] = [freed |-> 0, names |-> {}]
      BY <1>1, <2>1 DEF WalkOn
    <3> QED
      BY <3>1, <3>2
  <2>2. CASE T # {}
    <3> DEFINE s == Hindmost(T)
               before == chosen(T \ {s})
    <3>1. s \in T /\ \A t \in T \ {s} : FreedBefore(obs, t, s)
      BY <2>2, HindmostIsLast
    <3>2. w[T] = LoopBody(s, w[T \ {s}], needed)
      BY <1>1, <2>2 DEF WalkOn
    <3> HIDE DEF s
    <3>3. w[T \ {s}] = [freed |-> HeldBy(obs, before), names |-> before]
      BY <1>3, <3>1
    <3>4. chosen(T) = IF HeldBy(obs, before) < needed /\ Permits(obs, s) THEN before \cup {s} ELSE before
      BY <3>1, ChosenOneMore
    <3>5. before \subseteq T \ {s} /\ before \cup {s} \in SUBSET DOMAIN obs.services
      BY <3>1, ChosenAreCandidates
    <3> HIDE DEF chosen
    <3>6. HeldBy(obs, before) \in Nat
      BY <3>5, HeldByGrows
    <3>7. HeldBy(obs, before \cup {s}) = HeldBy(obs, before) + obs.services[s].held
      <4> DEFINE f == [t \in DOMAIN obs.services |-> obs.services[t].held]
                 U == before \cup {s}
      <4>1. IsFiniteSet(U)
        BY <3>5, FS_Subset, NamesAssumption DEF ServicesOK
      <4>2. U \ {s} = before /\ s \in U /\ U \subseteq DOMAIN obs.services
        BY <3>5
      <4>3. \A t \in U : f[t] \in Int
        BY <4>2 DEF ServicesOK
      <4>4. f[s] = obs.services[s].held
        BY <4>2
      <4> HIDE DEF f, U
      <4>5. SumFunctionOnSet(f, U) = f[s] + SumFunctionOnSet(f, U \ {s}) /\ f[s] \in Int
        BY <4>1, <4>2, <4>3, SumOfOneMore
      <4>6. HeldBy(obs, U) = obs.services[s].held + HeldBy(obs, before) /\ obs.services[s].held \in Int
        BY <4>2, <4>4, <4>5 DEF HeldBy, f
      <4> QED
        BY <3>6, <4>6 DEF U
    <3> HIDE DEF before
    <3>8. w[T] = [freed |-> HeldBy(obs, chosen(T)), names |-> chosen(T)]
      <4>1. CASE HeldBy(obs, before) >= needed \/ ~Permits(obs, s)
        <5>1. chosen(T) = before
          BY <3>4, <3>6, <4>1
        <5>2. w[T] = w[T \ {s}]
          BY <3>2, <3>3, <4>1 DEF LoopBody
        <5> QED
          BY <3>3, <5>1, <5>2
      <4>2. CASE HeldBy(obs, before) < needed /\ Permits(obs, s)
        <5>1. chosen(T) = before \cup {s}
          BY <3>4, <4>2
        <5>2. ~(HeldBy(obs, before) >= needed)
          BY <3>6, <4>2
        <5>3. w[T] = [freed |-> HeldBy(obs, before) + obs.services[s].held, names |-> before \cup {s}]
          BY <3>2, <3>3, <4>2, <5>2 DEF LoopBody
        <5> QED
          BY <3>7, <5>1, <5>3
      <4> QED
        BY <3>6, <4>1, <4>2
    <3> QED
      BY <3>8
  <2> QED
    BY <2>1, <2>2
<1> HIDE DEF Good
<1>4. \A T \in SUBSET C : T \in Good
  BY <1>2, <1>3, FiniteDescent
<1>5. w[C] = [freed |-> HeldBy(obs, chosen(C)), names |-> chosen(C)]
  BY <1>4 DEF Good
<1> QED
  BY <1>1, <1>5

(***************************************************************************)
(* The set a plan is defined by is the one its loop ends with.             *)
(***************************************************************************)
THEOREM ThePlanIsTheLoops == Spec => []PlanIsTheWalk
<1>1. ASSUME PlannerInv, Demanded, plan.beneficiary # NoService, plan.current < plan.target
      PROVE  Named = Walk(Candidates(obs, plan.beneficiary), plan.target - plan.current).names
  <2>1. plan = Decide(cfg, obs) /\ WorldOK /\ Planned
    BY <1>1, DemandedIsDecided DEF PlannerInv, Demanded
  <2>2. ServicesOK(obs) /\ FreeMiB(obs.device) \in Int /\ SelectDemand(cfg, obs).target \in Int
    BY <2>1, WorldIsWellFormed DEF DemandOK
  <2>3. Acts(plan, SelectDemand(cfg, obs))
    BY <1>1, <2>1, DecideActsOrRefuses DEF Refuses
  <2> DEFINE candidates == Candidates(obs, plan.beneficiary)
             needed == plan.target - plan.current
  <2>4. plan.actions = {ActionOn(obs, u) : u \in Chosen(obs, candidates, needed)} /\ needed \in Int
    BY <2>2, <2>3 DEF Acts
  <2>5. candidates \in SUBSET DOMAIN obs.services
    BY DEF Candidates
  <2> HIDE DEF candidates, needed
  <2>6. \A u : ActionOn(obs, u).service = u
    BY DEF ActionOn
  <2>7. Named = Chosen(obs, candidates, needed)
    BY <2>4, <2>6 DEF Named
  <2>8. Walk(candidates, needed).names = Chosen(obs, candidates, needed)
    BY <2>2, <2>4, <2>5, WalkChooses
  <2> QED
    BY <2>7, <2>8 DEF candidates, needed
<1>2. PlannerInv => PlanIsTheWalk
  BY <1>1 DEF PlanIsTheWalk
<1> QED
  BY <1>2, PlansAreMadeFromObservations, PTL

-----------------------------------------------------------------------------
(* The operator override. *)

(***************************************************************************)
(* What Evict does is what the names it is given permit.                   *)
(***************************************************************************)
LEMMA EvictDoes ==
  ASSUME NEW names
  PROVE  Evict(obs, names).actions =
           IF obs.device.known THEN {ActionOn(obs, s) : s \in {t \in names : IsEvictable(obs, t)}} ELSE {}
  BY DEF Evict, PlanFor, Blind

LEMMA EvictAllExceptDoes ==
  ASSUME NEW keep
  PROVE  EvictAllExcept(obs, keep).actions =
           IF keep \in DOMAIN obs.services THEN Evict(obs, DOMAIN obs.services \ {keep}).actions ELSE {}
<1> DEFINE p == Evict(obs, DOMAIN obs.services \ {keep})
<1>1. CASE keep \in DOMAIN obs.services
  <2>1. p = [trigger |-> p.trigger, beneficiary |-> p.beneficiary, target |-> p.target,
             current |-> p.current, total |-> p.total, actions |-> p.actions, notes |-> p.notes]
    BY DEF Evict, PlanFor, Blind
  <2> HIDE DEF p
  <2>2. [p EXCEPT !.beneficiary = keep].actions = p.actions
    BY <2>1
  <2> QED
    BY <1>1, <2>2 DEF EvictAllExcept, p
<1>2. CASE keep \notin DOMAIN obs.services
  BY <1>2 DEF EvictAllExcept, PlanFor, Blind
<1> QED
  BY <1>1, <1>2

(***************************************************************************)
(* A service that is to be disrupted is live, has no action in flight and  *)
(* is not busy.                                                            *)
(***************************************************************************)
Disruptable(s) == IsLive(obs.services[s]) /\ ~obs.services[s].inflight /\ Permits(obs, s)

LEMMA OnlyTheDisruptableAreDisrupted ==
  ASSUME PlannerInv, Planned, NEW a \in plan.actions
  PROVE  \E s \in Services : a = ActionOn(obs, s) /\ Disruptable(s)
<1>1. DOMAIN obs.services = Services
  BY WorldIsWellFormed DEF PlannerInv
<1>2. CASE plan = Decide(cfg, obs)
  BY <1>1, <1>2, DecideActsOnCandidates DEF Candidates, IsCandidate, Disruptable
<1>3. ASSUME NEW names \in SUBSET Services, plan = Evict(obs, names)
      PROVE  \E s \in Services : a = ActionOn(obs, s) /\ Disruptable(s)
  BY <1>3, EvictActsOnTheNamed DEF IsEvictable, Disruptable
<1>4. ASSUME NEW keep, plan = EvictAllExcept(obs, keep)
      PROVE  \E s \in Services : a = ActionOn(obs, s) /\ Disruptable(s)
  BY <1>1, <1>4, EvictAllExceptSparesTheKept DEF IsEvictable, Disruptable
<1> QED
  BY <1>2, <1>3, <1>4 DEF PlannerInv, PlanOK

(***************************************************************************)
(* The override waives priority, target and cooldown and nothing else.     *)
(***************************************************************************)
THEOREM TheOverrideKeepsTheSafetyRules == Spec => []OverrideWaivesPriorityOnly
<1>1. ASSUME PlannerInv, Planned, NEW s \in Services, NEW a \in plan.actions, a.service = s
      PROVE  /\ IsLive(obs.services[s]) /\ ~obs.services[s].inflight
             /\ obs.services[s].idleKnown => obs.services[s].idle
             /\ a.verb = "stop" => obs.services[s].allowStop
  <2>1. a = ActionOn(obs, s) /\ Disruptable(s)
    BY <1>1, OnlyTheDisruptableAreDisrupted DEF ActionOn
  <2> QED
    BY <2>1, VerbsAreTheLeastInvasive DEF Disruptable, Permits, ActionOn
<1>2. ASSUME PlannerInv, Planned PROVE Decide(cfg, obs).actions \subseteq Evict(obs, Services).actions
  <2>1. DOMAIN obs.services = Services
    BY <1>2, WorldIsWellFormed DEF PlannerInv
  <2>2. ASSUME NEW a \in Decide(cfg, obs).actions PROVE a \in Evict(obs, Services).actions
    <3>1. PICK s \in Services : a = ActionOn(obs, s) /\ IsEvictable(obs, s)
      BY <2>1, DecideActsOnCandidates DEF Candidates, IsCandidate, IsEvictable
    <3>2. obs.device.known
      BY DecideActsForItsDemand
    <3> QED
      BY <3>1, <3>2, EvictDoes
  <2> QED
    BY <2>2
<1>3. ASSUME PlannerInv, Planned, NEW keep \in Services
      PROVE  EvictAllExcept(obs, keep).actions = UNION {Evict(obs, {s}).actions : s \in Services \ {keep}}
  <2>1. EvictAllExcept(obs, keep).actions = Evict(obs, Services \ {keep}).actions
    BY <1>3, WorldIsWellFormed, EvictAllExceptDoes DEF PlannerInv
  <2>2. \A a : a \in Evict(obs, Services \ {keep}).actions <=>
                 \E s \in Services \ {keep} : a \in Evict(obs, {s}).actions
    <3>1. CASE obs.device.known
      <4>1. \A names, a : a \in Evict(obs, names).actions <=>
                            \E s \in names : IsEvictable(obs, s) /\ a = ActionOn(obs, s)
        BY <3>1, EvictDoes
      <4>2. \A a, s : a \in Evict(obs, {s}).actions <=> IsEvictable(obs, s) /\ a = ActionOn(obs, s)
        BY <4>1
      <4>3. \A a : a \in Evict(obs, Services \ {keep}).actions <=>
                     \E s \in Services \ {keep} : IsEvictable(obs, s) /\ a = ActionOn(obs, s)
        BY <4>1
      <4> QED
        BY <4>2, <4>3
    <3>2. CASE ~obs.device.known
      <4>1. \A names : Evict(obs, names).actions = {}
        BY <3>2, EvictDoes
      <4> QED
        BY <4>1
    <3> QED
      BY <3>1, <3>2
  <2> QED
    BY <2>1, <2>2
<1>4. ASSUME PlannerInv, Planned PROVE EvictAllExcept(obs, Stranger).actions = {}
  BY <1>4, WorldIsWellFormed, EvictAllExceptDoes, PlannerAssumption DEF PlannerInv
<1>5. PlannerInv => OverrideWaivesPriorityOnly
  BY <1>1, <1>2, <1>3, <1>4 DEF OverrideWaivesPriorityOnly
<1> QED
  BY <1>5, PlansAreMadeFromObservations, PTL
=============================================================================
