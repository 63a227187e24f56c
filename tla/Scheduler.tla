------------------------------ MODULE Scheduler ------------------------------
(***************************************************************************)
(* The decision core of gpu-bouncer, internal/scheduler/scheduler.go: what *)
(* to do about one observation.  It is a pure function of a configuration  *)
(* and an observation, so the module declares no variable.                 *)
(*                                                                         *)
(* What the daemon knows is a record of these shapes:                      *)
(*   a service  [priority, up, held, canRelease, stopUnit, allowStop,      *)
(*               idle, idleKnown, probeErr, cooling, inflight]             *)
(*   a claim    [service, need, at, pos], pos being its place in the slice *)
(*              relative to the claims it may tie with                     *)
(*   a device   [known, total, used]                                       *)
(*   an observation [device, services, claims]: services is a function     *)
(*              from the observed names, claims a set                      *)
(*   a configuration [floor, reactive, workload, priority]: priority is a  *)
(*              function from the configured names                         *)
(*                                                                         *)
(* A plan's actions are a set of [service, verb, expect]: they run         *)
(* concurrently, one per service, so their order in the slice only settles *)
(* which of them are chosen.  A note keeps the service it is about and the *)
(* stage that passed it over; the wording is left out.                     *)
(***************************************************************************)
EXTENDS Integers, FiniteSets, FiniteSetsExt

CONSTANTS Services,  \* service names
          NameRank   \* their alphabetical order

(***************************************************************************)
(* A configuration file lists finitely many services.  Names are unique    *)
(* and never empty: config.Validate refuses both.                          *)
(***************************************************************************)
ASSUME NamesAssumption ==
  /\ IsFiniteSet(Services)
  /\ "" \notin Services
  /\ NameRank \in [Services -> Nat]
  /\ \A s, t \in Services : NameRank[s] = NameRank[t] => s = t

NoService == ""

(***************************************************************************)
(* s is before t in the order of the sort keys, the leftmost key first.    *)
(***************************************************************************)
KeysBefore(s, t) ==
  \E i \in DOMAIN s : s[i] < t[i] /\ \A j \in 1..(i - 1) : s[j] = t[j]

FreeMiB(device) == IF device.used > device.total THEN 0 ELSE device.total - device.used

Note(service, stage) == [service |-> service, stage |-> stage]

-----------------------------------------------------------------------------
(* Who wants the GPU, and how much of it. *)

LiveClaims(cfg, obs) == {c \in obs.claims : c.service \in DOMAIN cfg.priority}

(***************************************************************************)
(* Highest priority, then earliest, then by name; the sort is stable, so   *)
(* what still ties keeps its place in the slice.                           *)
(***************************************************************************)
ClaimKeys(cfg, c) == <<-cfg.priority[c.service], c.at, NameRank[c.service], c.pos>>

BestClaim(cfg, obs) ==
  CHOOSE c \in LiveClaims(cfg, obs) :
    \A d \in LiveClaims(cfg, obs) \ {c} : KeysBefore(ClaimKeys(cfg, c), ClaimKeys(cfg, d))

IsLive(state) == state.up /\ ~state.probeErr

LiveServices(obs) == {s \in DOMAIN obs.services : IsLive(obs.services[s])}

UpKeys(obs, s) == <<-obs.services[s].priority, NameRank[s]>>

HighestPriorityUp(obs) ==
  CHOOSE s \in LiveServices(obs) :
    \A t \in LiveServices(obs) \ {s} : KeysBefore(UpKeys(obs, s), UpKeys(obs, t))

ClaimDemand(cfg, obs) ==
  LET best == BestClaim(cfg, obs)
  IN [trigger |-> "request", beneficiary |-> best.service, notes |-> {},
      target |-> IF best.need = 0 THEN cfg.floor ELSE best.need]

(***************************************************************************)
(* Reactive mode defends the default workload while it is live, otherwise  *)
(* the highest priority live service.                                      *)
(***************************************************************************)
ReactiveDemand(cfg, obs, notes) ==
  [trigger |-> "reactive", target |-> cfg.floor, notes |-> notes,
   beneficiary |-> IF cfg.workload \in LiveServices(obs) THEN cfg.workload
                   ELSE HighestPriorityUp(obs)]

NoDemand(notes) ==
  [trigger |-> "none", beneficiary |-> NoService, target |-> 0,
   notes |-> notes \cup {Note(NoService, "nobody_to_serve")}]

SelectDemand(cfg, obs) ==
  LET ignored == {Note(NoService, "claims_ignored") : c \in obs.claims}
      fallback == {Note(w, "workload_not_up") :
                     w \in {cfg.workload} \ ({NoService} \cup LiveServices(obs))}
      defends == cfg.reactive /\ cfg.floor > 0 /\ FreeMiB(obs.device) < cfg.floor
  IN IF LiveClaims(cfg, obs) # {} THEN ClaimDemand(cfg, obs)
     ELSE IF ~defends THEN NoDemand(ignored)
     ELSE IF LiveServices(obs) = {} THEN NoDemand(ignored \cup fallback)
     ELSE ReactiveDemand(cfg, obs, ignored \cup fallback)

-----------------------------------------------------------------------------
(* Whom to free, in which order, and by which verb. *)

(* Mutant of IsCandidate: a peer of the beneficiary's priority may be freed. *)
IsCandidateOrPeer(obs, s, beneficiary) ==
  LET state == obs.services[s]
  IN /\ s # beneficiary
     /\ IsLive(state)
     /\ state.priority <= obs.services[beneficiary].priority
     /\ state.held > 0
     /\ ~state.cooling
     /\ ~state.inflight

(***************************************************************************)
(* A candidate may be freed on behalf of the beneficiary: it is seen, up,  *)
(* strictly below the beneficiary, holds something, is not cooling and has *)
(* no action in flight.                                                    *)
(***************************************************************************)
IsCandidate(obs, s, beneficiary) ==
  LET state == obs.services[s]
  IN /\ s # beneficiary
     /\ IsLive(state)
     /\ state.priority < obs.services[beneficiary].priority
     /\ state.held > 0
     /\ ~state.cooling
     /\ ~state.inflight

Candidates(obs, beneficiary) == {s \in DOMAIN obs.services : IsCandidate(obs, s, beneficiary)}

(* Mutant of CandidateKeys: the smallest holder first. *)
CandidateKeysSmallestFirst(obs, s) ==
  <<obs.services[s].priority, obs.services[s].held, NameRank[s]>>

(***************************************************************************)
(* The order they are freed in: lowest priority first, within a priority   *)
(* the largest holder first, then by name.                                 *)
(***************************************************************************)
CandidateKeys(obs, s) == <<obs.services[s].priority, -obs.services[s].held, NameRank[s]>>

FreedBefore(obs, s, t) == KeysBefore(CandidateKeys(obs, s), CandidateKeys(obs, t))

(* Mutants of ChooseVerb: allow_stop is not asked, and a stop goes before a release. *)
ChooseVerbUnasked(state) ==
  IF state.idleKnown /\ ~state.idle THEN "none"
  ELSE IF state.canRelease THEN "release"
  ELSE IF state.stopUnit THEN "stop"
  ELSE "none"

ChooseVerbStopFirst(state) ==
  IF state.idleKnown /\ ~state.idle THEN "none"
  ELSE IF state.stopUnit /\ state.allowStop THEN "stop"
  ELSE IF state.canRelease THEN "release"
  ELSE "none"

(***************************************************************************)
(* The least invasive verb a service permits, "none" when it permits none. *)
(***************************************************************************)
ChooseVerb(state) ==
  IF state.idleKnown /\ ~state.idle THEN "none"
  ELSE IF state.canRelease THEN "release"
  ELSE IF state.stopUnit /\ state.allowStop THEN "stop"
  ELSE "none"

Permits(obs, s) == ChooseVerb(obs.services[s]) # "none"

ActionOn(obs, s) ==
  [service |-> s, verb |-> ChooseVerb(obs.services[s]), expect |-> obs.services[s].held]

HeldBy(obs, names) == SumFunctionOnSet([s \in DOMAIN obs.services |-> obs.services[s].held], names)

(* Mutant of StillNeededAt: one action too many. *)
StillNeededAtTarget(obs, candidates, needed, s) ==
  HeldBy(obs, {t \in candidates : Permits(obs, t) /\ FreedBefore(obs, t, s)}) <= needed

(***************************************************************************)
(* The walk down the sorted candidates reaches s with the target unmet:    *)
(* what the permitted candidates before it hold falls short.  The ones the *)
(* walk leaves alone come after the target is met, so counting every       *)
(* permitted candidate before s asks the same question as the running sum. *)
(***************************************************************************)
StillNeededAt(obs, candidates, needed, s) ==
  HeldBy(obs, {t \in candidates : Permits(obs, t) /\ FreedBefore(obs, t, s)}) < needed

Chosen(obs, candidates, needed) ==
  {s \in candidates : Permits(obs, s) /\ StillNeededAt(obs, candidates, needed, s)}

(* Mutant of PassedOver: silent about what the target did not need. *)
PassedOverSilently(obs, beneficiary, candidates, needed) ==
  {Note(s, IF s \notin candidates THEN "not_a_candidate" ELSE "no_action_permitted") :
     s \in {t \in DOMAIN obs.services \ ({beneficiary} \cup Chosen(obs, candidates, needed)) :
              t \in candidates => StillNeededAt(obs, candidates, needed, t)}}

(***************************************************************************)
(* One note for every service passed over: not a candidate, left alone     *)
(* once the target is met, or permitting no action.                        *)
(***************************************************************************)
PassedOver(obs, beneficiary, candidates, needed) ==
  {Note(s, IF s \notin candidates THEN "not_a_candidate"
           ELSE IF ~StillNeededAt(obs, candidates, needed, s) THEN "target_met_without_it"
           ELSE "no_action_permitted") :
     s \in DOMAIN obs.services \ ({beneficiary} \cup Chosen(obs, candidates, needed))}

-----------------------------------------------------------------------------
(* The plans. *)

PlanFor(trigger, beneficiary, target, device, actions, notes) ==
  [trigger |-> trigger, beneficiary |-> beneficiary, target |-> target,
   current |-> FreeMiB(device), total |-> device.total,
   actions |-> actions, notes |-> notes]

(***************************************************************************)
(* Without a VRAM reading every plan refuses to act and carries no figure. *)
(***************************************************************************)
Blind(trigger, notes) ==
  [trigger |-> trigger, beneficiary |-> NoService, target |-> 0, current |-> 0, total |-> 0,
   actions |-> {}, notes |-> notes \cup {Note(NoService, "GPU_not_read")}]

Decide(cfg, obs) ==
  LET demand == SelectDemand(cfg, obs)
      needed == demand.target - FreeMiB(obs.device)
      candidates == Candidates(obs, demand.beneficiary)
      chosen == Chosen(obs, candidates, needed)
      short == IF HeldBy(obs, chosen) < needed THEN {Note(NoService, "best_effort")} ELSE {}
      Plan(trigger, actions, notes) ==
        PlanFor(trigger, demand.beneficiary, demand.target, obs.device, actions, demand.notes \cup notes)
  IN IF ~obs.device.known THEN Blind("none", {})
     ELSE IF demand.trigger = "none" THEN Plan("none", {}, {})
     ELSE IF needed <= 0 THEN Plan(demand.trigger, {}, {Note(NoService, "enough_is_free")})
     ELSE IF demand.beneficiary \notin DOMAIN obs.services
       THEN Plan("none", {}, {Note(demand.beneficiary, "not_configured")})
     ELSE Plan(demand.trigger, {ActionOn(obs, s) : s \in chosen},
               PassedOver(obs, demand.beneficiary, candidates, needed) \cup short)

(* Mutant of IsEvictable: an action in flight does not matter. *)
IsEvictableInFlight(obs, s) ==
  s \in DOMAIN obs.services /\ IsLive(obs.services[s]) /\ Permits(obs, s)

(***************************************************************************)
(* The operator override: priority and free VRAM do not matter, the safety *)
(* rules still do.                                                         *)
(***************************************************************************)
IsEvictable(obs, s) ==
  /\ s \in DOMAIN obs.services
  /\ IsLive(obs.services[s])
  /\ ~obs.services[s].inflight
  /\ Permits(obs, s)

Evict(obs, names) ==
  IF ~obs.device.known THEN Blind("evict", {})
  ELSE PlanFor("evict", NoService, 0, obs.device,
               {ActionOn(obs, s) : s \in {t \in names : IsEvictable(obs, t)}},
               {Note(s, "skipped") : s \in {t \in names : ~IsEvictable(obs, t)}})

(***************************************************************************)
(* A name the configuration does not hold evicts nothing; the plan still   *)
(* carries the figures of a card that was read.                            *)
(***************************************************************************)
EvictAllExcept(obs, keep) ==
  IF keep \in DOMAIN obs.services
  THEN [Evict(obs, DOMAIN obs.services \ {keep}) EXCEPT !.beneficiary = keep]
  ELSE IF obs.device.known
       THEN PlanFor("evict", NoService, 0, obs.device, {}, {Note(keep, "refused")})
       ELSE Blind("evict", {Note(keep, "refused")})

(***************************************************************************)
(* What a plan promises, capped at the card: a service's own account of    *)
(* what it holds can exceed what the driver sees.                          *)
(***************************************************************************)
ExpectedFreeMiB(plan) ==
  LET promised == plan.current + SumFunction([a \in plan.actions |-> a.expect])
  IN IF plan.total > 0 /\ promised > plan.total THEN plan.total ELSE promised
=============================================================================
