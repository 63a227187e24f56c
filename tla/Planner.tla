------------------------------- MODULE Planner -------------------------------
(***************************************************************************)
(* A machine that makes one plan of internal/scheduler/scheduler.go, from  *)
(* any observation of a given world, and the properties of plans.          *)
(***************************************************************************)
EXTENDS Scheduler

CONSTANTS Conditions,  \* services as the observer may report them, of any priority
          Rankings,    \* the priorities the configured services may have
          Demands,     \* [floor, reactive, workload, claims]
          Devices,     \* readings of the card
          Stranger     \* a name the configuration does not hold

ServiceState ==
  [priority : Int, up : BOOLEAN, held : Nat, canRelease : BOOLEAN, stopUnit : BOOLEAN,
   allowStop : BOOLEAN, idle : BOOLEAN, idleKnown : BOOLEAN, probeErr : BOOLEAN,
   cooling : BOOLEAN, inflight : BOOLEAN]

(***************************************************************************)
(* Sizes are unsigned and priorities are integers.  The claims are a       *)
(* slice, so no two of a service have the same place.                      *)
(***************************************************************************)
ASSUME PlannerAssumption ==
  /\ Conditions \subseteq ServiceState
  /\ Rankings \subseteq [Services -> Int]
  /\ \A d \in Demands :
       /\ d.floor \in Nat
       /\ IsFiniteSet(d.claims)
       /\ \A c \in d.claims : c.need \in Nat /\ c.at \in Int /\ c.pos \in Int
       /\ \A c, e \in d.claims : c.service = e.service /\ c.pos = e.pos => c = e
  /\ Devices \subseteq [known : BOOLEAN, total : Nat, used : Nat]
  /\ Stranger \notin Services \cup {NoService}

VARIABLES cfg, obs, plan

vars == <<cfg, obs, plan>>

NoPlan == Blind("none", {})

(***************************************************************************)
(* A configuration, a card and the claims are given; then the services     *)
(* are observed and one plan is made.                                      *)
(***************************************************************************)
Init ==
  /\ \E d \in Demands, r \in Rankings, device \in Devices :
       /\ cfg = [floor |-> d.floor, reactive |-> d.reactive, workload |-> d.workload, priority |-> r]
       /\ obs = [device |-> device, claims |-> d.claims, services |-> <<>>]
  /\ plan = NoPlan

Observe ==
  /\ obs.services = <<>>
  /\ \E condition \in [Services -> Conditions] :
       obs' = [obs EXCEPT !.services =
                 [s \in Services |-> [condition[s] EXCEPT !.priority = cfg.priority[s]]]]
  /\ UNCHANGED cfg

PlanDemand == Observe /\ plan' = Decide(cfg, obs')

(***************************************************************************)
(* The override looks at neither demand nor floor: one demand is enough.   *)
(***************************************************************************)
Operator == cfg.floor = 0 /\ obs.claims = {}

PlanEvict ==
  /\ Operator
  /\ Observe
  /\ \E names \in SUBSET Services : plan' = Evict(obs', names)

PlanEvictAllExcept ==
  /\ Operator
  /\ Observe
  /\ \E keep \in Services \cup {Stranger} : plan' = EvictAllExcept(obs', keep)

Next == PlanDemand \/ PlanEvict \/ PlanEvictAllExcept

Spec == Init /\ [][Next]_vars

Planned == obs.services # <<>>

Demanded == Planned /\ plan.trigger # "evict"

Named == {a.service : a \in plan.actions}

-----------------------------------------------------------------------------
(* The loop of scheduler.Decide as it is written: the sorted candidates    *)
(* one by one, with the running sum of what was freed.                     *)

Hindmost(candidates) ==
  CHOOSE s \in candidates : \A t \in candidates \ {s} : FreedBefore(obs, t, s)

LoopBody(s, acc, needed) ==
  IF acc.freed >= needed \/ ~Permits(obs, s) THEN acc
  ELSE [freed |-> acc.freed + obs.services[s].held, names |-> acc.names \cup {s}]

(***************************************************************************)
(* What the loop holds at its end is what it held before the last          *)
(* candidate and what its body makes of that one.                          *)
(***************************************************************************)
Walk(candidates, needed) ==
  MapThenFoldSet(LAMBDA s, acc : LoopBody(s, acc, needed), [freed |-> 0, names |-> {}],
                 LAMBDA s : s, Hindmost, candidates)

(***************************************************************************)
(* The walk with its running sum chooses the services the plan names: the  *)
(* set the plan is defined by is the loop's.                               *)
(***************************************************************************)
PlanIsTheWalk ==
  Demanded /\ plan.beneficiary # NoService /\ plan.current < plan.target =>
    Named = Walk(Candidates(obs, plan.beneficiary), plan.target - plan.current).names

(***************************************************************************)
(* A service is disrupted only after every service below it that permits   *)
(* an action and could have been disrupted instead: what the plan names is *)
(* closed downwards in priority, and in size within a priority.            *)
(***************************************************************************)
LowestPriorityPaysFirst ==
  Demanded => \A s \in Named, t \in Services \ Named :
    LET lower == obs.services[t].priority < obs.services[s].priority
        larger == /\ obs.services[t].priority = obs.services[s].priority
                  /\ obs.services[t].held > obs.services[s].held
    IN (lower \/ larger) =>
         \/ ~IsCandidate(obs, t, plan.beneficiary)
         \/ ChooseVerb(obs.services[t]) = "none"

(***************************************************************************)
(* Nothing is silent: a plan that would act accounts for every service,    *)
(* the beneficiary apart, by exactly one action or one note, and a plan    *)
(* with no action carries a note.                                          *)
(***************************************************************************)
NothingIsSilent ==
  Demanded =>
    /\ plan.actions = {} => plan.notes # {}
    /\ plan.beneficiary # NoService /\ plan.current < plan.target =>
         \A s \in Services \ {plan.beneficiary} :
           Cardinality({a \in plan.actions : a.service = s})
             + Cardinality({n \in plan.notes : n.service = s /\ n.stage # "workload_not_up"}) = 1

(***************************************************************************)
(* Two services that claim in turn cannot evict each other for ever: if    *)
(* the plan made for s names t, then no plan made for t from the same      *)
(* observation names s, whatever t asks for.                               *)
(***************************************************************************)
NoPingPong ==
  Demanded => \A t \in Named :
    LET back == [obs EXCEPT !.claims = {[service |-> t, need |-> 9, at |-> 1, pos |-> 0]}]
    IN \A a \in Decide(cfg, back).actions : a.service # plan.beneficiary

-----------------------------------------------------------------------------
(* The operator override. *)

(***************************************************************************)
(* The override waives priority, target and cooldown and nothing else:     *)
(* evicting everything does at least what any demand driven plan would do, *)
(* by the same verbs, and everything it does beyond that is to a service   *)
(* that is live, has no action in flight and is not busy.  Nor does        *)
(* evict --all-except reach any further: it does to the others what naming *)
(* each of them would do, and nothing when it keeps a name that the        *)
(* configuration does not hold.                                            *)
(***************************************************************************)
OverrideWaivesPriorityOnly ==
  Planned =>
    /\ \A s \in Services, a \in plan.actions :
         a.service = s =>
           /\ IsLive(obs.services[s]) /\ ~obs.services[s].inflight
           /\ obs.services[s].idleKnown => obs.services[s].idle
           /\ a.verb = "stop" => obs.services[s].allowStop
    /\ Decide(cfg, obs).actions \subseteq Evict(obs, Services).actions
    /\ \A keep \in Services :
         EvictAllExcept(obs, keep).actions = UNION {Evict(obs, {s}).actions : s \in Services \ {keep}}
    /\ EvictAllExcept(obs, Stranger).actions = {}
=============================================================================
