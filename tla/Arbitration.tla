------------------------------ MODULE Arbitration ------------------------------
(***************************************************************************)
(* The scheduler, the daemon's loop, one client and the services, closed   *)
(* over the memory they contend for: what internal/daemon/daemon.go makes  *)
(* of internal/scheduler over many polls.                                  *)
(*                                                                         *)
(* Daemon draws every reading freely and shows what the daemon does with   *)
(* it; here the readings come from services that load, let go at once,     *)
(* late or never, so that one round's effect is the next round's reading.  *)
(* In return three things are coarser than in Daemon: the card and the     *)
(* probes are read in one step and always answer, claims and slots are     *)
(* copied in one, and an action's slot and first reading are one, as are   *)
(* its second, its record and the return of the slot.  Time is counted in  *)
(* polls and a cooldown is kept as the polls it has left.                  *)
(***************************************************************************)
EXTENDS Scheduler

CONSTANTS Config,      \* each service's [priority, allowStop, canRelease, stopUnit]
          Policy,      \* [floor, reactive, workload, minEffect]
          Cooldown,    \* action_cooldown, in polls
          Slowest,     \* the polls that may go by while the loop is in a round
          Total,       \* the card's size
          Start,       \* what the services may hold when the daemon starts
          Asks,        \* <<service, need>>: the requests that may be made
          Stubborn,    \* services that never let go, or load again at once
          MaxTroubles  \* loads and crashes of the daemon: a bound of the model

Workers == {"loop", "client"}

ServiceConfig == [priority : Int, allowStop : BOOLEAN, canRelease : BOOLEAN, stopUnit : BOOLEAN]

HeldInAll(what) == SumFunctionOnSet(what, Services)

(***************************************************************************)
(* No two services share a priority, because the claims carry no time      *)
(* here.  A cooldown outlasts a round of the loop.                         *)
(* That holds by far with the defaults (60 s, polls and probes of 5 s)     *)
(* and not of every configuration that is accepted: a probe may be given   *)
(* an hour and a cooldown a nanosecond.                                    *)
(***************************************************************************)
ASSUME ArbitrationAssumption ==
  /\ Config \in [Services -> ServiceConfig]
  /\ \A s, t \in Services : Config[s].priority = Config[t].priority => s = t
  /\ Policy \in [floor : Nat, reactive : BOOLEAN, workload : Services \cup {NoService}, minEffect : Nat]
  /\ Slowest \in Nat /\ Cooldown \in Nat /\ Cooldown > Slowest
  /\ Total \in Nat
  /\ \A start \in Start : start \in [Services -> 0..Total] /\ HeldInAll(start) <= Total
  /\ Asks \subseteq Services \X (Nat \ {0})
  /\ Stubborn \subseteq Services
  /\ MaxTroubles \in Nat

VARIABLES held,     \* service -> what it holds of the card
          late,     \* services that will let go though nobody waits for it any more
          claims,   \* service -> what its claim needs, 0 when it has none
          cooling,  \* service -> polls its cooldown has left
          slot,     \* service -> its action slot: [pc, before]
          round,    \* worker -> its round: how far it is and what it has seen
          age,      \* the polls that have gone by in the loop's round
          started,  \* worker -> services its goroutines have yet to take the slot of
          due,      \* a tick waits in the ticker's channel
          troubles  \* the loads and crashes so far

world == <<held, late>>
kept == <<claims, cooling, slot>>
rounds == <<round, age, started, due>>
vars == <<world, kept, rounds, troubles>>

FreeSlot == [pc |-> "free", before |-> 0]
NoRound == [pc |-> "none", held |-> <<>>, claims |-> <<>>, inflight |-> {}]
Free == Total - HeldInAll(held)

Init ==
  /\ held \in Start
  /\ late = {}
  /\ claims = [s \in Services |-> 0]
  /\ cooling = [s \in Services |-> 0]
  /\ slot = [s \in Services |-> FreeSlot]
  /\ round = [w \in Workers |-> NoRound]
  /\ age = 0
  /\ started = [w \in Workers |-> {}]
  /\ due = FALSE
  /\ troubles = 0

-----------------------------------------------------------------------------
(* The services and the clock. *)

Load(s) ==
  /\ troubles < MaxTroubles /\ troubles' = troubles + 1
  /\ \E n \in 1..Free : held' = [held EXCEPT ![s] = @ + n]
  /\ UNCHANGED <<late, kept, rounds>>

(***************************************************************************)
(* A service that was told to lets go of all it holds, while the daemon    *)
(* waits for it or after it gave up.                                       *)
(***************************************************************************)
Told(s) == slot[s].pc = "acting" \/ s \in late

LetGo(s) ==
  /\ s \notin Stubborn /\ Told(s) /\ held[s] > 0
  /\ held' = [held EXCEPT ![s] = 0]
  /\ late' = late \ {s}
  /\ UNCHANGED <<kept, rounds, troubles>>

(***************************************************************************)
(* One poll interval.  The ticker's channel holds one tick, and the others *)
(* that fall in a round are dropped; a loop that waits takes a tick when   *)
(* it comes.                                                               *)
(***************************************************************************)
InRound(w) == round[w] # NoRound

Poll ==
  /\ IF InRound("loop") THEN age < Slowest ELSE ~due
  /\ due' = TRUE
  /\ age' = IF InRound("loop") THEN age + 1 ELSE 0
  /\ cooling' = [s \in Services |-> IF cooling[s] > 0 THEN cooling[s] - 1 ELSE 0]
  /\ UNCHANGED <<world, claims, slot, round, started, troubles>>

-----------------------------------------------------------------------------
(* Requests. *)

Resting(w) == ~InRound(w) /\ started[w] = {}

(***************************************************************************)
(* handleRequest records the claim and goes on to its own round.           *)
(***************************************************************************)
Ask(s, need) ==
  /\ Resting("client")
  /\ claims' = [claims EXCEPT ![s] = need]
  /\ round' = [round EXCEPT !["client"].pc = "asked"]
  /\ UNCHANGED <<world, cooling, slot, age, started, due, troubles>>

Drop(s) ==
  /\ claims[s] > 0
  /\ claims' = [claims EXCEPT ![s] = 0]
  /\ UNCHANGED <<world, cooling, slot, rounds, troubles>>

-----------------------------------------------------------------------------
(* Rounds: what the services hold is read, then what the daemon keeps.     *)

Looks(w) == round' = [round EXCEPT ![w] = [NoRound EXCEPT !.pc = "looked", !.held = held]]

(***************************************************************************)
(* The goroutines of the last round have taken their slots by then, or     *)
(* been turned away.                                                       *)
(***************************************************************************)
LoopLooks ==
  /\ due /\ Resting("loop")
  /\ due' = FALSE
  /\ age' = 0
  /\ Looks("loop")
  /\ UNCHANGED <<world, kept, started, troubles>>

ClientLooks ==
  /\ round["client"].pc = "asked"
  /\ Looks("client")
  /\ UNCHANGED <<world, kept, started, age, due, troubles>>

(***************************************************************************)
(* The claims and the marks of the actions in flight are copied.           *)
(***************************************************************************)
Copy(w) ==
  /\ round[w].pc = "looked"
  /\ round' = [round EXCEPT ![w].pc = "copied", ![w].claims = claims,
                            ![w].inflight = {s \in Services : slot[s] # FreeSlot}]
  /\ UNCHANGED <<world, kept, started, age, due, troubles>>

ServiceState(s, amount, marks, inflight) ==
  [priority |-> Config[s].priority, allowStop |-> Config[s].allowStop,
   canRelease |-> Config[s].canRelease, stopUnit |-> Config[s].stopUnit,
   probeErr |-> FALSE, up |-> TRUE, held |-> amount, idle |-> FALSE, idleKnown |-> FALSE,
   cooling |-> s \in marks, inflight |-> s \in inflight]

(***************************************************************************)
(* What is decided from: what the services hold and who claims, and who is *)
(* passed over because he cools or is in flight.                           *)
(***************************************************************************)
Observation(amounts, needs, marks, inflight) ==
  [device |-> [known |-> TRUE, total |-> Total, used |-> HeldInAll(amounts)],
   claims |-> {[service |-> s, need |-> needs[s], at |-> 0, pos |-> 0] :
                 s \in {t \in Services : needs[t] > 0}},
   services |-> [s \in Services |-> ServiceState(s, amounts[s], marks, inflight)]]

SchedulerConfig ==
  [floor |-> Policy.floor, reactive |-> Policy.reactive, workload |-> Policy.workload,
   priority |-> [s \in Services |-> Config[s].priority]]

(* Mutant of CoolingFor: nobody minds a cooldown. *)
CoolingForNobody(w) == {}

(***************************************************************************)
(* Only the loop honours cooldowns, as they are when it decides.           *)
(***************************************************************************)
CoolingFor(w) == IF w = "loop" THEN {s \in Services : cooling[s] > 0} ELSE {}

PlanOf(w) ==
  Decide(SchedulerConfig,
         Observation(round[w].held, round[w].claims, CoolingFor(w), round[w].inflight))

(***************************************************************************)
(* The plan is made and a goroutine is started for each of its actions.    *)
(***************************************************************************)
Act(w) ==
  /\ round[w].pc = "copied"
  /\ started' = [started EXCEPT ![w] = {a.service : a \in PlanOf(w).actions}]
  /\ round' = [round EXCEPT ![w] = NoRound]
  /\ age' = IF w = "loop" THEN 0 ELSE age
  /\ UNCHANGED <<world, kept, due, troubles>>

-----------------------------------------------------------------------------
(* Actions. *)

(***************************************************************************)
(* executeGuarded, up to the adapter's call: the goroutine takes the slot  *)
(* and reads the card, or is turned away from a slot that is taken.        *)
(***************************************************************************)
Begin(w, s) ==
  /\ s \in started[w]
  /\ started' = [started EXCEPT ![w] = @ \ {s}]
  /\ \/ /\ slot[s] = FreeSlot
        /\ slot' = [slot EXCEPT ![s] = [pc |-> "acting", before |-> Free]]
        /\ late' = late \ {s}
     \/ slot[s] # FreeSlot /\ UNCHANGED <<slot, late>>
  /\ UNCHANGED <<held, claims, cooling, round, age, due, troubles>>

Worked(s, failed) == ~failed /\ Free - slot[s].before >= Policy.minEffect

(* Mutant of RecordEffect: a cooldown is added to the one still running. *)
RecordEffectAdds(s, failed) ==
  cooling' = [cooling EXCEPT ![s] = IF Worked(s, failed) THEN 0 ELSE @ + Cooldown]

RecordEffect(s, failed) ==
  cooling' = [cooling EXCEPT ![s] = IF Worked(s, failed) THEN 0 ELSE Cooldown]

(***************************************************************************)
(* The call returns: the card is read again, the effect recorded and the   *)
(* slot given back.  A call that ends before the service let go was given  *)
(* up after its drain, or reports success too early; the service may still *)
(* let go, or have been too busy to take notice.                           *)
(***************************************************************************)
End(s) ==
  /\ slot[s].pc = "acting"
  /\ \E failed \in BOOLEAN, still \in BOOLEAN :
       /\ RecordEffect(s, failed)
       /\ late' = IF still /\ held[s] > 0 /\ s \notin Stubborn THEN late \cup {s} ELSE late
  /\ slot' = [slot EXCEPT ![s] = FreeSlot]
  /\ UNCHANGED <<held, claims, rounds, troubles>>

(***************************************************************************)
(* The daemon is killed and started again.  It keeps nothing on disk:      *)
(* claims, cooldowns and slots are gone, and the services it was acting on *)
(* may let go all the same.                                                *)
(***************************************************************************)
Restart ==
  /\ troubles < MaxTroubles /\ troubles' = troubles + 1
  /\ \E still \in SUBSET {s \in Services \ Stubborn : slot[s].pc = "acting"} : late' = late \cup still
  /\ claims' = [s \in Services |-> 0]
  /\ cooling' = [s \in Services |-> 0]
  /\ slot' = [s \in Services |-> FreeSlot]
  /\ round' = [w \in Workers |-> NoRound]
  /\ age' = 0
  /\ started' = [w \in Workers |-> {}]
  /\ due' = FALSE
  /\ UNCHANGED held

Next ==
  \/ Poll
  \/ LoopLooks \/ ClientLooks
  \/ \E ask \in Asks : Ask(ask[1], ask[2])
  \/ \E w \in Workers : Copy(w) \/ Act(w) \/ \E s \in Services : Begin(w, s)
  \/ \E s \in Services : Load(s) \/ LetGo(s) \/ Drop(s) \/ End(s)
  \/ Restart

(***************************************************************************)
(* The ticker fires and its ticks are taken, a round and an action end,    *)
(* because every call they make is made under a timeout, and a service     *)
(* that is told again and again lets go in the end, unless it is stubborn. *)
(* That is the weak fairness of Poll, LoopLooks, ClientLooks, Copy, Act,   *)
(* Begin and End and the strong fairness of LetGo, said of the states.     *)
(***************************************************************************)
Fairness ==
  /\ []<>due /\ []<>~due
  /\ \A w \in Workers : []<>Resting(w)
  /\ \A s \in Services : []<>(slot[s] = FreeSlot)
  /\ \A s \in Services \ Stubborn : []<>(held[s] > 0 /\ Told(s)) => []<>(held[s] = 0)

Spec == Init /\ [][Next]_vars /\ Fairness

-----------------------------------------------------------------------------
(* Properties. *)

(***************************************************************************)
(* The type invariant.                                                     *)
(***************************************************************************)
TypeOK ==
  /\ held \in [Services -> 0..Total]
  /\ Free \in 0..Total
  /\ late \in SUBSET (Services \ Stubborn)
  /\ claims \in [Services -> Nat]
  /\ cooling \in [Services -> 0..Cooldown]
  /\ slot \in [Services -> [pc : {"free", "acting"}, before : 0..Total]]
  /\ round \in [Workers -> [pc : {"none", "asked", "looked", "copied"},
                             held : [Services -> 0..Total] \cup {<<>>},
                             claims : [Services -> Nat] \cup {<<>>}, inflight : SUBSET Services]]
  /\ age \in 0..Slowest
  /\ started \in [Workers -> SUBSET Services]
  /\ due \in BOOLEAN
  /\ troubles \in 0..MaxTroubles

(***************************************************************************)
(* No demand goes unserved for ever: a claim, or the floor while nobody    *)
(* claims, is met, or every service that may be freed for it and that ever *)
(* lets go holds nothing, or another demand takes its place.  A service    *)
(* that never lets go, an action whose memory comes late and one credited  *)
(* with another's gain shield nobody for ever, through restarts too.       *)
(***************************************************************************)
Movable(s) ==
  {t \in Services \ Stubborn :
     Config[t].priority < Config[s].priority /\ ChooseVerb(ServiceState(t, 0, {}, {})) # "none"}

Unserved ==
  LET demand == SelectDemand(SchedulerConfig, Observation(held, claims, {}, {}))
  IN /\ demand.beneficiary # NoService
     /\ Free < demand.target
     /\ \E t \in Movable(demand.beneficiary) : held[t] > 0

DemandsAreServed == []<>~Unserved
=============================================================================
