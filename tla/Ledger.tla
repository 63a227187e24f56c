-------------------------------- MODULE Ledger --------------------------------
(***************************************************************************)
(* What the daemon promises about the state it keeps, with nothing of how  *)
(* it keeps it: no observation, no plan, no goroutine, no reply.           *)
(*                                                                         *)
(*   - a service is worked on by one worker at a time, who records one     *)
(*     effect and then hands the service back;                             *)
(*   - a claim keeps the time of its first request until it is dropped;    *)
(*   - a cooldown stands until it ends, unless an action on its own        *)
(*     service ends and says otherwise;                                    *)
(*   - a daemon that only looks (--dry-run) writes none of this down.      *)
(*                                                                         *)
(* Daemon implements it: see Promise and ImplementsLedger there.           *)
(***************************************************************************)
EXTENDS Integers

CONSTANTS Services, Workers,
          Needs,           \* what a claim may ask for
          ActionCooldown   \* how long a service is left alone after an action in vain

VARIABLES looking,    \* the daemon writes nothing down
          now,        \* the clock
          claims,     \* service -> [need, at], Unclaimed when it has none
          cooldowns,  \* service -> when its cooldown ends, 0 when it has none
          taken,      \* the services nobody else may act on
          working,    \* service -> who is acting on it
          spent       \* service -> who has acted on it and not handed it back

ledger == <<looking, now, claims, cooldowns, taken, working, spent>>

Unclaimed == [need |-> 0, at |-> 0]

Init ==
  /\ looking \in BOOLEAN
  /\ now = 1
  /\ claims = [s \in Services |-> Unclaimed]
  /\ cooldowns = [s \in Services |-> 0]
  /\ taken = {}
  /\ working = [s \in Services |-> {}]
  /\ spent = [s \in Services |-> {}]

TimePasses ==
  /\ now' = now + 1
  /\ UNCHANGED <<looking, claims, cooldowns, taken, working, spent>>

(***************************************************************************)
(* A claim that stands keeps its time; a new one has the time it was asked *)
(* at, which may be past by the time it is entered.                        *)
(***************************************************************************)
Claim(s, need) ==
  /\ ~looking
  /\ \E at \in IF claims[s] = Unclaimed THEN 1..now ELSE {claims[s].at} :
       claims' = [claims EXCEPT ![s] = [need |-> need, at |-> at]]
  /\ UNCHANGED <<looking, now, cooldowns, taken, working, spent>>

Drop(s) ==
  /\ ~looking
  /\ claims' = [claims EXCEPT ![s] = Unclaimed]
  /\ UNCHANGED <<looking, now, cooldowns, taken, working, spent>>

(***************************************************************************)
(* Any of the cooldowns that have ended are forgotten, none that has not.  *)
(***************************************************************************)
Sweep(ended) ==
  /\ \A s \in ended : cooldowns[s] <= now
  /\ cooldowns' = [s \in Services |-> IF s \in ended THEN 0 ELSE cooldowns[s]]
  /\ UNCHANGED <<looking, now, claims, taken, working, spent>>

Take(s, w) ==
  /\ s \notin taken
  /\ working[s] = {} /\ spent[s] = {}
  /\ taken' = taken \cup {s}
  /\ working' = [working EXCEPT ![s] = {w}]
  /\ UNCHANGED <<looking, now, claims, cooldowns, spent>>

(***************************************************************************)
(* The one effect of an action: it worked and ends the cooldown, nobody    *)
(* can tell, or it was in vain and starts one.                             *)
(***************************************************************************)
Record(s, w) ==
  /\ working[s] = {w}
  /\ working' = [working EXCEPT ![s] = {}]
  /\ spent' = [spent EXCEPT ![s] = {w}]
  /\ \/ cooldowns' = cooldowns
     \/ ~looking /\ cooldowns' = [cooldowns EXCEPT ![s] = 0]
     \/ ~looking /\ cooldowns' = [cooldowns EXCEPT ![s] = now + ActionCooldown]
  /\ UNCHANGED <<looking, now, claims, taken>>

Give(s, w) ==
  /\ spent[s] = {w}
  /\ taken' = taken \ {s}
  /\ spent' = [spent EXCEPT ![s] = {}]
  /\ UNCHANGED <<looking, now, claims, cooldowns, working>>

Next ==
  \/ TimePasses
  \/ \E s \in Services, need \in Needs : Claim(s, need)
  \/ \E s \in Services : Drop(s)
  \/ \E ended \in SUBSET Services : Sweep(ended)
  \/ \E s \in Services, w \in Workers : Take(s, w) \/ Record(s, w) \/ Give(s, w)

Spec == Init /\ [][Next]_ledger
=============================================================================
