------------------------------ MODULE Adapters ------------------------------
(***************************************************************************)
(* One action on one service: Release and Stop of the four adapters        *)
(* (internal/adapter), each against the service it drives, with the time   *)
(* every request may take.                                                 *)
(*                                                                         *)
(* A service is external: a set of loaded models (for ComfyUI and systemd, *)
(* one thing that is there or not), those with work in flight, and those it *)
(* has been told to let go of and has not yet.  Users work with it all the *)
(* time.  Time passes in units of five seconds, and only timers that run   *)
(* are kept; a request that has not been answered in full when its time is *)
(* up fails at that instant.  The transport may give up sooner on a dial,  *)
(* a handshake or a header, which is a failure like any other; a body that *)
(* comes slowly is ended by the request's own limit alone.                 *)
(***************************************************************************)
EXTENDS Naturals, FiniteSets, FiniteSetsExt

CONSTANTS
    Services,   \* configured services
    Models,     \* what services may have loaded
    Configs     \* the configurations to consider

Adapters == {"ollama", "comfyui", "llama-swap", "systemd-unit"}

\* The keys of config.Service that an action looks at.
ServiceConfig == [adapter : Adapters, timeout : Nat, drain : Nat, allowStop : BOOLEAN]

ASSUME AdaptersAssumption ==
    /\ Configs \subseteq [Services -> ServiceConfig]
    /\ IsFiniteSet(Models)

StopTimeout   == 18   \* 90 s, systemdunit.go
UnloadTimeout == 12   \* 60 s, llamaswap.go

VARIABLES
    config, \* the configuration the daemon was started with
    svc,    \* svc[s]: what the service has loaded, is busy with, is letting go
    act,    \* act[s]: the action on s that is running, or the last one's result
    asked,  \* history: models this action has had the service let go of
    away    \* history: models gone at some time since this action asked

adapterVars == <<config, svc, act, asked, away>>

Requests == {"list", "unload", "poll", "check", "free", "unloadAll", "stop"}

Kind(s)      == config[s].adapter
Timeout(s)   == config[s].timeout
Drain(s)     == config[s].drain
AllowStop(s) == config[s].allowStop

\* A Go Result and error, the loop variables around it, and three timers: what
\* is left for this request, since when the action and since when a drain runs.
Idle == [step |-> "idle", left |-> 0, age |-> 0, drained |-> 0,
         listed |-> {}, todo |-> {}, targets |-> {}, acted |-> FALSE, error |-> "none"]

Running(s) == act[s].step \in Requests
Over(s)    == act[s].step = "over"

\* A model is unloaded once; a service is busy with, or letting go, only what it has.
AdaptersTypeOK ==
    /\ config \in Configs
    /\ svc \in [Services -> [loaded : SUBSET Models, busy : SUBSET Models, expiring : SUBSET Models]]
    /\ \A s \in Services : svc[s].busy \cup svc[s].expiring \subseteq svc[s].loaded
    /\ act \in [Services -> [step : Requests \cup {"idle", "over"},
                             left : Nat, age : Nat, drained : Nat,
                             listed : SUBSET Models, todo : SUBSET Models, targets : SUBSET Models,
                             acted : BOOLEAN,
                             error : {"none", "failed", "timeout", "still loaded", "not permitted"}]]
    /\ \A s \in Services : act[s].todo \cap act[s].targets = {}
    /\ asked \in [Services -> SUBSET Models]
    /\ away \in [Services -> SUBSET Models]

AdaptersInit ==
    /\ config \in Configs
    /\ svc \in [Services -> {[loaded |-> l, busy |-> b, expiring |-> {}] :
                                l \in SUBSET Models, b \in SUBSET Models}]
    /\ \A s \in Services : svc[s].busy \subseteq svc[s].loaded
    /\ act = [s \in Services |-> Idle]
    /\ asked = [s \in Services |-> {}]
    /\ away = [s \in Services |-> {}]
-----------------------------------------------------------------------------
(* Where an action goes next.                                              *)

\* The next request, with its own limit.
AskFor(a, step, limit) == [a EXCEPT !.step = step, !.left = limit]

\* The action returns: its timers stop, its result stays.
Returns(a, error) == [a EXCEPT !.step = "over", !.error = error, !.todo = {},
                               !.left = 0, !.age = 0, !.drained = 0]

Becomes(s, a) == act' = [act EXCEPT ![s] = a]

\* Mutant of FirstRequest: Stop does not look at allow_stop.
FirstRequestStops(s) ==
    CASE Kind(s) \in {"ollama", "llama-swap"} -> AskFor(Idle, "list", Timeout(s))
      [] Kind(s) = "comfyui"                  -> AskFor(Idle, "check", Timeout(s))
      [] OTHER -> AskFor(Idle, "stop", StopTimeout)

\* The first request of Release or, for a unit, of Stop.  Only a stop that the
\* config allows runs systemctl at all.
FirstRequest(s) ==
    CASE Kind(s) \in {"ollama", "llama-swap"} -> AskFor(Idle, "list", Timeout(s))
      [] Kind(s) = "comfyui"                  -> AskFor(Idle, "check", Timeout(s))
      [] Kind(s) = "systemd-unit" /\ AllowStop(s) -> AskFor(Idle, "stop", StopTimeout)
      [] OTHER -> Returns(Idle, "not permitted")

\* Services on which an action starts now; their histories start afresh.
BeginAll(S) ==
    /\ act' = [s \in Services |-> IF s \in S THEN FirstRequest(s) ELSE act[s]]
    /\ asked' = [s \in Services |-> IF s \in S THEN {} ELSE asked[s]]
    /\ away' = [s \in Services |-> IF s \in S THEN {} ELSE away[s]]

Begin(s) == ~Running(s) /\ BeginAll({s}) /\ UNCHANGED <<config, svc>>
-----------------------------------------------------------------------------
(* What a service does with a request to let go.                           *)

\* s lets go of the loaded ones of M as soon as it can.
LetGo(s, M) ==
    /\ UNCHANGED config
    /\ svc' = [svc EXCEPT ![s].expiring = @ \cup (M \cap svc[s].loaded)]
    /\ asked' = [asked EXCEPT ![s] = @ \cup M]
    /\ away' = [away EXCEPT ![s] = @ \cup (M \ svc[s].loaded)]
-----------------------------------------------------------------------------
(* Ollama: list, one unload per model, then poll until none is listed.     *)

OllamaListed(s) ==
    /\ Kind(s) = "ollama" /\ act[s].step = "list"
    /\ LET found == [act[s] EXCEPT !.listed = svc[s].loaded, !.todo = svc[s].loaded]
       IN  Becomes(s, IF svc[s].loaded = {} THEN Returns(act[s], "none")
                      ELSE AskFor(found, "unload", Timeout(s)))
    /\ UNCHANGED <<config, svc, asked, away>>

\* Mutant of OllamaUnloaded: the loop does not move on.
OllamaUnloadedAgain(s, m) ==
    /\ act[s].step = "unload" /\ m \in act[s].todo
    /\ LetGo(s, {m})
    /\ Becomes(s, AskFor([act[s] EXCEPT !.targets = @ \cup {m}, !.acted = TRUE],
                         "unload", Timeout(s)))

\* Mutant of OllamaUnloaded: the last 200 is taken for the release.
OllamaUnloadedUndrained(s, m) ==
    /\ act[s].step = "unload" /\ m \in act[s].todo
    /\ LetGo(s, {m})
    /\ LET rest == [act[s] EXCEPT !.todo = @ \ {m}, !.targets = @ \cup {m}, !.acted = TRUE]
       IN  Becomes(s, IF rest.todo # {} THEN AskFor(rest, "unload", Timeout(s))
                      ELSE Returns(rest, "none"))

\* An unload is confirmed: on to the next one, or to the drain.
OllamaUnloaded(s, m) ==
    /\ act[s].step = "unload" /\ m \in act[s].todo
    /\ LetGo(s, {m})
    /\ LET rest == [act[s] EXCEPT !.todo = @ \ {m}, !.targets = @ \cup {m}, !.acted = TRUE]
       IN  Becomes(s, IF rest.todo # {} THEN AskFor(rest, "unload", Timeout(s))
                      ELSE AskFor(rest, "poll", Timeout(s)))

\* The unload is carried out and its answer lost.
OllamaUnloadLost(s, m) ==
    /\ act[s].step = "unload" /\ m \in act[s].todo
    /\ LetGo(s, {m})
    /\ Becomes(s, Returns(act[s], "failed"))

\* Mutant of OllamaPolled: the deadline is renewed by every poll.
OllamaPolledAfresh(s) ==
    /\ act[s].step = "poll"
    /\ Becomes(s, IF act[s].targets \cap svc[s].loaded = {} THEN Returns(act[s], "none")
                  ELSE IF act[s].drained > Drain(s)
                       THEN Returns([act[s] EXCEPT !.acted = FALSE], "still loaded")
                       ELSE AskFor([act[s] EXCEPT !.drained = 0], "poll", Timeout(s)))
    /\ UNCHANGED <<config, svc, asked, away>>

\* Every 250 ms, which is no time here; the deadline is looked at after a poll.
OllamaPolled(s) ==
    /\ act[s].step = "poll"
    /\ Becomes(s, IF act[s].targets \cap svc[s].loaded = {} THEN Returns(act[s], "none")
                  ELSE IF act[s].drained > Drain(s)
                       THEN Returns([act[s] EXCEPT !.acted = FALSE], "still loaded")
                       ELSE AskFor(act[s], "poll", Timeout(s)))
    /\ UNCHANGED <<config, svc, asked, away>>
-----------------------------------------------------------------------------
(* ComfyUI: free only when idle, both requests within one timeout.         *)

ComfyChecked(s) ==
    /\ act[s].step = "check"
    /\ Becomes(s, IF svc[s].busy # {} THEN Returns(act[s], "none")
                  ELSE AskFor(act[s], "free", Timeout(s) - act[s].age))
    /\ UNCHANGED <<config, svc, asked, away>>

\* A 200 says that flags are set, nothing more; it may be lost.
ComfyFreed(s) ==
    /\ act[s].step = "free"
    /\ LetGo(s, svc[s].loaded)
    /\ \/ Becomes(s, Returns([act[s] EXCEPT !.acted = TRUE], "none"))
       \/ Becomes(s, Returns(act[s], "failed"))
-----------------------------------------------------------------------------
(* llama-swap: list, then one request that is answered when all are gone.  *)
(* systemctl stop is answered in the same way.                             *)

LlamaListed(s) ==
    /\ Kind(s) = "llama-swap" /\ act[s].step = "list"
    /\ Becomes(s, IF svc[s].loaded = {} THEN Returns(act[s], "none")
                  ELSE AskFor([act[s] EXCEPT !.listed = svc[s].loaded], "unloadAll", UnloadTimeout))
    /\ UNCHANGED <<config, svc, asked, away>>

Blocking(s) == act[s].step \in {"unloadAll", "stop"}

\* The request reaches the service, which begins.
BlockingArrives(s) ==
    /\ Blocking(s) /\ asked[s] = {}
    /\ LetGo(s, svc[s].loaded \cup act[s].listed)
    /\ UNCHANGED act

BlockingDone(s) ==
    /\ Blocking(s) /\ asked[s] \subseteq away[s]
    /\ asked[s] # {} \/ (act[s].step = "stop" /\ svc[s].loaded = {})
    /\ Becomes(s, Returns([act[s] EXCEPT !.acted = TRUE,
                              !.targets = IF Kind(s) = "llama-swap" THEN act[s].listed ELSE asked[s]],
                          "none"))
    /\ UNCHANGED <<config, svc, asked, away>>
-----------------------------------------------------------------------------
(* Any request may fail, and fails when its time is up.                    *)

\* Mutant of RequestFails: a failed call is logged and the result returned.
RequestFailsSilently(s) ==
    /\ Running(s) /\ act[s].left > 0
    /\ Becomes(s, Returns(act[s], "none"))
    /\ UNCHANGED <<config, svc, asked, away>>

RequestFails(s) ==
    /\ Running(s) /\ act[s].left > 0
    /\ Becomes(s, Returns(act[s], "failed"))
    /\ UNCHANGED <<config, svc, asked, away>>

RequestTimesOut(s) ==
    /\ Running(s) /\ act[s].left = 0
    /\ Becomes(s, Returns(act[s], "timeout"))
    /\ UNCHANGED <<config, svc, asked, away>>
-----------------------------------------------------------------------------
(* The services and their users.                                           *)

\* Work arrives for m, which is loaded for it.  For Ollama it may call off a
\* pending unload; what llama-swap and systemd are ending takes no work.
Use(s, m) ==
    /\ m \notin svc[s].busy
    /\ Kind(s) \in {"llama-swap", "systemd-unit"} => m \notin svc[s].expiring
    /\ \E expiring \in {svc[s].expiring} \cup
                        (IF Kind(s) = "ollama" THEN {svc[s].expiring \ {m}} ELSE {}) :
         svc' = [svc EXCEPT ![s] = [loaded |-> @.loaded \cup {m}, busy |-> @.busy \cup {m},
                                    expiring |-> expiring]]
    /\ UNCHANGED <<config, act, asked, away>>

Rest(s, m) ==
    /\ m \in svc[s].busy
    /\ svc' = [svc EXCEPT ![s].busy = @ \ {m}]
    /\ UNCHANGED <<config, act, asked, away>>

\* Ollama and ComfyUI let go only of what is not at work; llama-swap and systemd
\* end the work.
Goes(s, m) ==
    /\ m \in svc[s].expiring
    /\ m \in svc[s].busy => Kind(s) \in {"llama-swap", "systemd-unit"}
    /\ svc' = [svc EXCEPT ![s] = [loaded |-> @.loaded \ {m}, busy |-> @.busy \ {m},
                                  expiring |-> @.expiring \ {m}]]
    /\ away' = [away EXCEPT ![s] = @ \cup ({m} \cap asked[s])]
    /\ UNCHANGED <<config, act, asked>>

\* Time passes for whatever is running, until a request's time is up.
InTime == \A s \in Services : Running(s) => act[s].left > 0

Older(a) == IF a.step \in Requests
            THEN [a EXCEPT !.left = @ - 1, !.age = @ + 1,
                           !.drained = IF a.step = "poll" THEN @ + 1 ELSE @]
            ELSE a

Tick ==
    /\ InTime /\ \E s \in Services : Running(s)
    /\ act' = [s \in Services |-> Older(act[s])]
    /\ UNCHANGED <<config, svc, asked, away>>
-----------------------------------------------------------------------------
Adapter(s) ==
    \/ OllamaListed(s) \/ OllamaPolled(s)
    \/ \E m \in Models : OllamaUnloaded(s, m) \/ OllamaUnloadLost(s, m)
    \/ ComfyChecked(s) \/ ComfyFreed(s)
    \/ LlamaListed(s) \/ BlockingArrives(s) \/ BlockingDone(s)
    \/ RequestFails(s) \/ RequestTimesOut(s)

Service(s) == \E m \in Models : Use(s, m) \/ Rest(s, m) \/ Goes(s, m)

AdaptersNext ==
    \/ \E s \in Services : Begin(s) \/ Adapter(s) \/ Service(s)
    \/ Tick

AdaptersSpec == AdaptersInit /\ [][AdaptersNext]_adapterVars
-----------------------------------------------------------------------------
(* Properties.                                                             *)

\* An action that reports that it acted, and no error, names only what has been
\* gone since it was asked to go: for Ollama all of it at the same last poll.
\* (Not ComfyUI, whose 200 promises nothing, comfyui.go:208-216.)
DoneMeansGone ==
    \A s \in Services :
        Over(s) /\ act[s].acted /\ act[s].error = "none" /\ Kind(s) # "comfyui"
            => act[s].targets \subseteq away[s]

\* An Ollama release of several models that fails part of the way names every
\* model it made go, but for the one the failure is about, and one that reports
\* no failure has asked every model it found.
PartialReleaseIsNotTotal ==
    \A s \in Services : Over(s) /\ Kind(s) = "ollama" =>
        /\ Cardinality(asked[s] \ act[s].targets) <= 1
        /\ asked[s] \subseteq act[s].listed
        /\ asked[s] # act[s].targets => act[s].error # "none"
        /\ act[s].error = "none" => asked[s] = act[s].listed

\* Only a stop that the config allows ever reaches a unit, and nothing else ends
\* work that a service is doing, except a llama-swap unload, which is documented to.
WorkIsEndedOnlyByLeave ==
    [][\A s \in Services, m \in Models :
        m \in svc[s].busy /\ m \in svc[s].expiring /\ m \notin svc[s].loaded'
            => Kind(s) = "llama-swap" \/ AllowStop(s)]_adapterVars

\* The longest an action on s can run: what its own limits add up to, with n
\* models found.  Ollama drains for at most Drain after its last unload, and then
\* waits out one poll.
Longest(s, n) ==
    CASE Kind(s) = "ollama"       -> (n + 2) * Timeout(s) + Drain(s)
      [] Kind(s) = "comfyui"      -> Timeout(s)
      [] Kind(s) = "llama-swap"   -> Timeout(s) + UnloadTimeout
      [] Kind(s) = "systemd-unit" -> StopTimeout

\* No action runs longer than its limits add up to, however its service behaves.
ActionsEndInTime ==
    \A s \in Services : Running(s) => act[s].age <= Longest(s, Cardinality(act[s].listed))
=============================================================================
