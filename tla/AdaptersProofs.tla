--------------------------- MODULE AdaptersProofs ---------------------------
(***************************************************************************)
(* What an action's result may claim, whose work it may end and how long   *)
(* it may run, for any services, models and limits: the inductive          *)
(* invariant of Adapters and what follows from it.  Then what the waits of *)
(* a client and the budget of a connection are worth (Exchange), which     *)
(* rests on how long an action may run.                                    *)
(***************************************************************************)
EXTENDS Exchange, FiniteSetTheorems, TLAPS

Loads == [loaded : SUBSET Models, busy : SUBSET Models, expiring : SUBSET Models]

Errors == {"none", "failed", "timeout", "still loaded", "not permitted"}

Actions == [step : Requests \cup {"idle", "over"},
            left : Nat, age : Nat, drained : Nat,
            listed : SUBSET Models, todo : SUBSET Models, targets : SUBSET Models,
            acted : BOOLEAN, error : Errors]

\* Each request is made by its own adapter, and a stop only where it is allowed.
RequestFits(s) ==
    /\ act[s].step = "list" => Kind(s) \in {"ollama", "llama-swap"}
    /\ act[s].step \in {"unload", "poll"} => Kind(s) = "ollama"
    /\ act[s].step \in {"check", "free"} => Kind(s) = "comfyui"
    /\ act[s].step = "unloadAll" => Kind(s) = "llama-swap"
    /\ act[s].step = "stop" => Kind(s) = "systemd-unit" /\ AllowStop(s)

\* What an action has in hand at each request: nothing before the list; then what
\* is named is what was asked, and with what is to do it is the list.
HandIsKept(s) ==
    /\ act[s].step = "list" =>
         asked[s] = {} /\ act[s].targets = {} /\ act[s].todo = {} /\ act[s].listed = {}
    /\ act[s].step = "unload" =>
         /\ asked[s] = act[s].targets
         /\ act[s].listed = act[s].targets \cup act[s].todo
         /\ act[s].targets \cap act[s].todo = {}
    /\ act[s].step = "poll" => asked[s] = act[s].targets /\ asked[s] = act[s].listed
    /\ act[s].step = "unloadAll" /\ asked[s] # {} => act[s].listed \subseteq asked[s]

\* What it leaves when it is over.
ResultIsTrue(s) ==
    Over(s) =>
        /\ Kind(s) = "ollama" =>
             /\ \E m : asked[s] \ act[s].targets \subseteq {m}
             /\ asked[s] \subseteq act[s].listed
             /\ asked[s] # act[s].targets => act[s].error # "none"
             /\ act[s].error = "none" => asked[s] = act[s].listed
        /\ act[s].error = "none" /\ Kind(s) # "comfyui" => act[s].targets \subseteq away[s]

\* What was asked to go and has not been gone since is still there.
AskedIsThereOrAway(s) == asked[s] \ away[s] \subseteq svc[s].loaded

\* A unit that may not be stopped is not being stopped.
ForbiddenIsUntouched(s) ==
    Kind(s) = "systemd-unit" /\ ~AllowStop(s) => svc[s].expiring = {}

\* How long the action has run and still may, at each request.  For Ollama every
\* model that is still to do has a request to come, and every poll after the drain
\* began counts against the drain, but for the last.
InLimits(s) ==
    LET a == act[s]
        patience == Timeout(s)
        steps == Cardinality(a.listed) + 2
    IN  /\ a.step = "list" => a.age + a.left <= patience
        /\ a.step = "unload" =>
             a.age + a.left + Cardinality(a.todo) * patience <= steps * patience
        /\ a.step # "poll" => a.drained = 0
        /\ a.step = "poll" =>
             /\ a.age + patience <= steps * patience + a.drained
             /\ a.drained + a.left <= Drain(s) + patience
        /\ a.step = "check" => a.age + a.left <= Timeout(s)
        /\ a.step = "free" => a.age + a.left <= Timeout(s)
        /\ a.step = "unloadAll" => a.age + a.left <= patience + UnloadTimeout
        /\ a.step = "stop" => a.age + a.left <= StopTimeout

Book(s) ==
    /\ RequestFits(s)
    /\ HandIsKept(s)
    /\ ResultIsTrue(s)
    /\ AskedIsThereOrAway(s)
    /\ ForbiddenIsUntouched(s)

AdaptersInv ==
    /\ AdaptersTypeOK
    /\ \A s \in Services : Book(s) /\ InLimits(s)

\* What may happen to the actions, whoever drives them: some start together, one of
\* them or its service takes a step, or time passes for all of them.
Starts(S) == (\A s \in S : ~Running(s)) /\ BeginAll(S) /\ UNCHANGED <<config, svc>>

Passes ==
    /\ InTime
    /\ act' = [s \in Services |-> Older(act[s])]
    /\ UNCHANGED <<config, svc, asked, away>>

Moves ==
    \/ \E S \in SUBSET Services : Starts(S)
    \/ \E s \in Services : Adapter(s) \/ Service(s)
    \/ Passes
    \/ UNCHANGED adapterVars

\* The exchange.  What has gone by of the client's second wait:
Spent == WaitFor(longestAction(conn.plan)) - client.left

ExchangeTypes ==
    /\ client.state \in {"idle", "first", "second", "done", "cut", "unanswered", "late"}
    /\ conn.state \in {"none", "observing", "acting", "closed"}
    /\ client.left \in Nat /\ conn.budget \in Nat /\ conn.observed \in Nat
    /\ conn.plan \in SUBSET Services

\* While the daemon observes nothing runs, its budget has paid for the observation
\* only, and the client's first wait runs with it.
Observing ==
    /\ client.state = "idle" => conn.state = "none"
    /\ conn.state \in {"none", "observing"} => \A s \in Services : ~Running(s)
    /\ conn.state = "observing" =>
         conn.budget + conn.observed >= connBudget /\ conn.observed <= ObserveTime
    /\ client.state = "first" => conn.state = "observing" /\ client.left + conn.observed = PlanWait

\* While the client waits for results, every action of the plan that still runs is
\* as old as the wait, and the budget has paid for the observation and the wait.
Acting ==
    client.state = "second" =>
        /\ conn.state = "acting" /\ conn.plan # {}
        /\ Spent \in Nat
        /\ \A s \in conn.plan : Running(s) => act[s].age = Spent
        /\ \E s \in conn.plan : Spent <= Longest(s, Cardinality(Models))
        /\ conn.budget + conn.observed + Spent >= connBudget

SlowServicePlanned ==
    \E s \in conn.plan : \A t \in conn.plan :
        Longest(s, Cardinality(Models)) >= actionBound(t) + ClientSlack

\* How it ends for a client that is not answered.
Endings ==
    /\ client.state = "unanswered" => ObserveTime >= PlanWait
    /\ client.state = "late" => conn.state \in {"acting", "closed"} /\ SlowServicePlanned
    /\ client.state = "cut" => conn.state = "closed" /\ conn.observed >= Minute

ExchangeInv ==
    /\ AdaptersInv
    /\ ExchangeTypes
    /\ Observing
    /\ Acting
    /\ Endings
-----------------------------------------------------------------------------
(* The operators.                                                          *)

\* Every service has a configuration.
LEMMA ConfigTypes ==
    ASSUME AdaptersTypeOK, NEW s \in Services
    PROVE  Kind(s) \in Adapters /\ Timeout(s) \in Nat /\ Drain(s) \in Nat /\ AllowStop(s) \in BOOLEAN
<1>1. config[s] \in ServiceConfig
  BY AdaptersAssumption DEF AdaptersTypeOK
<1> QED
  BY <1>1, Zenon DEF ServiceConfig, Kind, Timeout, Drain, AllowStop

\* The next request and the end are stages of an action.
LEMMA AskForType ==
    ASSUME NEW a \in Actions, NEW step \in Requests, NEW limit \in Nat
    PROVE  LET r == AskFor(a, step, limit)
           IN  /\ r \in Actions
               /\ r.step = step /\ r.left = limit
               /\ r.listed = a.listed /\ r.todo = a.todo /\ r.targets = a.targets
               /\ r.age = a.age /\ r.drained = a.drained
<1>1. [a EXCEPT !.step = step] \in Actions
  BY DEF Actions
<1> QED
  BY <1>1 DEF AskFor, Actions

LEMMA ReturnsType ==
    ASSUME NEW a \in Actions, NEW error \in Errors
    PROVE  LET r == Returns(a, error)
           IN  /\ r \in Actions
               /\ r.step = "over" /\ r.error = error /\ r.todo = {}
               /\ r.listed = a.listed /\ r.targets = a.targets
               /\ r.drained = 0
BY DEF Returns, Actions

\* The same of whatever such a stage is the value of.
LEMMA AskForGives ==
    ASSUME NEW a \in Actions, NEW step, NEW limit, NEW r, r = AskFor(a, step, limit)
    PROVE  /\ r.step = step /\ r.left = limit
           /\ r.listed = a.listed /\ r.todo = a.todo /\ r.targets = a.targets
           /\ r.age = a.age /\ r.drained = a.drained
BY DEF AskFor, Actions

LEMMA ReturnsGives ==
    ASSUME NEW a \in Actions, NEW error, NEW r, r = Returns(a, error)
    PROVE  /\ r.step = "over" /\ r.error = error /\ r.todo = {}
           /\ r.listed = a.listed /\ r.targets = a.targets
           /\ r.drained = 0
BY DEF Returns, Actions

LEMMA IdleType == Idle \in Actions
BY DEF Idle, Actions, Errors
\* What the first request is.
LEMMA FirstRequests ==
    ASSUME AdaptersTypeOK, NEW s \in Services
    PROVE  \/ Kind(s) \in {"ollama", "llama-swap"} /\ FirstRequest(s) = AskFor(Idle, "list", Timeout(s))
           \/ Kind(s) = "comfyui" /\ FirstRequest(s) = AskFor(Idle, "check", Timeout(s))
           \/ /\ Kind(s) = "systemd-unit" /\ AllowStop(s)
              /\ FirstRequest(s) = [Idle EXCEPT !.step = "stop", !.left = StopTimeout]
           \/ /\ Kind(s) = "systemd-unit" /\ ~AllowStop(s)
              /\ FirstRequest(s) = Returns(Idle, "not permitted")
BY ConfigTypes DEF FirstRequest, Adapters, AskFor

LEMMA FirstRequestType ==
    ASSUME AdaptersTypeOK, NEW s \in Services
    PROVE  FirstRequest(s) \in Actions
<1>1. AskFor(Idle, "list", Timeout(s)) \in Actions /\ AskFor(Idle, "check", Timeout(s)) \in Actions
  BY IdleType, AskForType, ConfigTypes DEF Requests
<1>2. Returns(Idle, "not permitted") \in Actions
  BY IdleType, ReturnsType DEF Errors
<1>3. [Idle EXCEPT !.step = "stop", !.left = StopTimeout] \in Actions
  BY DEF Idle, Actions, Requests, Errors, StopTimeout
<1> QED
  BY <1>1, <1>2, <1>3, FirstRequests
-----------------------------------------------------------------------------
(* Types are kept.                                                         *)

\* One action moves on, and its service and history with it.
LEMMA MovesOnType ==
    ASSUME AdaptersTypeOK, NEW s \in Services, NEW a \in Actions, a.todo \cap a.targets = {},
           Becomes(s, a)
    PROVE  act' \in [Services -> Actions] /\ \A t \in Services : act'[t].todo \cap act'[t].targets = {}
BY DEF AdaptersTypeOK, Becomes, Actions, Errors

LEMMA LetGoType ==
    ASSUME AdaptersTypeOK, NEW s \in Services, NEW M \in SUBSET Models, LetGo(s, M)
    PROVE  /\ config' \in Configs
           /\ svc' \in [Services -> Loads]
           /\ \A t \in Services : svc'[t].busy \cup svc'[t].expiring \subseteq svc'[t].loaded
           /\ asked' \in [Services -> SUBSET Models]
           /\ away' \in [Services -> SUBSET Models]
<1>1. svc[s] \in Loads /\ asked[s] \in SUBSET Models /\ away[s] \in SUBSET Models
  BY DEF AdaptersTypeOK, Loads
<1>2. [svc[s] EXCEPT !.expiring = @ \cup (M \cap svc[s].loaded)] \in Loads
  BY <1>1 DEF Loads
<1>3. svc' \in [Services -> Loads]
  BY <1>2 DEF AdaptersTypeOK, LetGo, Loads
<1>4. \A t \in Services : svc'[t].busy \cup svc'[t].expiring \subseteq svc'[t].loaded
  BY <1>1 DEF AdaptersTypeOK, LetGo, Loads
<1> QED
  BY <1>1, <1>3, <1>4 DEF AdaptersTypeOK, LetGo

\* The invariant says enough of a running action for its next stage to have its type.
LEMMA TypesAreKept ==
    ASSUME AdaptersInv, Moves
    PROVE  AdaptersTypeOK'
<1> USE DEF AdaptersInv
<1> DEFINE Acts == act' \in [Services -> Actions] /\ \A t \in Services : act'[t].todo \cap act'[t].targets = {}
           Others == /\ config' \in Configs
                     /\ svc' \in [Services -> Loads]
                     /\ \A t \in Services : svc'[t].busy \cup svc'[t].expiring \subseteq svc'[t].loaded
                     /\ asked' \in [Services -> SUBSET Models]
                     /\ away' \in [Services -> SUBSET Models]
<1>0. Acts /\ Others => AdaptersTypeOK'
  BY DEF AdaptersTypeOK, Actions, Errors, Loads
<1>a. ASSUME UNCHANGED <<config, svc, asked, away>> PROVE Others
  <2>1. /\ config \in Configs /\ svc \in [Services -> Loads]
        /\ asked \in [Services -> SUBSET Models] /\ away \in [Services -> SUBSET Models]
    BY DEF AdaptersTypeOK, Loads
  <2>2. \A t \in Services : svc[t].busy \cup svc[t].expiring \subseteq svc[t].loaded
    BY DEF AdaptersTypeOK
  <2> QED
    BY <1>a, <2>1, <2>2
<1>b. ASSUME UNCHANGED act PROVE Acts
  BY <1>b DEF AdaptersTypeOK, Actions, Errors
<1>c. \A s \in Services : act[s] \in Actions /\ act[s].todo \cap act[s].targets = {}
                          /\ svc[s].loaded \in SUBSET Models
                          /\ Timeout(s) \in Nat /\ Drain(s) \in Nat
  BY ConfigTypes DEF AdaptersTypeOK, Actions, Errors
<1>d. \A s \in Services : act[s].todo \in SUBSET Models /\ act[s].targets \in SUBSET Models
                          /\ act[s].listed \in SUBSET Models
                          /\ act[s].left \in Nat /\ act[s].age \in Nat /\ act[s].drained \in Nat
  BY <1>c DEF Actions
<1>r. ASSUME NEW s \in Services, NEW error \in Errors
      PROVE  Returns(act[s], error) \in Actions /\ Returns(act[s], error).todo = {}
  <2>1. act[s] \in Actions
    BY <1>c
  <2> QED
    BY <2>1, ReturnsType
<1>e. \A s \in Services, error \in Errors : Becomes(s, Returns(act[s], error)) => Acts
  BY <1>r, MovesOnType
<1> HIDE DEF Acts, Others, AdaptersInv
<1>1. ASSUME NEW S \in SUBSET Services, Starts(S) PROVE AdaptersTypeOK'
  <2>1. ASSUME NEW s \in Services
        PROVE  FirstRequest(s) \in Actions /\ FirstRequest(s).todo \cap FirstRequest(s).targets = {}
    BY FirstRequestType, FirstRequests DEF AdaptersInv, AskFor, Idle, Returns
  <2>2. Acts
    BY <1>1, <2>1, <1>c DEF Starts, BeginAll, Acts
  <2>3. Others
    BY <1>1 DEF Starts, BeginAll, Others, AdaptersInv, AdaptersTypeOK, Loads
  <2> QED
    BY <2>2, <2>3, <1>0
<1>2. ASSUME NEW s \in Services, OllamaListed(s) PROVE AdaptersTypeOK'
  <2> DEFINE found == [act[s] EXCEPT !.listed = svc[s].loaded, !.todo = svc[s].loaded]
  <2>1. found \in Actions /\ found.targets = {}
    BY <1>2, <1>c DEF Actions, OllamaListed, AdaptersInv, Book, HandIsKept
  <2>2. AskFor(found, "unload", Timeout(s)) \in Actions
    BY <2>1, <1>c, AskForType DEF Requests
  <2>3. AskFor(found, "unload", Timeout(s)).targets = {}
    BY <2>1 DEF AskFor, Actions
  <2>4. Becomes(s, Returns(act[s], "none")) \/ Becomes(s, AskFor(found, "unload", Timeout(s)))
    BY <1>2 DEF OllamaListed
  <2>5. Acts
    BY <2>2, <2>3, <2>4, <1>e, MovesOnType DEF Acts, AdaptersInv, Errors
  <2> QED
    BY <1>2, <2>5, <1>0, <1>a DEF OllamaListed
<1>3. ASSUME NEW s \in Services, NEW m \in Models, OllamaUnloaded(s, m) PROVE AdaptersTypeOK'
  <2> DEFINE rest == [act[s] EXCEPT !.todo = @ \ {m}, !.targets = @ \cup {m}, !.acted = TRUE]
  <2>1. rest \in Actions /\ rest.todo \cap rest.targets = {}
    BY <1>c DEF Actions
  <2>2. \A step \in Requests : /\ AskFor(rest, step, Timeout(s)) \in Actions
                               /\ AskFor(rest, step, Timeout(s)).todo = rest.todo
                               /\ AskFor(rest, step, Timeout(s)).targets = rest.targets
    <3>1. Timeout(s) \in Nat
      BY <1>c
    <3> HIDE DEF rest
    <3> QED
      BY <2>1, <3>1, AskForType
  <2>3. Becomes(s, AskFor(rest, "unload", Timeout(s))) \/ Becomes(s, AskFor(rest, "poll", Timeout(s)))
    BY <1>3 DEF OllamaUnloaded
  <2> HIDE DEF rest
  <2>4. Acts
    BY <2>1, <2>2, <2>3, MovesOnType DEF Acts, AdaptersInv, Requests
  <2>5. Others
    BY <1>3, LetGoType DEF OllamaUnloaded, Others, AdaptersInv
  <2> QED
    BY <2>4, <2>5, <1>0
<1>4. ASSUME NEW s \in Services, NEW m \in Models, OllamaUnloadLost(s, m) PROVE AdaptersTypeOK'
  <2>1. Others
    BY <1>4, LetGoType DEF OllamaUnloadLost, Others, AdaptersInv
  <2> QED
    BY <1>4, <2>1, <1>e, <1>0 DEF OllamaUnloadLost, Errors
<1>5. ASSUME NEW s \in Services, OllamaPolled(s) PROVE AdaptersTypeOK'
  <2> DEFINE late == [act[s] EXCEPT !.acted = FALSE]
  <2>1. late \in Actions
    BY <1>c DEF Actions
  <2>2. Returns(late, "still loaded") \in Actions /\ Returns(late, "still loaded").todo = {}
    BY <2>1, ReturnsType DEF Errors
  <2>3. AskFor(act[s], "poll", Timeout(s)) \in Actions
        /\ AskFor(act[s], "poll", Timeout(s)).todo = act[s].todo
        /\ AskFor(act[s], "poll", Timeout(s)).targets = act[s].targets
    <3>1. act[s] \in Actions /\ Timeout(s) \in Nat /\ "poll" \in Requests
      BY <1>c DEF Requests
    <3> QED
      BY <3>1, AskForType
  <2>4. \/ Becomes(s, Returns(act[s], "none"))
        \/ Becomes(s, Returns(late, "still loaded"))
        \/ Becomes(s, AskFor(act[s], "poll", Timeout(s)))
    BY <1>5 DEF OllamaPolled
  <2> HIDE DEF late
  <2>5. Acts
    BY <2>2, <2>3, <2>4, <1>c, <1>e, MovesOnType DEF Acts, AdaptersInv, Errors
  <2> QED
    BY <1>5, <2>5, <1>0, <1>a DEF OllamaPolled
<1>6. ASSUME NEW s \in Services, ComfyChecked(s) PROVE AdaptersTypeOK'
  <2> DEFINE left == Timeout(s) - act[s].age
             asks == AskFor(act[s], "free", left)
  <2>1. act[s].age + act[s].left <= Timeout(s)
    BY <1>6, <1>c DEF ComfyChecked, AdaptersInv, InLimits
  <2>2. left \in Nat
    BY <2>1, <1>c, <1>d
  <2> HIDE DEF left
  <2>3. asks \in Actions /\ asks.todo = act[s].todo /\ asks.targets = act[s].targets
    <3>1. act[s] \in Actions /\ "free" \in Requests
      BY <1>c DEF Requests
    <3> QED
      BY <3>1, <2>2, AskForType
  <2>4. Becomes(s, Returns(act[s], "none")) \/ Becomes(s, asks)
    BY <1>6 DEF ComfyChecked, left
  <2> HIDE DEF asks
  <2>5. Acts
    BY <2>3, <2>4, <1>c, <1>e, MovesOnType DEF Acts, AdaptersInv, Errors
  <2> QED
    BY <1>6, <2>5, <1>0, <1>a DEF ComfyChecked
<1>7. ASSUME NEW s \in Services, ComfyFreed(s) PROVE AdaptersTypeOK'
  <2> DEFINE done == [act[s] EXCEPT !.acted = TRUE]
  <2>1. Returns(done, "none") \in Actions /\ Returns(done, "none").todo = {}
    <3>1. done \in Actions
      BY <1>c DEF Actions
    <3> QED
      BY <3>1, ReturnsType DEF Errors
  <2>2. Becomes(s, Returns(done, "none")) \/ Becomes(s, Returns(act[s], "failed"))
    BY <1>7 DEF ComfyFreed
  <2> HIDE DEF done
  <2>3. Acts
    BY <2>1, <2>2, <1>e, MovesOnType DEF Acts, AdaptersInv, Errors
  <2>4. Others
    BY <1>7, <1>c, LetGoType DEF ComfyFreed, Others, AdaptersInv
  <2> QED
    BY <2>3, <2>4, <1>0
<1>8. ASSUME NEW s \in Services, LlamaListed(s) PROVE AdaptersTypeOK'
  <2> DEFINE found == [act[s] EXCEPT !.listed = svc[s].loaded]
             asks == AskFor(found, "unloadAll", UnloadTimeout)
  <2>1. found \in Actions
    BY <1>c DEF Actions
  <2>2. asks \in Actions /\ asks.todo = act[s].todo /\ asks.targets = act[s].targets
    <3>1. found.todo = act[s].todo /\ found.targets = act[s].targets
      BY <1>c DEF Actions
    <3> HIDE DEF found
    <3> QED
      BY <2>1, <3>1, AskForType DEF Requests, UnloadTimeout
  <2>3. Becomes(s, Returns(act[s], "none")) \/ Becomes(s, asks)
    BY <1>8 DEF LlamaListed
  <2> HIDE DEF asks
  <2>4. Acts
    BY <2>2, <2>3, <1>c, <1>e, MovesOnType DEF Acts, AdaptersInv, Errors
  <2> QED
    BY <1>8, <2>4, <1>0, <1>a DEF LlamaListed
<1>9. ASSUME NEW s \in Services, BlockingArrives(s) PROVE AdaptersTypeOK'
  <2>1. Others
    BY <1>9, <1>c, <1>d, LetGoType DEF BlockingArrives, Others, AdaptersInv
  <2> QED
    BY <1>9, <2>1, <1>0, <1>b DEF BlockingArrives
<1>10. ASSUME NEW s \in Services, BlockingDone(s) PROVE AdaptersTypeOK'
  <2> DEFINE names == IF Kind(s) = "llama-swap" THEN act[s].listed ELSE asked[s]
             done == [act[s] EXCEPT !.acted = TRUE, !.targets = names]
  <2>1. names \in SUBSET Models
    BY <1>d DEF AdaptersInv, AdaptersTypeOK
  <2>2. Becomes(s, Returns(done, "none"))
    BY <1>10 DEF BlockingDone
  <2> HIDE DEF names
  <2>3. done \in Actions
    BY <2>1, <1>c DEF Actions
  <2> HIDE DEF done
  <2>4. Returns(done, "none") \in Actions /\ Returns(done, "none").todo = {}
    BY <2>3, ReturnsType DEF Errors
  <2>5. Acts
    BY <2>2, <2>4, MovesOnType DEF Acts, AdaptersInv
  <2> QED
    BY <1>10, <2>5, <1>0, <1>a DEF BlockingDone
<1>11. ASSUME NEW s \in Services, RequestFails(s) \/ RequestTimesOut(s) PROVE AdaptersTypeOK'
  BY <1>11, <1>0, <1>a, <1>e DEF RequestFails, RequestTimesOut, Errors
<1>12. ASSUME NEW s \in Services, Service(s) PROVE AdaptersTypeOK'
  <2> DEFINE Fits(v) == v \in Loads /\ v.busy \cup v.expiring \subseteq v.loaded
  <2>1. PICK m \in Models : Use(s, m) \/ Rest(s, m) \/ Goes(s, m)
    BY <1>12 DEF Service
  <2>2. svc \in [Services -> Loads] /\ Fits(svc[s])
    BY DEF AdaptersInv, AdaptersTypeOK, Loads
  <2>3. ASSUME NEW v, Fits(v), svc' = [svc EXCEPT ![s] = v], UNCHANGED <<config, asked>>,
               away' \in [Services -> SUBSET Models]
        PROVE Others
    BY <2>3, <2>2 DEF Others, AdaptersInv, AdaptersTypeOK
  <2>4. CASE Use(s, m)
    <3>1. PICK E \in SUBSET svc[s].expiring :
            svc' = [svc EXCEPT ![s] = [loaded |-> @.loaded \cup {m}, busy |-> @.busy \cup {m}, expiring |-> E]]
      BY <2>4 DEF Use
    <3>2. Fits([loaded |-> svc[s].loaded \cup {m}, busy |-> svc[s].busy \cup {m}, expiring |-> E])
      BY <2>2 DEF Loads
    <3>3. Others
      BY <2>3, <2>4, <3>1, <3>2 DEF Use, AdaptersInv, AdaptersTypeOK
    <3> QED
      BY <2>4, <3>3, <1>0, <1>b DEF Use
  <2>5. CASE Rest(s, m)
    <3>1. Fits([svc[s] EXCEPT !.busy = @ \ {m}])
      BY <2>2 DEF Loads
    <3>2. svc' = [svc EXCEPT ![s] = [svc[s] EXCEPT !.busy = @ \ {m}]]
      BY <2>5, <2>2 DEF Rest, Loads
    <3>3. Others
      BY <2>3, <2>5, <3>1, <3>2 DEF Rest, AdaptersInv, AdaptersTypeOK
    <3> QED
      BY <2>5, <3>3, <1>0, <1>b DEF Rest
  <2>6. CASE Goes(s, m)
    <3>1. Fits([loaded |-> svc[s].loaded \ {m}, busy |-> svc[s].busy \ {m}, expiring |-> svc[s].expiring \ {m}])
      BY <2>2 DEF Loads
    <3>2. Others
      BY <2>3, <2>6, <3>1 DEF Goes, AdaptersInv, AdaptersTypeOK
    <3> QED
      BY <2>6, <3>2, <1>0, <1>b DEF Goes
  <2> QED
    BY <2>1, <2>4, <2>5, <2>6
<1>13. ASSUME Passes PROVE AdaptersTypeOK'
  <2>1. ASSUME NEW s \in Services
        PROVE Older(act[s]) \in Actions /\ Older(act[s]).todo \cap Older(act[s]).targets = {}
    <3>1. CASE act[s].step \in Requests
      <4> DEFINE drained == IF act[s].step = "poll" THEN act[s].drained + 1 ELSE act[s].drained
      <4>1. act[s].left > 0
        BY <3>1, <1>13 DEF Passes, InTime, Running
      <4>2. act[s].left - 1 \in Nat /\ act[s].age + 1 \in Nat /\ drained \in Nat
        BY <4>1, <1>d
      <4>3. Older(act[s]) = [act[s] EXCEPT !.left = @ - 1, !.age = @ + 1, !.drained = drained]
        BY <3>1, <1>c DEF Older, Actions
      <4> HIDE DEF drained
      <4> QED
        BY <4>2, <4>3, <1>c DEF Actions
    <3> QED
      BY <3>1, <1>c DEF Older
  <2>2. Acts
    BY <1>13, <2>1 DEF Passes, Acts
  <2> QED
    BY <1>13, <2>2, <1>0, <1>a DEF Passes
<1>14. ASSUME UNCHANGED adapterVars PROVE AdaptersTypeOK'
  BY <1>14, <1>0, <1>a, <1>b DEF adapterVars
<1> QED
  BY <1>1, <1>2, <1>3, <1>4, <1>5, <1>6, <1>7, <1>8, <1>9, <1>10, <1>11, <1>12, <1>13, <1>14
  DEF Moves, Adapter
-----------------------------------------------------------------------------
(* Limits are kept.                                                        *)

\* A product grows by its factor: all the arithmetic of the limits that is not linear.
LEMMA OneMoreTime ==
    ASSUME NEW k \in Nat, NEW p \in Nat
    PROVE  (k + 1) * p = k * p + p /\ k * p \in Nat
OBVIOUS

\* Every action on a service but time's touches that service only.
LEMMA OneServiceMoves ==
    ASSUME AdaptersInv, NEW s \in Services, Adapter(s) \/ Service(s),
           NEW t \in Services, t # s
    PROVE  act'[t] = act[t] /\ svc'[t] = svc[t] /\ asked'[t] = asked[t] /\ away'[t] = away[t]
<1>1. /\ act \in [Services -> Actions] /\ svc \in [Services -> Loads]
      /\ asked \in [Services -> SUBSET Models] /\ away \in [Services -> SUBSET Models]
  BY DEF AdaptersInv, AdaptersTypeOK, Actions, Errors, Loads
<1>3. CASE Adapter(s)
  BY <1>1, <1>3 DEF Adapter, OllamaListed, OllamaPolled, OllamaUnloaded, OllamaUnloadLost, ComfyChecked,
                    ComfyFreed, LlamaListed, BlockingArrives, BlockingDone, RequestFails, RequestTimesOut,
                    LetGo, Becomes
<1>4. CASE Service(s)
  BY <1>1, <1>4 DEF Service, Use, Rest, Goes
<1> QED
  BY <1>3, <1>4

\* Services on which no action starts are left alone, the others begin afresh.
LEMMA StartsAreFresh ==
    ASSUME AdaptersInv, NEW S \in SUBSET Services, Starts(S), NEW t \in Services
    PROVE  /\ svc'[t] = svc[t]
           /\ t \notin S => act'[t] = act[t] /\ asked'[t] = asked[t] /\ away'[t] = away[t]
           /\ t \in S => act'[t] = FirstRequest(t) /\ asked'[t] = {} /\ away'[t] = {}
BY DEF Starts, BeginAll

\* The configuration is fixed.
LEMMA ConfigIsFixed ==
    ASSUME Moves
    PROVE  config' = config
BY DEF Moves, adapterVars, Starts, Adapter, OllamaListed, OllamaPolled, OllamaUnloaded, OllamaUnloadLost,
       ComfyChecked, ComfyFreed, LlamaListed, BlockingArrives, BlockingDone, RequestFails, RequestTimesOut,
       LetGo, Service, Use, Rest, Goes, Passes

\* What is left alone stays within its limits.
LEMMA UntouchedInLimits ==
    ASSUME NEW s \in Services, InLimits(s), config' = config, act'[s] = act[s]
    PROVE  InLimits(s)'
BY DEF InLimits, Timeout, Drain

\* So does what is over.
LEMMA OverInLimits ==
    ASSUME NEW s \in Services, act'[s].step \in {"over", "idle"}, act'[s].drained = 0
    PROVE  InLimits(s)'
BY DEF InLimits

LEMMA LimitsAreKept ==
    ASSUME AdaptersInv, Moves, NEW s \in Services
    PROVE  InLimits(s)'
<1> DEFINE was == act[s]
           is == act'[s]
           patience == Timeout(s)
           n == Cardinality(was.listed)
           k == Cardinality(was.todo)
<1>1. config' = config
  BY ConfigIsFixed
<1>2. /\ was \in Actions /\ act \in [Services -> Actions]
      /\ was.left \in Nat /\ was.age \in Nat /\ was.drained \in Nat
      /\ was.listed \in SUBSET Models /\ was.todo \in SUBSET Models
  BY DEF AdaptersInv, AdaptersTypeOK, Actions, Errors
<1>3. /\ Timeout(s) \in Nat /\ Drain(s) \in Nat
      /\ patience \in Nat
  BY ConfigTypes DEF AdaptersInv
<1>4. n \in Nat /\ k \in Nat /\ IsFiniteSet(was.todo)
  BY <1>2, AdaptersAssumption, FS_Subset, FS_CardinalityType
<1>5. InLimits(s) /\ Book(s)
  BY DEF AdaptersInv
<1>6. ASSUME NEW r \in Services, r # s, Adapter(r) \/ Service(r) PROVE InLimits(s)'
  BY <1>6, <1>1, <1>5, OneServiceMoves, UntouchedInLimits
<1>19. ASSUME NEW S \in SUBSET Services, Starts(S), s \notin S PROVE InLimits(s)'
  BY <1>19, <1>1, <1>5, StartsAreFresh, UntouchedInLimits
<1>7. ASSUME NEW error \in Errors, Becomes(s, Returns(was, error)) PROVE InLimits(s)'
  BY <1>7, <1>2, ReturnsGives, OverInLimits DEF Becomes
<1> HIDE DEF was, is, patience, n, k
<1>8. ASSUME NEW S \in SUBSET Services, Starts(S), s \in S PROVE InLimits(s)'
  <2>1. is = FirstRequest(s)
    BY <1>8, StartsAreFresh DEF is
  <2>2. CASE Kind(s) \in {"ollama", "llama-swap"} /\ FirstRequest(s) = AskFor(Idle, "list", Timeout(s))
    <3>1. is.step = "list" /\ is.left = patience /\ is.age = 0 /\ is.drained = 0
      BY <2>1, <2>2, <1>3, IdleType, AskForGives DEF Idle, patience
    <3> QED
      BY <3>1, <1>1, <1>3 DEF InLimits, Timeout, Drain, is, patience
  <2>3. CASE Kind(s) = "comfyui" /\ FirstRequest(s) = AskFor(Idle, "check", Timeout(s))
    <3>1. is.step = "check" /\ is.left = patience /\ is.age = 0 /\ is.drained = 0
      BY <2>1, <2>3, <1>3, IdleType, AskForGives DEF Idle, patience
    <3> QED
      BY <3>1, <1>1, <1>3 DEF InLimits, Timeout, Drain, is, patience
  <2>4. CASE FirstRequest(s) = [Idle EXCEPT !.step = "stop", !.left = StopTimeout]
    <3>1. is.step = "stop" /\ is.left = StopTimeout /\ is.age = 0 /\ is.drained = 0
      BY <2>1, <2>4 DEF Idle
    <3> QED
      BY <3>1 DEF InLimits, is, StopTimeout
  <2>5. CASE \E e : FirstRequest(s) = Returns(Idle, e)
    <3>1. is.step = "over" /\ is.drained = 0
      BY <2>1, <2>5, IdleType, ReturnsGives
    <3> QED
      BY <3>1, OverInLimits DEF is
  <2> QED
    BY <2>2, <2>3, <2>4, <2>5, FirstRequests, Zenon DEF AdaptersInv
<1>9. CASE OllamaListed(s)
  <2> DEFINE found == [act[s] EXCEPT !.listed = svc[s].loaded, !.todo = svc[s].loaded]
             asks == AskFor(found, "unload", Timeout(s))
  <2>1. CASE Becomes(s, Returns(was, "none"))
    BY <2>1, <1>7 DEF Errors
  <2>2. CASE Becomes(s, asks)
    <3>1. /\ found \in Actions /\ found.todo = svc[s].loaded /\ found.listed = svc[s].loaded
          /\ found.age = was.age /\ found.drained = was.drained
      BY <1>2 DEF Actions, was, AdaptersInv, AdaptersTypeOK
    <3>2. is = asks
      BY <2>2, <1>2 DEF Becomes, is
    <3> HIDE DEF found
    <3>3. /\ is.step = "unload" /\ is.left = patience /\ is.age = was.age /\ is.drained = was.drained
          /\ is.listed = svc[s].loaded /\ is.todo = svc[s].loaded
      BY <3>1, <3>2, <1>3, AskForGives DEF patience
    <3>4. was.age + was.left <= patience /\ was.drained = 0
      BY <1>9, <1>5 DEF InLimits, OllamaListed, was, patience
    <3>5. Cardinality(svc[s].loaded) \in Nat
      BY AdaptersAssumption, FS_Subset, FS_CardinalityType DEF AdaptersInv, AdaptersTypeOK
    <3> DEFINE c == Cardinality(svc[s].loaded)
    <3>6. (c + 2) * patience = c * patience + patience + patience /\ c * patience \in Nat
      <4>1. c \in Nat /\ c + 1 \in Nat /\ c + 2 = (c + 1) + 1
        BY <3>5
      <4> HIDE DEF c
      <4> QED
        BY <4>1, <1>3, OneMoreTime
    <3>7. is.age + is.left + c * patience <= (c + 2) * patience
      BY <3>3, <3>4, <3>6, <1>2, <1>3
    <3> QED
      BY <3>3, <3>4, <3>7, <1>1 DEF InLimits, Timeout, Drain, is, patience
  <2> QED
    BY <1>9, <2>1, <2>2 DEF OllamaListed, was
<1>10. CASE \E m \in Models : OllamaUnloaded(s, m)
  <2> PICK m \in Models : OllamaUnloaded(s, m)
    BY <1>10
  <2> DEFINE rest == [act[s] EXCEPT !.todo = @ \ {m}, !.targets = @ \cup {m}, !.acted = TRUE]
  <2>1. /\ rest \in Actions /\ rest.todo = was.todo \ {m} /\ rest.listed = was.listed
        /\ rest.age = was.age /\ rest.drained = was.drained
    BY <1>2 DEF Actions, was
  <2>2. was.step = "unload" /\ m \in was.todo
    BY DEF OllamaUnloaded, was
  <2>3. was.age + was.left + k * patience <= (n + 2) * patience /\ was.drained = 0
    BY <2>2, <1>5 DEF InLimits, was, k, n, patience
  <2>4. k - 1 \in Nat /\ Cardinality(rest.todo) = k - 1
    <3>1. Cardinality(was.todo \ {m}) = Cardinality(was.todo) - 1
      BY <2>2, <1>4, FS_RemoveElement
    <3>2. k # 0
      BY <2>2, <1>4, FS_EmptySet DEF k
    <3>3. k - 1 \in Nat
      BY <3>2, <1>4
    <3> QED
      BY <3>1, <3>3, <2>1, Zenon DEF k
  <2>5. k * patience = (k - 1) * patience + patience /\ (k - 1) * patience \in Nat
        /\ (n + 2) * patience \in Nat
    <3>1. k = (k - 1) + 1 /\ k - 1 \in Nat /\ n + 2 \in Nat
      BY <2>4, <1>4
    <3> QED
      BY <3>1, <1>3, OneMoreTime
  <2>6. \/ is = AskFor(rest, "unload", Timeout(s))
        \/ rest.todo = {} /\ is = AskFor(rest, "poll", Timeout(s))
    BY <1>2 DEF OllamaUnloaded, Becomes, is
  <2> HIDE DEF rest
  <2>7. CASE is = AskFor(rest, "unload", Timeout(s))
    <3>1. /\ is.step = "unload" /\ is.left = patience /\ is.age = was.age /\ is.drained = was.drained
          /\ is.listed = was.listed /\ is.todo = rest.todo
      BY <2>1, <2>7, AskForGives DEF patience
    <3>2. is.age + is.left + (k - 1) * patience <= (n + 2) * patience
      BY <3>1, <2>3, <2>5, <1>2, <1>3
    <3>3. Cardinality(is.todo) = k - 1
      BY <3>1, <2>4
    <3> QED
      BY <3>1, <3>2, <3>3, <2>3, <1>1 DEF InLimits, Timeout, Drain, is, patience, n
  <2>8. CASE rest.todo = {} /\ is = AskFor(rest, "poll", Timeout(s))
    <3>1. /\ is.step = "poll" /\ is.left = patience /\ is.age = was.age /\ is.drained = 0
          /\ is.listed = was.listed
      BY <2>1, <2>3, <2>8, <1>3, AskForGives DEF patience
    <3>2. is.age + patience <= (n + 2) * patience + is.drained
      BY <3>1, <2>3, <2>5, <1>2, <1>3
    <3>3. is.drained + is.left <= Drain(s) + patience
      BY <3>1, <1>3
    <3> QED
      BY <3>1, <3>2, <3>3, <1>1 DEF InLimits, Timeout, Drain, is, patience, n
  <2> QED
    BY <2>6, <2>7, <2>8
<1>11. CASE OllamaPolled(s)
  <2> DEFINE late == [act[s] EXCEPT !.acted = FALSE]
  <2>1. CASE Becomes(s, Returns(was, "none"))
    BY <2>1, <1>7 DEF Errors
  <2>2. CASE \E e : Becomes(s, Returns(late, e))
    <3>1. late \in Actions
      BY <1>2 DEF Actions, was
    <3>2. PICK e : act'[s] = Returns(late, e)
      BY <2>2, <1>2 DEF Becomes
    <3> HIDE DEF late
    <3>3. act'[s].step = "over" /\ act'[s].drained = 0
      BY <3>1, <3>2, ReturnsGives
    <3> QED
      BY <3>3, OverInLimits
  <2>3. CASE was.drained <= Drain(s) /\ Becomes(s, AskFor(was, "poll", Timeout(s)))
    <3>1. is = AskFor(was, "poll", Timeout(s))
      BY <2>3, <1>2 DEF Becomes, is
    <3>2. /\ is.step = "poll" /\ is.left = patience /\ is.age = was.age /\ is.drained = was.drained
          /\ is.listed = was.listed
      BY <3>1, <1>2, <1>3, AskForGives DEF patience
    <3>3. was.age + patience <= (n + 2) * patience + was.drained
      BY <1>5, <1>11 DEF InLimits, OllamaPolled, was, n, patience
    <3>4. is.drained + is.left <= Drain(s) + patience
      BY <3>2, <2>3, <1>2, <1>3
    <3> QED
      BY <3>2, <3>3, <3>4, <1>1 DEF InLimits, Timeout, Drain, is, patience, n
  <2>4. was.drained <= Drain(s) <=> ~(was.drained > Drain(s))
    BY <1>2, <1>3
  <2> QED
    BY <1>11, <2>1, <2>2, <2>3, <2>4, Zenon DEF OllamaPolled, was
<1>12. CASE ComfyChecked(s)
  <2> DEFINE left == Timeout(s) - act[s].age
             asks == AskFor(act[s], "free", left)
  <2>1. CASE Becomes(s, Returns(was, "none"))
    BY <2>1, <1>7 DEF Errors
  <2>2. CASE Becomes(s, asks)
    <3>1. was.step = "check" /\ was.age + was.left <= patience /\ was.drained = 0
      BY <1>12, <1>5 DEF InLimits, ComfyChecked, was, patience
    <3>2. Timeout(s) - was.age \in Nat
      BY <3>1, <1>2, <1>3 DEF patience
    <3>3. left = Timeout(s) - was.age
      BY DEF was
    <3> HIDE DEF left
    <3>4. is.step = "free" /\ is.left = left /\ is.age = was.age /\ is.drained = was.drained
      BY <2>2, <1>2, AskForGives DEF Becomes, is, was
    <3>5. is.age + is.left <= Timeout(s)
      BY <3>2, <3>3, <3>4, <1>2, <1>3
    <3> QED
      BY <3>1, <3>4, <3>5, <1>1 DEF InLimits, Timeout, Drain, is
  <2> QED
    BY <1>12, <2>1, <2>2 DEF ComfyChecked, was
<1>13. CASE LlamaListed(s)
  <2> DEFINE found == [act[s] EXCEPT !.listed = svc[s].loaded]
             asks == AskFor(found, "unloadAll", UnloadTimeout)
  <2>1. CASE Becomes(s, Returns(was, "none"))
    BY <2>1, <1>7 DEF Errors
  <2>2. CASE Becomes(s, asks)
    <3>1. found \in Actions /\ found.age = was.age /\ found.drained = was.drained
      BY <1>2 DEF Actions, was, AdaptersInv, AdaptersTypeOK
    <3>2. is = asks
      BY <2>2, <1>2 DEF Becomes, is
    <3> HIDE DEF found
    <3>3. /\ is.step = "unloadAll" /\ is.left = UnloadTimeout
          /\ is.age = was.age /\ is.drained = was.drained
      BY <3>1, <3>2, AskForGives DEF UnloadTimeout
    <3>4. was.age + was.left <= patience /\ was.drained = 0
      BY <1>13, <1>5 DEF InLimits, LlamaListed, was, patience
    <3>5. UnloadTimeout \in Nat
      BY DEF UnloadTimeout
    <3>6. is.age + is.left <= patience + UnloadTimeout
      BY <3>3, <3>4, <3>5, <1>2, <1>3
    <3> QED
      BY <3>3, <3>4, <3>6, <1>1 DEF InLimits, Timeout, Drain, is, patience
  <2> QED
    BY <1>13, <2>1, <2>2 DEF LlamaListed, was
<1>14. CASE ComfyFreed(s)
  <2> DEFINE done == [act[s] EXCEPT !.acted = TRUE]
  <2>1. done \in Actions
    BY <1>2 DEF Actions, was
  <2>2. Becomes(s, Returns(done, "none")) \/ Becomes(s, Returns(was, "failed"))
    BY <1>14 DEF ComfyFreed, was
  <2> HIDE DEF done
  <2>3. act'[s] = Returns(done, "none") => act'[s].step = "over" /\ act'[s].drained = 0
    BY <2>1, ReturnsGives
  <2> QED
    BY <2>2, <2>3, <1>2, <1>7, OverInLimits DEF Becomes, Errors
<1>15. CASE BlockingDone(s)
  <2> DEFINE names == IF Kind(s) = "llama-swap" THEN act[s].listed ELSE asked[s]
             done == [act[s] EXCEPT !.acted = TRUE, !.targets = names]
  <2>1. names \in SUBSET Models
    BY <1>2 DEF AdaptersInv, AdaptersTypeOK, was
  <2>2. act'[s] = Returns(done, "none")
    BY <1>15, <1>2 DEF BlockingDone, Becomes
  <2> HIDE DEF names
  <2>3. done \in Actions
    BY <2>1, <1>2 DEF Actions, was
  <2> HIDE DEF done
  <2>4. act'[s].step = "over" /\ act'[s].drained = 0
    BY <2>2, <2>3, ReturnsGives
  <2> QED
    BY <2>4, OverInLimits
<1>16. CASE RequestFails(s) \/ RequestTimesOut(s) \/ \E m \in Models : OllamaUnloadLost(s, m)
  BY <1>16, <1>7 DEF RequestFails, RequestTimesOut, OllamaUnloadLost, Errors, was
<1>17. CASE BlockingArrives(s) \/ Service(s) \/ UNCHANGED adapterVars
  BY <1>17, <1>1, <1>5, UntouchedInLimits DEF BlockingArrives, Service, Use, Rest, Goes, adapterVars
<1>18. CASE Passes
  <2>1. CASE was.step \notin Requests
    <3>1. is = was
      BY <2>1, <1>18 DEF Passes, Older, was, is
    <3> QED
      BY <3>1, <1>1, <1>5, UntouchedInLimits DEF was, is
  <2>2. CASE was.step \in Requests
    <3>1. was.left > 0
      BY <2>2, <1>18 DEF Passes, InTime, Running, was
    <3>2. /\ is.step = was.step /\ is.left = was.left - 1 /\ is.age = was.age + 1
          /\ is.drained = IF was.step = "poll" THEN was.drained + 1 ELSE was.drained
          /\ is.listed = was.listed /\ is.todo = was.todo
      BY <2>2, <1>2, <1>18 DEF Passes, Older, was, is, Actions
    <3>3. (n + 2) * patience \in Nat /\ k * patience \in Nat
      BY <1>3, <1>4, OneMoreTime
    <3> DEFINE total == (n + 2) * patience
               todo == k * patience
    <3>4. /\ was.step = "unload" => was.age + was.left + todo <= total
          /\ was.step = "poll" => was.age + patience <= total + was.drained
          /\ was.step = "poll" => was.drained + was.left <= Drain(s) + patience
      BY <1>5 DEF InLimits, was, n, k, patience
    <3>5. total \in Nat /\ todo \in Nat
      BY <3>3
    <3> HIDE DEF total, todo
    <3>6. /\ is.step = "unload" => is.age + is.left + todo <= total
          /\ is.step = "poll" => is.age + patience <= total + is.drained
          /\ is.step = "poll" => is.drained + is.left <= Drain(s) + patience
      BY <3>1, <3>2, <3>4, <3>5, <1>2, <1>3
    <3>7. is.age + is.left = was.age + was.left
      BY <3>1, <3>2, <1>2
    <3>8. is.step # "poll" => is.drained = 0
      BY <3>2, <1>5 DEF InLimits, was
    <3> QED
      BY <3>2, <3>6, <3>7, <3>8, <1>1, <1>5 DEF InLimits, Timeout, Drain, was, is, n, k, patience, total, todo
  <2> QED
    BY <2>1, <2>2
<1> QED
  BY <1>6, <1>8, <1>9, <1>10, <1>11, <1>12, <1>13, <1>14, <1>15, <1>16, <1>17, <1>18, <1>19
  DEF Moves, Adapter
-----------------------------------------------------------------------------
(* The book is kept.                                                       *)

LEMMA UntouchedKeepsItsBook ==
    ASSUME NEW s \in Services, Book(s), config' = config,
           act'[s] = act[s], svc'[s] = svc[s], asked'[s] = asked[s], away'[s] = away[s]
    PROVE  Book(s)'
BY DEF Book, RequestFits, HandIsKept, ResultIsTrue, AskedIsThereOrAway, ForbiddenIsUntouched, Over,
       Kind, AllowStop

\* What a service asked to let go of M does to its part of the book.
LEMMA LetGoKeepsTrack ==
    ASSUME AdaptersInv, NEW s \in Services, NEW M \in SUBSET Models, LetGo(s, M)
    PROVE  /\ asked'[s] = asked[s] \cup M
           /\ AskedIsThereOrAway(s)'
           /\ Kind(s) # "systemd-unit" \/ AllowStop(s) => ForbiddenIsUntouched(s)'
<1>1. /\ svc \in [Services -> Loads] /\ svc[s] \in Loads
      /\ asked \in [Services -> SUBSET Models] /\ away \in [Services -> SUBSET Models]
      /\ AskedIsThereOrAway(s)
  BY DEF AdaptersInv, AdaptersTypeOK, Book, Loads
<1>2. svc'[s].loaded = svc[s].loaded
  BY <1>1 DEF LetGo, Loads
<1>3. asked'[s] = asked[s] \cup M /\ away'[s] = away[s] \cup (M \ svc[s].loaded) /\ config' = config
  BY <1>1 DEF LetGo
<1>4. AskedIsThereOrAway(s)'
  BY <1>1, <1>2, <1>3 DEF AskedIsThereOrAway
<1> QED
  BY <1>3, <1>4 DEF ForbiddenIsUntouched, Kind, AllowStop

\* An action that ends with an error keeps the book, but for an Ollama release
\* that must leave at most one model unnamed.
LEMMA FailureKeepsTheBook ==
    ASSUME NEW s \in Services, config' = config, Over(s)', act'[s].error # "none",
           AskedIsThereOrAway(s)', ForbiddenIsUntouched(s)',
           Kind(s) = "ollama" =>
             /\ \E m : asked'[s] \ act'[s].targets \subseteq {m}
             /\ asked'[s] \subseteq act'[s].listed
    PROVE  Book(s)'
BY DEF Book, RequestFits, HandIsKept, ResultIsTrue, Over, Kind, AllowStop

\* A running Ollama release has asked for what it names, out of what it listed.
LEMMA OllamaHand ==
    ASSUME AdaptersInv, NEW s \in Services, Running(s), Kind(s) = "ollama"
    PROVE  asked[s] = act[s].targets /\ asked[s] \subseteq act[s].listed
<1>1. act[s].step \in {"list", "unload", "poll"}
  BY DEF AdaptersInv, Book, RequestFits, Running, Requests
<1> QED
  BY <1>1 DEF AdaptersInv, Book, HandIsKept

LEMMA TheBookIsKept ==
    ASSUME AdaptersInv, Moves, NEW s \in Services
    PROVE  Book(s)'
<1> DEFINE was == act[s]
           is == act'[s]
           Still == UNCHANGED <<config, svc, asked, away>>
<1>1. config' = config
  BY ConfigIsFixed
<1>2. /\ was \in Actions /\ act \in [Services -> Actions]
      /\ was.listed \in SUBSET Models /\ was.todo \in SUBSET Models /\ was.targets \in SUBSET Models
      /\ svc \in [Services -> Loads] /\ svc[s].loaded \in SUBSET Models
      /\ asked \in [Services -> SUBSET Models] /\ away \in [Services -> SUBSET Models]
  BY DEF AdaptersInv, AdaptersTypeOK, Actions, Errors, Loads
<1>3. /\ Book(s) /\ RequestFits(s) /\ HandIsKept(s) /\ ResultIsTrue(s)
      /\ AskedIsThereOrAway(s) /\ ForbiddenIsUntouched(s)
  BY DEF AdaptersInv, Book
<1>4. ASSUME NEW r \in Services, r # s, Adapter(r) \/ Service(r) PROVE Book(s)'
  BY <1>4, <1>1, <1>3, OneServiceMoves, UntouchedKeepsItsBook
<1>21. ASSUME NEW S \in SUBSET Services, Starts(S), s \notin S PROVE Book(s)'
  BY <1>21, <1>1, <1>3, StartsAreFresh, UntouchedKeepsItsBook
<1> HIDE DEF was, is
<1>5. ASSUME Still PROVE AskedIsThereOrAway(s)' /\ ForbiddenIsUntouched(s)'
  BY <1>3, <1>5 DEF AskedIsThereOrAway, ForbiddenIsUntouched, Kind, AllowStop
<1>6. ASSUME Still, Running(s), NEW a \in Actions, a.listed = was.listed, a.targets = was.targets,
             NEW error, error # "none", Becomes(s, Returns(a, error))
      PROVE  Book(s)'
  <2>1. act'[s] = Returns(a, error)
    BY <1>6, <1>2 DEF Becomes
  <2>2. Over(s)' /\ act'[s].error # "none" /\ act'[s].targets = was.targets /\ act'[s].listed = was.listed
    BY <1>6, <2>1, ReturnsGives DEF Over
  <2>3. Kind(s) = "ollama" => asked'[s] = was.targets /\ asked'[s] \subseteq was.listed
    BY <1>6, OllamaHand DEF was
  <2> QED
    BY <1>1, <1>5, <1>6, <2>2, <2>3, FailureKeepsTheBook
<1>7. ASSUME NEW S \in SUBSET Services, Starts(S), s \in S PROVE Book(s)'
  <2>1. is = FirstRequest(s) /\ asked'[s] = {} /\ away'[s] = {} /\ svc' = svc
    BY <1>7, StartsAreFresh DEF Starts, is
  <2>2. AskedIsThereOrAway(s)' /\ ForbiddenIsUntouched(s)'
    BY <2>1, <1>1, <1>3 DEF AskedIsThereOrAway, ForbiddenIsUntouched, Kind, AllowStop
  <2>3. Idle.listed = {} /\ Idle.todo = {} /\ Idle.targets = {} /\ Idle.error = "none"
    BY DEF Idle
  <2>4. CASE Kind(s) \in {"ollama", "llama-swap"} /\ FirstRequest(s) = AskFor(Idle, "list", Timeout(s))
    <3>1. is.step = "list" /\ is.listed = {} /\ is.todo = {} /\ is.targets = {}
      BY <2>1, <2>3, <2>4, IdleType, AskForGives
    <3> QED
      BY <3>1, <2>1, <2>2, <2>4, <1>1
      DEF Book, RequestFits, HandIsKept, ResultIsTrue, Over, Kind, AllowStop, is
  <2>5. CASE Kind(s) = "comfyui" /\ FirstRequest(s) = AskFor(Idle, "check", Timeout(s))
    <3>1. is.step = "check"
      BY <2>1, <2>5, IdleType, AskForGives
    <3> QED
      BY <3>1, <2>1, <2>2, <2>5, <1>1
      DEF Book, RequestFits, HandIsKept, ResultIsTrue, Over, Kind, AllowStop, is
  <2>6. CASE /\ Kind(s) = "systemd-unit" /\ AllowStop(s)
             /\ FirstRequest(s) = [Idle EXCEPT !.step = "stop", !.left = StopTimeout]
    <3>1. is.step = "stop"
      BY <2>1, <2>6 DEF Idle
    <3> QED
      BY <3>1, <2>1, <2>2, <2>6, <1>1
      DEF Book, RequestFits, HandIsKept, ResultIsTrue, Over, Kind, AllowStop, is
  <2>7. CASE Kind(s) = "systemd-unit" /\ \E e : FirstRequest(s) = Returns(Idle, e)
    <3>1. is.step = "over" /\ is.targets = {}
      BY <2>1, <2>3, <2>7, IdleType, ReturnsGives
    <3> QED
      BY <3>1, <2>1, <2>2, <2>7, <1>1
      DEF Book, RequestFits, HandIsKept, ResultIsTrue, Over, Kind, AllowStop, is
  <2> QED
    BY <2>4, <2>5, <2>6, <2>7, FirstRequests, Zenon DEF AdaptersInv
<1>8. CASE OllamaListed(s)
  <2> DEFINE found == [act[s] EXCEPT !.listed = svc[s].loaded, !.todo = svc[s].loaded]
  <2>1. /\ was.step = "list" /\ Kind(s) = "ollama"
        /\ asked[s] = {} /\ was.targets = {} /\ was.todo = {} /\ was.listed = {}
    BY <1>8, <1>3 DEF OllamaListed, HandIsKept, was
  <2>2. Still
    BY <1>8 DEF OllamaListed
  <2>3. CASE is = Returns(was, "none")
    <3>1. is.step = "over" /\ is.targets = {} /\ is.listed = {}
      BY <2>1, <2>3, <1>2, ReturnsGives
    <3> QED
      BY <3>1, <2>1, <2>2, <1>1, <1>5 DEF Book, RequestFits, HandIsKept, ResultIsTrue, Over, Kind, AllowStop, is
  <2>4. CASE is = AskFor(found, "unload", Timeout(s))
    <3>1. found \in Actions /\ found.listed = svc[s].loaded /\ found.todo = svc[s].loaded /\ found.targets = {}
      BY <2>1, <1>2 DEF was, Actions
    <3> HIDE DEF found
    <3>2. is.step = "unload" /\ is.targets = {} /\ is.listed = svc[s].loaded /\ is.todo = svc[s].loaded
      BY <3>1, <2>4, AskForGives
    <3> QED
      BY <3>2, <2>1, <2>2, <1>1, <1>5 DEF Book, RequestFits, HandIsKept, ResultIsTrue, Over, Kind, AllowStop, is
  <2> QED
    BY <1>8, <1>2, <2>3, <2>4 DEF OllamaListed, Becomes, was, is
<1>9. CASE \E m \in Models : OllamaUnloaded(s, m)
  <2> PICK m \in Models : OllamaUnloaded(s, m)
    BY <1>9
  <2> DEFINE rest == [act[s] EXCEPT !.todo = @ \ {m}, !.targets = @ \cup {m}, !.acted = TRUE]
  <2>1. /\ rest \in Actions /\ rest.todo = was.todo \ {m} /\ rest.listed = was.listed
        /\ rest.targets = was.targets \cup {m}
    BY <1>2 DEF Actions, was
  <2>2. /\ was.step = "unload" /\ m \in was.todo /\ Kind(s) = "ollama"
        /\ asked[s] = was.targets /\ was.listed = was.targets \cup was.todo
        /\ was.targets \cap was.todo = {}
    BY <1>3 DEF OllamaUnloaded, was, RequestFits, HandIsKept
  <2>3. asked'[s] = asked[s] \cup {m} /\ AskedIsThereOrAway(s)' /\ ForbiddenIsUntouched(s)'
    BY <2>2, LetGoKeepsTrack DEF OllamaUnloaded
  <2>4. \/ is = AskFor(rest, "unload", Timeout(s))
        \/ rest.todo = {} /\ is = AskFor(rest, "poll", Timeout(s))
    BY <1>2 DEF OllamaUnloaded, Becomes, is
  <2> HIDE DEF rest
  <2>5. \/ is.step = "unload"
        \/ is.step = "poll" /\ was.todo \ {m} = {}
    BY <2>1, <2>4, AskForGives
  <2>6. is.listed = was.listed /\ is.targets = was.targets \cup {m} /\ is.todo = was.todo \ {m}
    BY <2>1, <2>4, AskForGives
  <2>7. asked'[s] = is.targets
    BY <2>2, <2>3, <2>6
  <2>8. is.listed = is.targets \cup is.todo /\ is.targets \cap is.todo = {}
    BY <2>2, <2>6
  <2> QED
    BY <2>2, <2>3, <2>5, <2>6, <2>7, <2>8, <1>1
    DEF Book, RequestFits, HandIsKept, ResultIsTrue, Over, Kind, AllowStop, is
<1>10. CASE \E m \in Models : OllamaUnloadLost(s, m)
  <2> PICK m \in Models : OllamaUnloadLost(s, m)
    BY <1>10
  <2>1. /\ m \in was.todo /\ Kind(s) = "ollama" /\ asked[s] = was.targets
        /\ was.listed = was.targets \cup was.todo
    BY <1>3 DEF OllamaUnloadLost, was, RequestFits, HandIsKept
  <2>2. asked'[s] = asked[s] \cup {m} /\ AskedIsThereOrAway(s)' /\ ForbiddenIsUntouched(s)'
    BY <2>1, LetGoKeepsTrack DEF OllamaUnloadLost
  <2>3. act'[s] = Returns(was, "failed")
    BY <1>2 DEF OllamaUnloadLost, Becomes, was
  <2>4. Over(s)' /\ act'[s].error = "failed" /\ act'[s].targets = was.targets /\ act'[s].listed = was.listed
    BY <2>3, <1>2, ReturnsGives DEF Over
  <2>5. asked'[s] \ act'[s].targets \subseteq {m} /\ asked'[s] \subseteq act'[s].listed
    BY <2>1, <2>2, <2>4
  <2> QED
    BY <1>1, <2>2, <2>4, <2>5, FailureKeepsTheBook
<1>11. CASE OllamaPolled(s)
  <2> DEFINE late == [act[s] EXCEPT !.acted = FALSE]
  <2>1. /\ was.step = "poll" /\ Kind(s) = "ollama" /\ Running(s)
        /\ asked[s] = was.targets /\ asked[s] = was.listed
    BY <1>11, <1>3 DEF OllamaPolled, was, RequestFits, HandIsKept, Running, Requests
  <2>2. Still
    BY <1>11 DEF OllamaPolled
  <2>3. CASE was.targets \cap svc[s].loaded = {} /\ is = Returns(was, "none")
    <3>1. is.step = "over" /\ is.error = "none" /\ is.targets = was.targets /\ is.listed = was.listed
      BY <2>3, <1>2, ReturnsGives
    <3>2. was.targets \subseteq away[s]
      BY <2>1, <2>3, <1>3 DEF AskedIsThereOrAway
    <3> QED
      BY <3>1, <3>2, <2>1, <2>2, <1>1, <1>5
      DEF Book, RequestFits, HandIsKept, ResultIsTrue, Over, Kind, AllowStop, is
  <2>4. CASE \E e : e # "none" /\ Becomes(s, Returns(late, e))
    <3>1. late \in Actions /\ late.listed = was.listed /\ late.targets = was.targets
      BY <1>2 DEF Actions, was
    <3> HIDE DEF late
    <3> QED
      BY <3>1, <2>1, <2>2, <2>4, <1>6
  <2>5. CASE is = AskFor(was, "poll", Timeout(s))
    <3>1. is.step = "poll" /\ is.targets = was.targets /\ is.listed = was.listed
      BY <2>5, <1>2, AskForGives
    <3> QED
      BY <3>1, <2>1, <2>2, <1>1, <1>5
      DEF Book, RequestFits, HandIsKept, ResultIsTrue, Over, Kind, AllowStop, is
  <2>6. \/ was.targets \cap svc[s].loaded = {} /\ Becomes(s, Returns(was, "none"))
        \/ Becomes(s, Returns(late, "still loaded"))
        \/ Becomes(s, AskFor(was, "poll", Timeout(s)))
    BY <1>11, Zenon DEF OllamaPolled, was
  <2>7. "still loaded" # "none"
    OBVIOUS
  <2>8. \A x : Becomes(s, x) => is = x
    BY <1>2 DEF Becomes, is
  <2> HIDE DEF late
  <2> QED
    BY <2>3, <2>4, <2>5, <2>6, <2>7, <2>8, Zenon
<1>12. CASE ComfyChecked(s)
  <2> DEFINE asks == AskFor(act[s], "free", Timeout(s) - act[s].age)
  <2>1. Still /\ Kind(s) = "comfyui"
    BY <1>12, <1>3 DEF ComfyChecked, RequestFits
  <2>2. is = Returns(was, "none") \/ is = asks
    BY <1>12, <1>2 DEF ComfyChecked, Becomes, was, is
  <2>3. asks.step = "free"
    BY <1>2, AskForGives DEF was
  <2> HIDE DEF asks
  <2>4. is.step = "over" \/ is.step = "free"
    BY <2>2, <2>3, <1>2, ReturnsGives
  <2> QED
    BY <2>1, <2>4, <1>1, <1>5 DEF Book, RequestFits, HandIsKept, ResultIsTrue, Over, Kind, AllowStop, is
<1>13. CASE ComfyFreed(s)
  <2> DEFINE done == [act[s] EXCEPT !.acted = TRUE]
  <2>1. Kind(s) = "comfyui"
    BY <1>13, <1>3 DEF ComfyFreed, RequestFits
  <2>2. AskedIsThereOrAway(s)' /\ ForbiddenIsUntouched(s)'
    BY <2>1, <1>2, <1>13, LetGoKeepsTrack DEF ComfyFreed
  <2>3. is = Returns(done, "none") \/ is = Returns(was, "failed")
    BY <1>13, <1>2 DEF ComfyFreed, Becomes, was, is
  <2>4. done \in Actions
    BY <1>2 DEF Actions, was
  <2> HIDE DEF done
  <2>5. is.step = "over"
    BY <2>3, <2>4, <1>2, ReturnsGives
  <2> QED
    BY <2>1, <2>2, <2>5, <1>1 DEF Book, RequestFits, HandIsKept, ResultIsTrue, Over, Kind, AllowStop, is
<1>14. CASE LlamaListed(s)
  <2> DEFINE found == [act[s] EXCEPT !.listed = svc[s].loaded]
  <2>1. Still /\ Kind(s) = "llama-swap" /\ asked[s] = {} /\ was.targets = {}
    BY <1>14, <1>3 DEF LlamaListed, HandIsKept, was
  <2>2. is = Returns(was, "none") \/ is = AskFor(found, "unloadAll", UnloadTimeout)
    BY <1>14, <1>2 DEF LlamaListed, Becomes, was, is
  <2>3. found \in Actions
    BY <1>2 DEF Actions, was
  <2> HIDE DEF found
  <2>4. (is.step = "over" /\ is.targets = {}) \/ is.step = "unloadAll"
    BY <2>1, <2>2, <2>3, <1>2, ReturnsGives, AskForGives
  <2> QED
    BY <2>1, <2>4, <1>1, <1>5 DEF Book, RequestFits, HandIsKept, ResultIsTrue, Over, Kind, AllowStop, is
<1>15. CASE BlockingArrives(s)
  <2>1. was.step \in {"unloadAll", "stop"} /\ is = was /\ asked[s] = {}
    BY <1>15 DEF BlockingArrives, Blocking, was, is
  <2>2. Kind(s) = "llama-swap" \/ (Kind(s) = "systemd-unit" /\ AllowStop(s))
    BY <2>1, <1>3 DEF RequestFits, was
  <2>3. /\ asked'[s] = asked[s] \cup (svc[s].loaded \cup was.listed)
        /\ AskedIsThereOrAway(s)' /\ ForbiddenIsUntouched(s)'
    BY <2>2, <1>2, <1>15, LetGoKeepsTrack DEF BlockingArrives, was
  <2> QED
    BY <2>1, <2>2, <2>3, <1>1, <1>3 DEF Book, RequestFits, HandIsKept, ResultIsTrue, Over, Kind, AllowStop, was, is
<1>16. CASE BlockingDone(s)
  <2> DEFINE names == IF Kind(s) = "llama-swap" THEN act[s].listed ELSE asked[s]
             done == [act[s] EXCEPT !.acted = TRUE, !.targets = names]
  <2>1. /\ was.step \in {"unloadAll", "stop"} /\ asked[s] \subseteq away[s] /\ Still
        /\ asked[s] # {} \/ was.step = "stop"
    BY <1>16 DEF BlockingDone, Blocking, was
  <2>2. Kind(s) \in {"llama-swap", "systemd-unit"}
        /\ (Kind(s) = "llama-swap" => was.step = "unloadAll")
    BY <2>1, <1>3 DEF RequestFits, was
  <2>3. names \in SUBSET Models /\ names \subseteq away[s]
    BY <2>1, <2>2, <1>2, <1>3 DEF HandIsKept, was
  <2>4. is = Returns(done, "none")
    BY <1>16, <1>2 DEF BlockingDone, Becomes, is
  <2> HIDE DEF names
  <2>5. done \in Actions /\ done.targets = names
    BY <2>3, <1>2 DEF Actions, was
  <2> HIDE DEF done
  <2>6. is.step = "over" /\ is.targets = names
    BY <2>4, <2>5, ReturnsGives
  <2> QED
    BY <2>1, <2>2, <2>3, <2>6, <1>1, <1>5 DEF Book, RequestFits, HandIsKept, ResultIsTrue, Over, Kind, AllowStop, is
<1>17. CASE RequestFails(s) \/ RequestTimesOut(s)
  <2>1. Still /\ Running(s) /\ \E e : e # "none" /\ Becomes(s, Returns(was, e))
    <3>1. "failed" # "none" /\ "timeout" # "none"
      OBVIOUS
    <3> QED
      BY <3>1, <1>17, Zenon DEF RequestFails, RequestTimesOut, was
  <2> QED
    BY <2>1, <1>2, <1>6
<1>18. CASE Service(s)
  <2>1. PICK m \in Models : Use(s, m) \/ Rest(s, m) \/ Goes(s, m)
    BY <1>18 DEF Service
  <2>2. act' = act /\ asked' = asked
    BY <2>1 DEF Use, Rest, Goes
  <2>3. CASE Use(s, m) \/ Rest(s, m)
    <3>1. away' = away /\ svc[s].loaded \subseteq svc'[s].loaded /\ svc'[s].expiring \subseteq svc[s].expiring
      BY <2>3, <1>2 DEF Use, Rest, Loads
    <3> QED
      BY <3>1, <2>2, <1>1, <1>3
      DEF Book, RequestFits, HandIsKept, ResultIsTrue, AskedIsThereOrAway, ForbiddenIsUntouched, Over, Kind, AllowStop
  <2>4. CASE Goes(s, m)
    <3>1. /\ away'[s] = away[s] \cup ({m} \cap asked[s]) /\ svc'[s].loaded = svc[s].loaded \ {m}
          /\ svc'[s].expiring \subseteq svc[s].expiring
      BY <2>4, <1>2 DEF Goes, Loads
    <3> QED
      BY <3>1, <2>2, <1>1, <1>3
      DEF Book, RequestFits, HandIsKept, ResultIsTrue, AskedIsThereOrAway, ForbiddenIsUntouched, Over, Kind, AllowStop
  <2> QED
    BY <2>1, <2>3, <2>4
<1>19. CASE Passes
  <2>1. /\ is.step = was.step /\ is.targets = was.targets /\ is.listed = was.listed /\ is.todo = was.todo
        /\ is.error = was.error /\ Still
    BY <1>19, <1>2 DEF Passes, Older, Actions, was, is
  <2> QED
    BY <2>1, <1>1, <1>3
    DEF Book, RequestFits, HandIsKept, ResultIsTrue, AskedIsThereOrAway, ForbiddenIsUntouched, Over, Kind, AllowStop, was, is
<1>20. CASE UNCHANGED adapterVars
  BY <1>20, <1>3, UntouchedKeepsItsBook DEF adapterVars
<1> QED
  BY <1>4, <1>7, <1>8, <1>9, <1>10, <1>11, <1>12, <1>13, <1>14, <1>15, <1>16, <1>17, <1>18, <1>19, <1>20, <1>21
  DEF Moves, Adapter
-----------------------------------------------------------------------------
(* Theorems.                                                               *)

LEMMA AdaptersInvInit ==
    ASSUME AdaptersInit
    PROVE  AdaptersInv
<1>1. /\ \A s \in Services : act[s] = Idle /\ asked[s] = {} /\ away[s] = {} /\ svc[s].expiring = {}
      /\ config \in Configs
      /\ svc \in [Services -> Loads]
      /\ \A s \in Services : svc[s].busy \subseteq svc[s].loaded
      /\ act = [s \in Services |-> Idle]
      /\ asked \in [Services -> SUBSET Models] /\ away \in [Services -> SUBSET Models]
  BY DEF AdaptersInit, Loads
<1>2. Idle.step = "idle" /\ Idle.drained = 0 /\ Idle.todo = {}
  BY DEF Idle
<1>3. AdaptersTypeOK
  <2>1. act \in [Services -> Actions]
    BY <1>1, IdleType
  <2> QED
    BY <1>1, <1>2, <2>1 DEF AdaptersTypeOK, Loads, Actions, Errors
<1>4. ASSUME NEW s \in Services PROVE Book(s) /\ InLimits(s)
  BY <1>1, <1>2 DEF Book, RequestFits, HandIsKept, ResultIsTrue, AskedIsThereOrAway, ForbiddenIsUntouched,
                    Over, InLimits
<1> QED
  BY <1>3, <1>4 DEF AdaptersInv

LEMMA MovesKeepOrder ==
    ASSUME AdaptersInv, Moves
    PROVE  AdaptersInv'
BY TypesAreKept, LimitsAreKept, TheBookIsKept DEF AdaptersInv

\* Left to themselves, actions start one at a time.
LEMMA AdaptersMove ==
    ASSUME [AdaptersNext]_adapterVars
    PROVE  Moves
<1>1. ASSUME NEW s \in Services, Begin(s) PROVE Starts({s})
  BY <1>1 DEF Begin, Starts
<1>2. Tick => Passes
  BY DEF Tick, Passes
<1>3. \A s \in Services : {s} \in SUBSET Services
  OBVIOUS
<1> QED
  BY <1>1, <1>2, <1>3 DEF AdaptersNext, Moves

LEMMA AdaptersInvNext ==
    ASSUME AdaptersInv, [AdaptersNext]_adapterVars
    PROVE  AdaptersInv'
BY AdaptersMove, MovesKeepOrder

\* The invariant is one of the specification.
THEOREM AdaptersAreInOrder == AdaptersSpec => []AdaptersInv
BY AdaptersInvInit, AdaptersInvNext, PTL DEF AdaptersSpec

\* An action's record, its service and its history keep their types.
THEOREM ActionTypesAreCorrect == AdaptersSpec => []AdaptersTypeOK
<1>1. AdaptersInv => AdaptersTypeOK
  BY DEF AdaptersInv
<1> QED
  BY <1>1, AdaptersAreInOrder, PTL

\* A result of Release or Stop that says it is done, but for ComfyUI's, names only
\* what has been gone since it was asked to go.
THEOREM DoneIsGone == AdaptersSpec => []DoneMeansGone
<1>1. AdaptersInv => DoneMeansGone
  BY DEF AdaptersInv, Book, ResultIsTrue, DoneMeansGone
<1> QED
  BY <1>1, AdaptersAreInOrder, PTL

\* A release of several models that fails part of the way names all it made go but one.
THEOREM PartialReleasesAreNotTotal == AdaptersSpec => []PartialReleaseIsNotTotal
<1>1. ASSUME AdaptersInv, NEW s \in Services, Over(s), Kind(s) = "ollama"
      PROVE  Cardinality(asked[s] \ act[s].targets) <= 1
  <2>1. PICK m : asked[s] \ act[s].targets \subseteq {m}
    BY <1>1 DEF AdaptersInv, Book, ResultIsTrue
  <2>2. asked[s] \ act[s].targets = {} \/ asked[s] \ act[s].targets = {m}
    BY <2>1
  <2>3. Cardinality({}) = 0 /\ Cardinality({m}) = 1
    BY FS_EmptySet, FS_Singleton
  <2>4. Cardinality(asked[s] \ act[s].targets) \in {0, 1}
    BY <2>2, <2>3
  <2> QED
    BY <2>4
<1>2. AdaptersInv => PartialReleaseIsNotTotal
  BY <1>1 DEF AdaptersInv, Book, ResultIsTrue, PartialReleaseIsNotTotal
<1> QED
  BY <1>2, AdaptersAreInOrder, PTL

\* Nothing but a permitted stop and llama-swap's unload ends work in flight.
THEOREM WorkEndsByLeaveOnly == AdaptersSpec => WorkIsEndedOnlyByLeave
<1> DEFINE ByLeave(s, m) ==
      m \in svc[s].busy /\ m \in svc[s].expiring /\ m \notin svc[s].loaded'
        => Kind(s) = "llama-swap" \/ AllowStop(s)
<1>1. ASSUME AdaptersInv, AdaptersNext, NEW s \in Services, NEW m \in Models PROVE ByLeave(s, m)
  <2>2. CASE \E n \in Models : Goes(s, n)
    <3>1. PICK n \in Models : Goes(s, n)
      BY <2>2
    <3>2. svc'[s].loaded = svc[s].loaded \ {n}
      BY <3>1, <1>1 DEF Goes, AdaptersInv, AdaptersTypeOK
    <3>3. m \in svc[s].busy /\ m = n => Kind(s) \in {"llama-swap", "systemd-unit"}
      BY <3>1 DEF Goes
    <3>4. ForbiddenIsUntouched(s) /\ (m \in svc[s].expiring => m \in svc[s].loaded)
      BY <1>1 DEF AdaptersInv, Book, AdaptersTypeOK
    <3> QED
      BY <3>2, <3>3, <3>4 DEF ForbiddenIsUntouched
  <2>3. CASE ~\E n \in Models : Goes(s, n)
    <3>1. svc[s].loaded \subseteq svc'[s].loaded
      <4>1. svc \in [Services -> Loads]
        BY <1>1 DEF AdaptersInv, AdaptersTypeOK, Loads
      <4>2. CASE \E r \in Services : r # s /\ (Adapter(r) \/ Service(r))
        BY <1>1, <4>2, OneServiceMoves
      <4>3. CASE Tick \/ \E r \in Services : Begin(r)
        BY <4>3 DEF Begin, Tick
      <4>4. CASE Adapter(s)
        <5>1. svc' = svc \/ \E M : LetGo(s, M)
          BY <4>4 DEF Adapter, OllamaListed, OllamaPolled, OllamaUnloaded, OllamaUnloadLost, ComfyChecked,
                      ComfyFreed, LlamaListed, BlockingArrives, BlockingDone, RequestFails, RequestTimesOut
        <5> QED
          BY <4>1, <5>1 DEF LetGo, Loads
      <4>5. CASE Service(s)
        <5>1. PICK n \in Models : Use(s, n) \/ Rest(s, n)
          BY <2>3, <4>5 DEF Service
        <5> QED
          BY <4>1, <5>1 DEF Use, Rest, Loads
      <4> QED
        BY <1>1, <4>2, <4>3, <4>4, <4>5 DEF AdaptersNext
    <3>2. m \in svc[s].expiring => m \in svc[s].loaded
      BY <1>1 DEF AdaptersInv, AdaptersTypeOK
    <3> QED
      BY <3>1, <3>2
  <2> QED
    BY <2>2, <2>3
<1>2. AdaptersInv /\ [AdaptersNext]_adapterVars => [\A s \in Services, m \in Models : ByLeave(s, m)]_adapterVars
  BY <1>1
<1> QED
  BY <1>2, AdaptersAreInOrder, PTL DEF AdaptersSpec, WorkIsEndedOnlyByLeave

\* What has been spent and what is left say that an action stays within its limits.
LEMMA LimitsHold == AdaptersInv => ActionsEndInTime
<1>1. ASSUME AdaptersInv, NEW s \in Services, Running(s)
      PROVE  act[s].age <= Longest(s, Cardinality(act[s].listed))
  <2> DEFINE was == act[s]
             n == Cardinality(was.listed)
             k == Cardinality(was.todo)
             patience == Timeout(s)
  <2>1. /\ was.left \in Nat /\ was.age \in Nat /\ was.drained \in Nat
        /\ was.listed \in SUBSET Models /\ was.todo \in SUBSET Models
    BY <1>1 DEF AdaptersInv, AdaptersTypeOK
  <2>2. n \in Nat /\ k \in Nat
    BY <2>1, AdaptersAssumption, FS_Subset, FS_CardinalityType
  <2>3. Timeout(s) \in Nat /\ Drain(s) \in Nat /\ patience \in Nat
    BY <1>1, ConfigTypes DEF AdaptersInv
  <2>4. RequestFits(s) /\ InLimits(s)
    BY <1>1 DEF AdaptersInv, Book
  <2> HIDE DEF was, n, k, patience
  <2>5. (n + 2) * patience \in Nat /\ k * patience \in Nat /\ (n + 2) * patience >= patience
    <3>1. (n + 2) * patience = (n + 1) * patience + patience /\ (n + 1) * patience \in Nat
      <4>1. n + 1 \in Nat /\ (n + 1) + 1 = n + 2
        BY <2>2
      <4> QED
        BY <4>1, <2>3, OneMoreTime
    <3> QED
      BY <3>1, <2>2, <2>3, OneMoreTime
  <2> DEFINE total == (n + 2) * patience
             todo == k * patience
  <2>6. total \in Nat /\ todo \in Nat /\ total >= patience
    BY <2>5
  <2>7. CASE Kind(s) = "ollama"
    <3>1. was.step \in {"list", "unload", "poll"}
      BY <1>1, <2>4, <2>7 DEF RequestFits, Running, Requests, was
    <3>2. /\ was.step = "list" => was.age + was.left <= patience
          /\ was.step = "unload" => was.age + was.left + todo <= total
          /\ was.step = "poll" => was.age + patience <= total + was.drained
          /\ was.step = "poll" => was.drained + was.left <= Drain(s) + patience
      BY <2>4 DEF InLimits, was, n, k, patience
    <3>3. Longest(s, n) = total + Drain(s)
      BY <2>7 DEF Longest, patience
    <3> HIDE DEF total, todo
    <3>4. was.age <= total + Drain(s)
      BY <3>1, <3>2, <2>1, <2>3, <2>6
    <3> QED
      BY <3>3, <3>4 DEF was, n
  <2>8. CASE Kind(s) = "comfyui"
    <3>1. was.step = "check" \/ was.step = "free"
      BY <1>1, <2>4, <2>8 DEF RequestFits, Running, Requests, was
    <3>2. was.age <= Timeout(s)
      BY <3>1, <2>1, <2>3, <2>4 DEF InLimits, was, patience
    <3>3. Longest(s, n) = Timeout(s)
      BY <2>8 DEF Longest
    <3> QED
      BY <3>2, <3>3 DEF was, n
  <2>9. CASE Kind(s) = "llama-swap"
    <3>1. was.step = "list" \/ was.step = "unloadAll"
      BY <1>1, <2>4, <2>9 DEF RequestFits, Running, Requests, was
    <3>2. UnloadTimeout \in Nat
      BY DEF UnloadTimeout
    <3>3. was.age <= patience + UnloadTimeout
      BY <3>1, <3>2, <2>1, <2>3, <2>4 DEF InLimits, was, patience
    <3>4. Longest(s, n) = patience + UnloadTimeout
      BY <2>9 DEF Longest, patience
    <3> QED
      BY <3>3, <3>4 DEF was, n
  <2>10. CASE Kind(s) = "systemd-unit"
    <3>1. was.step = "stop"
      BY <1>1, <2>4, <2>10 DEF RequestFits, Running, Requests, was
    <3>2. was.age <= StopTimeout
      BY <3>1, <2>1, <2>4 DEF InLimits, was, StopTimeout
    <3>3. Longest(s, n) = StopTimeout
      BY <2>10 DEF Longest
    <3> QED
      BY <3>2, <3>3 DEF was, n
  <2> QED
    BY <1>1, <2>7, <2>8, <2>9, <2>10, ConfigTypes DEF AdaptersInv, Adapters
<1> QED
  BY <1>1 DEF ActionsEndInTime

\* An action on any service ends within what its limits add up to.
THEOREM LimitsAreLimits == AdaptersSpec => []ActionsEndInTime
BY LimitsHold, AdaptersAreInOrder, PTL
-----------------------------------------------------------------------------
(* The exchange: what the client's waits and the connection's budget are      *)
(* worth, for any services, limits and plans.                                 *)

\* Of finitely many numbers one is the greatest.
LEMMA GreatestExists ==
    ASSUME NEW S, IsFiniteSet(S), S # {}, NEW f \in [S -> Nat]
    PROVE  \E x \in S : \A y \in S : f[y] <= f[x]
<1> DEFINE above == [x \in S |-> {y \in S : f[y] > f[x]}]
           T == {above[x] : x \in S}
<1>1. T # {} /\ T \subseteq FiniteSubsetsOf(S)
  <2>1. \A x \in S : above[x] \in SUBSET S
    OBVIOUS
  <2>2. \A U \in SUBSET S : U \in FiniteSubsetsOf(S)
    BY FS_Subset DEF FiniteSubsetsOf
  <2>3. \A x \in S : above[x] \in T
    OBVIOUS
  <2>4. \A U \in T : \E x \in S : U = above[x]
    OBVIOUS
  <2> HIDE DEF T, above
  <2> QED
    BY <2>1, <2>2, <2>3, <2>4
<1>2. IsWellFoundedOn(StrictSubsetOrdering(S), FiniteSubsetsOf(S))
  BY FS_StrictSubsetOrderingWellFounded
<1>3. \A x \in S : above[x] \in T /\ above[x] = {y \in S : f[y] > f[x]}
  OBVIOUS
<1>4. \A U \in T : \E x \in S : U = above[x]
  OBVIOUS
<1> HIDE DEF T, above
<1>5. PICK U \in T : \A V \in T : <<V, U>> \notin StrictSubsetOrdering(S)
  BY <1>1, <1>2, WFMin
<1>6. PICK x \in S : U = above[x]
  BY <1>4
<1>7. ASSUME NEW y \in S, f[y] > f[x] PROVE FALSE
  <2>1. above[y] \subseteq above[x]
    BY <1>3, <1>7
  <2>2. y \in above[x] /\ y \notin above[y]
    BY <1>3, <1>7
  <2>3. <<above[y], above[x]>> \in StrictSubsetOrdering(S)
    BY <1>3, <2>1, <2>2 DEF StrictSubsetOrdering
  <2> QED
    BY <1>3, <1>5, <1>6, <2>3
<1>8. \A y \in S : f[y] \in Nat /\ f[x] \in Nat
  OBVIOUS
<1> QED
  BY <1>7, <1>8

\* The longest of finitely many times is one of them, or none at all.
LEMMA LongestOfAll ==
    ASSUME NEW S, IsFiniteSet(S), NEW f \in [S -> Nat],
           NEW all, 0 \in all, \A x \in S : f[x] \in all, \A y \in all : y = 0 \/ \E x \in S : y = f[x]
    PROVE  /\ Max(all) \in Nat
           /\ \A x \in S : f[x] <= Max(all)
           /\ Max(all) = 0 \/ \E x \in S : Max(all) = f[x]
<1>1. \E m \in all : \A y \in all : m >= y
  <2>1. CASE S = {}
    BY <2>1
  <2>2. CASE S # {}
    <3>1. PICK x \in S : \A y \in S : f[y] <= f[x]
      BY <2>2, GreatestExists
    <3>2. f[x] \in all /\ f[x] \in Nat
      OBVIOUS
    <3> QED
      BY <3>1, <3>2
  <2> QED
    BY <2>1, <2>2
<1>2. Max(all) \in all /\ \A y \in all : Max(all) >= y
  BY <1>1 DEF Max
<1>4. \A x \in S : f[x] \in all /\ f[x] \in Nat
  OBVIOUS
<1>5. PICK m \in all : m = Max(all)
  BY <1>2
<1>6. m = 0 \/ \E x \in S : m = f[x]
  OBVIOUS
<1>7. m \in Nat
  BY <1>6, <1>4
<1>8. ASSUME NEW x \in S PROVE f[x] <= m
  <2>1. f[x] \in all /\ f[x] \in Nat
    BY <1>4
  <2>2. m >= f[x]
    BY <1>2, <1>5, <2>1
  <2> QED
    BY <1>7, <2>1, <2>2
<1> QED
  BY <1>5, <1>6, <1>7, <1>8

\* What the daemon announces, what it allows a connection and what an observation
\* may take, all from the limits of the configured services.
LEMMA Announcements ==
    ASSUME AdaptersTypeOK, NEW P \in SUBSET Services
    PROVE  /\ longestAction(P) \in Nat
           /\ \A s \in P : actionBound(s) \in Nat /\ 0 < actionBound(s) /\ actionBound(s) <= longestAction(P)
           /\ longestAction(P) = 0 \/ \E s \in P : longestAction(P) = actionBound(s)
           /\ longestAction(P) <= longestAction(Services)
           /\ WaitFor(longestAction(P)) \in Nat
           /\ P # {} => WaitFor(longestAction(P)) = longestAction(P) + ClientSlack
<1>1. ASSUME NEW s \in Services PROVE actionBound(s) \in Nat /\ 0 < actionBound(s)
  <2>1. Timeout(s) \in Nat /\ Drain(s) \in Nat
    BY ConfigTypes
  <2>2. 0 < Timeout(s)
    BY ExchangeAssumption DEF AdaptersTypeOK, Timeout
  <2> QED
    BY <2>1, <2>2 DEF actionBound
<1>2. ASSUME NEW Q \in SUBSET Services
      PROVE  /\ longestAction(Q) \in Nat
             /\ \A s \in Q : actionBound(s) <= longestAction(Q)
             /\ longestAction(Q) = 0 \/ \E s \in Q : longestAction(Q) = actionBound(s)
  <2> DEFINE f == [s \in Q |-> actionBound(s)]
             all == {0} \cup {actionBound(s) : s \in Q}
  <2>1. IsFiniteSet(Q)
    BY ExchangeAssumption, FS_Subset
  <2>2. /\ f \in [Q -> Nat] /\ \A s \in Q : f[s] = actionBound(s)
        /\ 0 \in all /\ \A s \in Q : f[s] \in all
        /\ \A y \in all : y = 0 \/ \E s \in Q : y = f[s]
    BY <1>1
  <2>3. longestAction(Q) = Max(all)
    BY DEF longestAction
  <2> HIDE DEF f, all
  <2>4. Max(all) \in Nat /\ (Max(all) = 0 \/ \E s \in Q : Max(all) = f[s])
    BY <2>1, <2>2, LongestOfAll
  <2>5. \A s \in Q : f[s] <= Max(all)
    BY <2>1, <2>2, LongestOfAll
  <2> QED
    BY <2>2, <2>3, <2>4, <2>5
<1>3. longestAction(P) <= longestAction(Services)
  BY <1>1, <1>2
<1>4. P # {} => longestAction(P) # 0
  BY <1>1, <1>2
<1> QED
  BY <1>1, <1>2, <1>3, <1>4 DEF WaitFor, PlanWait, ClientSlack

LEMMA ObservationsEndInTime ==
    ASSUME AdaptersTypeOK
    PROVE  /\ ObserveTime \in Nat
           /\ connBudget \in Nat
           /\ connBudget = WaitFor(longestAction(Services)) + Minute
           /\ ObserveTime < connBudget
<1>1. ASSUME NEW s \in Services PROVE Timeout(s) \in Nat /\ Timeout(s) <= longestAction(Services)
  <2>1. Timeout(s) \in Nat /\ Drain(s) \in Nat
    BY ConfigTypes
  <2>2. actionBound(s) <= longestAction(Services) /\ longestAction(Services) \in Nat
    BY Announcements
  <2> QED
    BY <2>1, <2>2 DEF actionBound
<1>2. longestAction(Services) \in Nat /\ WaitFor(longestAction(Services)) \in Nat
  BY Announcements
<1>3. ObserveTime \in Nat /\ (ObserveTime = 0 \/ \E s \in Services : ObserveTime = Timeout(s))
  <2> DEFINE f == [s \in Services |-> Timeout(s)]
             all == {0} \cup {Timeout(s) : s \in Services}
  <2>1. IsFiniteSet(Services)
    BY ExchangeAssumption
  <2>2. /\ f \in [Services -> Nat] /\ \A s \in Services : f[s] = Timeout(s)
        /\ 0 \in all /\ \A s \in Services : f[s] \in all
        /\ \A y \in all : y = 0 \/ \E s \in Services : y = f[s]
    BY <1>1
  <2>3. ObserveTime = Max(all)
    BY DEF ObserveTime
  <2> HIDE DEF f, all
  <2>4. Max(all) \in Nat /\ (Max(all) = 0 \/ \E s \in Services : Max(all) = f[s])
    BY <2>1, <2>2, LongestOfAll
  <2> QED
    BY <2>2, <2>3, <2>4
<1>4. ObserveTime <= longestAction(Services)
  BY <1>1, <1>2, <1>3
<1> QED
  BY <1>2, <1>3, <1>4 DEF connBudget, WaitFor, Minute, PlanWait, ClientSlack

LEMMA TimesAddUp ==
    ASSUME NEW a \in Nat, NEW d \in Nat, NEW p \in Nat
    PROVE  a * p \in Nat /\ d * p \in Nat /\ (a + d) * p = a * p + d * p
OBVIOUS

\* More models make an action no shorter.
LEMMA LongestGrows ==
    ASSUME AdaptersTypeOK, NEW s \in Services, NEW n \in Nat, NEW k \in Nat, n <= k
    PROVE  Longest(s, n) \in Nat /\ Longest(s, k) \in Nat /\ Longest(s, n) <= Longest(s, k)
<1>1. Kind(s) \in Adapters /\ Timeout(s) \in Nat /\ Drain(s) \in Nat
  BY ConfigTypes
<1> DEFINE p == Timeout(s)
<1>2. p \in Nat /\ UnloadTimeout \in Nat
  BY <1>1 DEF UnloadTimeout
<1> HIDE DEF p
<1>4. (n + 2) * p \in Nat /\ (k + 2) * p \in Nat /\ (n + 2) * p <= (k + 2) * p
  <2> DEFINE d == k - n
             a == n + 2
  <2>1. d \in Nat /\ a \in Nat /\ k + 2 = a + d
    OBVIOUS
  <2> HIDE DEF d, a
  <2>2. a * p \in Nat /\ d * p \in Nat /\ (a + d) * p = a * p + d * p
    BY <1>2, <2>1, TimesAddUp
  <2> DEFINE small == a * p
             rest == d * p
  <2>3. small \in Nat /\ rest \in Nat /\ (k + 2) * p = small + rest /\ (n + 2) * p = small
    BY <2>1, <2>2 DEF a
  <2> HIDE DEF small, rest
  <2> QED
    BY <2>3
<1> QED
  BY <1>1, <1>2, <1>4 DEF Longest, Adapters, StopTimeout, p

\* Whatever an adapter or its service does, time does not pass and nothing starts.
LEMMA StepsTakeNoTime ==
    ASSUME AdaptersInv, NEW s \in Services, Adapter(s) \/ Service(s), NEW t \in Services, Running(t)'
    PROVE  Running(t) /\ act'[t].age = act[t].age
<1>1. act \in [Services -> Actions] /\ act[s] \in Actions
  BY DEF AdaptersInv, AdaptersTypeOK, Actions, Errors
<1>2. CASE act'[t] = act[t]
  BY <1>2 DEF Running
<1>3. CASE t = s /\ Adapter(s) /\ act'[t] # act[t]
  <2>1. Running(s)
    BY <1>3 DEF Adapter, OllamaListed, OllamaPolled, OllamaUnloaded, OllamaUnloadLost, ComfyChecked,
                ComfyFreed, LlamaListed, BlockingArrives, BlockingDone, Blocking, RequestFails,
                RequestTimesOut, Running, Requests
  <2>2. ASSUME NEW a \in Actions, NEW error, act'[s] = Returns(a, error) PROVE FALSE
    <3>1. act'[s].step = "over"
      BY <2>2, ReturnsGives
    <3> QED
      BY <1>3, <3>1 DEF Running, Requests
  <2>3. ASSUME NEW a \in Actions, a.age = act[s].age, NEW step, NEW limit, act'[s] = AskFor(a, step, limit)
        PROVE  act'[s].age = act[s].age
    BY <2>3, AskForGives
  <2>4. /\ [act[s] EXCEPT !.acted = FALSE] \in Actions
        /\ [act[s] EXCEPT !.acted = TRUE] \in Actions
        /\ \A m \in Models :
             [act[s] EXCEPT !.todo = @ \ {m}, !.targets = @ \cup {m}, !.acted = TRUE] \in Actions
        /\ \A M \in SUBSET Models : /\ [act[s] EXCEPT !.listed = M, !.todo = M] \in Actions
                                    /\ [act[s] EXCEPT !.listed = M] \in Actions
                                    /\ [act[s] EXCEPT !.acted = TRUE, !.targets = M] \in Actions
    BY <1>1 DEF Actions
  <2>5. svc[s].loaded \in SUBSET Models /\ asked[s] \in SUBSET Models /\ act[s].listed \in SUBSET Models
    BY DEF AdaptersInv, AdaptersTypeOK
  <2>6. ASSUME OllamaListed(s) PROVE act'[s].age = act[s].age
    <3> DEFINE found == [act[s] EXCEPT !.listed = svc[s].loaded, !.todo = svc[s].loaded]
    <3>1. found \in Actions /\ found.age = act[s].age
      BY <1>1, <2>4, <2>5 DEF Actions
    <3>2. act'[s] = Returns(act[s], "none") \/ act'[s] = AskFor(found, "unload", Timeout(s))
      BY <1>1, <2>6 DEF OllamaListed, Becomes
    <3> HIDE DEF found
    <3> QED
      BY <1>1, <2>2, <2>3, <3>1, <3>2
  <2>7. ASSUME OllamaPolled(s) PROVE act'[s].age = act[s].age
    <3> DEFINE late == [act[s] EXCEPT !.acted = FALSE]
    <3>1. \/ act'[s] = Returns(act[s], "none")
          \/ act'[s] = Returns(late, "still loaded")
          \/ act'[s] = AskFor(act[s], "poll", Timeout(s))
      BY <1>1, <2>7 DEF OllamaPolled, Becomes
    <3>2. late \in Actions
      BY <2>4
    <3> HIDE DEF late
    <3> QED
      BY <1>1, <2>2, <2>3, <3>1, <3>2
  <2>8. ASSUME NEW m \in Models, OllamaUnloaded(s, m) PROVE act'[s].age = act[s].age
    <3> DEFINE rest == [act[s] EXCEPT !.todo = @ \ {m}, !.targets = @ \cup {m}, !.acted = TRUE]
    <3>1. rest \in Actions /\ rest.age = act[s].age
      BY <1>1, <2>4 DEF Actions
    <3>2. act'[s] = AskFor(rest, "unload", Timeout(s)) \/ act'[s] = AskFor(rest, "poll", Timeout(s))
      <4>1. Becomes(s, AskFor(rest, "unload", Timeout(s))) \/ Becomes(s, AskFor(rest, "poll", Timeout(s)))
        BY <2>8 DEF OllamaUnloaded
      <4> HIDE DEF rest
      <4> QED
        BY <1>1, <4>1 DEF Becomes
    <3> HIDE DEF rest
    <3> QED
      BY <2>3, <3>1, <3>2
  <2>9. ASSUME ComfyChecked(s) PROVE act'[s].age = act[s].age
    <3> DEFINE left == Timeout(s) - act[s].age
    <3>1. act'[s] = Returns(act[s], "none") \/ act'[s] = AskFor(act[s], "free", left)
      BY <1>1, <2>9 DEF ComfyChecked, Becomes
    <3> HIDE DEF left
    <3> QED
      BY <1>1, <2>2, <2>3, <3>1
  <2>10. ASSUME LlamaListed(s) PROVE act'[s].age = act[s].age
    <3> DEFINE found == [act[s] EXCEPT !.listed = svc[s].loaded]
    <3>1. found \in Actions /\ found.age = act[s].age
      BY <1>1, <2>4, <2>5 DEF Actions
    <3>2. act'[s] = Returns(act[s], "none") \/ act'[s] = AskFor(found, "unloadAll", UnloadTimeout)
      BY <1>1, <2>10 DEF LlamaListed, Becomes
    <3> HIDE DEF found
    <3> QED
      BY <1>1, <2>2, <2>3, <3>1, <3>2
  <2>11. ASSUME BlockingDone(s) PROVE act'[s].age = act[s].age
    <3> DEFINE names == IF Kind(s) = "llama-swap" THEN act[s].listed ELSE asked[s]
               done == [act[s] EXCEPT !.acted = TRUE, !.targets = names]
    <3>1. done \in Actions
      BY <2>4, <2>5
    <3>2. act'[s] = Returns(done, "none")
      <4>1. Becomes(s, Returns(done, "none"))
        BY <2>11 DEF BlockingDone
      <4> HIDE DEF done
      <4> QED
        BY <1>1, <4>1 DEF Becomes
    <3> HIDE DEF done
    <3> QED
      BY <2>2, <3>1, <3>2
  <2>12. ASSUME \/ RequestFails(s) \/ RequestTimesOut(s) \/ ComfyFreed(s)
                \/ \E m \in Models : OllamaUnloadLost(s, m)
         PROVE  act'[s].age = act[s].age
    <3> DEFINE acted == [act[s] EXCEPT !.acted = TRUE]
    <3>1. acted \in Actions
      BY <2>4
    <3>2. \/ Becomes(s, Returns(act[s], "failed")) \/ Becomes(s, Returns(act[s], "timeout"))
          \/ Becomes(s, Returns(acted, "none"))
      BY <2>12 DEF RequestFails, RequestTimesOut, ComfyFreed, OllamaUnloadLost
    <3> HIDE DEF acted
    <3>3. \/ act'[s] = Returns(act[s], "failed") \/ act'[s] = Returns(act[s], "timeout")
          \/ act'[s] = Returns(acted, "none")
      BY <1>1, <3>2 DEF Becomes
    <3> QED
      BY <1>1, <2>2, <3>1, <3>3
  <2>13. ASSUME BlockingArrives(s) PROVE act'[s].age = act[s].age
    BY <1>3, <2>13 DEF BlockingArrives
  <2> QED
    BY <1>3, <2>1, <2>6, <2>7, <2>8, <2>9, <2>10, <2>11, <2>12, <2>13 DEF Adapter
<1>4. CASE t # s
  BY <1>2, <1>4, OneServiceMoves
<1>5. Service(s) => act' = act
  BY DEF Service, Use, Rest, Goes
<1> QED
  BY <1>2, <1>3, <1>4, <1>5

\* Nothing that starts has run yet.
LEMMA StartsAreYoung ==
    ASSUME AdaptersTypeOK, NEW s \in Services, FirstRequest(s).step \in Requests
    PROVE  FirstRequest(s).age = 0
<1>1. Idle.age = 0 /\ Idle \in Actions
  BY IdleType DEF Idle
<1>2. CASE \E step, limit : FirstRequest(s) = AskFor(Idle, step, limit)
  BY <1>1, <1>2, AskForGives
<1>3. CASE FirstRequest(s) = [Idle EXCEPT !.step = "stop", !.left = StopTimeout]
  BY <1>3 DEF Idle
<1>4. CASE FirstRequest(s) = Returns(Idle, "not permitted")
  <2>1. FirstRequest(s).step = "over"
    BY <1>4 DEF Returns, Idle
  <2> QED
    BY <2>1 DEF Requests
<1> QED
  BY <1>2, <1>3, <1>4, FirstRequests

\* A step of the exchange is a move of the actions.
LEMMA ExchangeMoves ==
    ASSUME [Next]_vars
    PROVE  Moves
<1>1. ASSUME NEW P \in Plans, PlanMade(P) PROVE Moves
  <2>1. {s \in P : ~Running(s)} \in SUBSET Services
    BY ExchangeAssumption
  <2>2. CASE UNCHANGED adapterVars
    BY <2>2 DEF Moves
  <2>3. CASE BeginAll({s \in P : ~Running(s)}) /\ UNCHANGED <<config, svc>>
    BY <2>1, <2>3 DEF Moves, Starts
  <2> QED
    BY <1>1, <2>2, <2>3 DEF PlanMade
<1>2. ASSUME NEW s \in Services, Adapter(s) \/ \E m \in Models : Goes(s, m) PROVE Moves
  BY <1>2 DEF Moves, Service
<1>3. Send \/ Results \/ GiveUp \/ UNCHANGED vars => UNCHANGED adapterVars
  BY DEF Send, Results, GiveUp, vars, adapterVars
<1>4. TickAll => Passes
  BY DEF TickAll, Passes
<1> QED
  BY <1>1, <1>2, <1>3, <1>4 DEF Next, Moves

\* What is derived from the configuration is fixed with it.
LEMMA LimitsAreFixed ==
    ASSUME config' = config
    PROVE  /\ connBudget' = connBudget
           /\ ObserveTime' = ObserveTime
           /\ \A P : longestAction(P)' = longestAction(P)
           /\ \A s : actionBound(s)' = actionBound(s)
           /\ \A s, n : Longest(s, n)' = Longest(s, n)
BY DEF connBudget, ObserveTime, longestAction, actionBound, Longest, WaitFor, Timeout, Drain, Kind

\* The parts of the invariant in the next state, under the same configuration.
LEMMA SpentThen ==
    ASSUME config' = config
    PROVE  /\ Spent' = WaitFor(longestAction(conn'.plan)) - client'.left
           /\ SlowServicePlanned' = \E s \in conn'.plan : \A t \in conn'.plan :
                                      Longest(s, Cardinality(Models)) >= actionBound(t) + ClientSlack
BY DEF Spent, SlowServicePlanned, longestAction, actionBound, Longest, WaitFor, Timeout, Drain, Kind

LEMMA ObservingThen ==
    ASSUME config' = config,
           client'.state = "idle" => conn'.state = "none",
           conn'.state \in {"none", "observing"} => \A s \in Services : ~Running(s)',
           conn'.state = "observing" =>
             conn'.budget + conn'.observed >= connBudget /\ conn'.observed <= ObserveTime,
           client'.state = "first" => conn'.state = "observing" /\ client'.left + conn'.observed = PlanWait
    PROVE  Observing'
<1>1. connBudget' = connBudget /\ ObserveTime' = ObserveTime
  BY LimitsAreFixed
<1> QED
  BY <1>1 DEF Observing, PlanWait

LEMMA ActingThen ==
    ASSUME config' = config,
           NEW spent \in Nat, spent = WaitFor(longestAction(conn'.plan)) - client'.left,
           conn'.state = "acting", conn'.plan # {},
           \A s \in conn'.plan : Running(s)' => act'[s].age = spent,
           \E s \in conn'.plan : spent <= Longest(s, Cardinality(Models)),
           conn'.budget + conn'.observed + spent >= connBudget
    PROVE  Acting'
<1>1. connBudget' = connBudget /\ Spent' = spent
  BY LimitsAreFixed, SpentThen
<1>2. (\E s \in conn.plan : Spent <= Longest(s, Cardinality(Models)))'
  <2>1. PICK s \in conn'.plan : spent <= Longest(s, Cardinality(Models))
    OBVIOUS
  <2>2. Longest(s, Cardinality(Models))' = Longest(s, Cardinality(Models))
    BY LimitsAreFixed
  <2> QED
    BY <1>1, <2>1, <2>2
<1> QED
  BY <1>1, <1>2 DEF Acting

LEMMA EndingsThen ==
    ASSUME config' = config,
           client'.state = "unanswered" => ObserveTime >= PlanWait,
           client'.state = "late" => conn'.state \in {"acting", "closed"} /\ SlowServicePlanned',
           client'.state = "cut" => conn'.state = "closed" /\ conn'.observed >= Minute
    PROVE  Endings'
BY LimitsAreFixed DEF Endings, PlanWait, Minute

\* Whoever stays late for the same plan stays so for the same reason.
LEMMA LateIsLate ==
    ASSUME config' = config, conn'.plan = conn.plan, SlowServicePlanned
    PROVE  SlowServicePlanned'
BY SpentThen DEF SlowServicePlanned

LEMMA ExchangeInvInit ==
    ASSUME Init
    PROVE  ExchangeInv
<1>1. client.state = "idle" /\ client.left = 0
      /\ conn.state = "none" /\ conn.budget = 0 /\ conn.observed = 0 /\ conn.plan = {}
  BY DEF Init
<1>2. \A s \in Services : ~Running(s)
  BY DEF Init, AdaptersInit, Running, Requests, Idle
<1> QED
  BY <1>1, <1>2, AdaptersInvInit DEF Init, ExchangeInv, ExchangeTypes, Observing, Acting, Endings

\* The client asks.
LEMMA SendKeeps ==
    ASSUME ExchangeInv, Send, config' = config
    PROVE  ExchangeTypes' /\ Observing' /\ Acting' /\ Endings'
<1>1. /\ client'.state = "first" /\ client'.left = PlanWait
      /\ conn'.state = "observing" /\ conn'.budget = connBudget
      /\ conn'.observed = 0 /\ conn'.plan = {}
  BY DEF Send
<1>2. connBudget \in Nat /\ ObserveTime \in Nat
  BY ObservationsEndInTime DEF ExchangeInv, AdaptersInv
<1>3. ExchangeTypes'
  BY <1>1, <1>2 DEF ExchangeTypes, PlanWait
<1>4. \A s \in Services : ~Running(s)'
  BY DEF Send, adapterVars, ExchangeInv, Observing, Running
<1>5. Observing'
  BY <1>1, <1>2, <1>4, ObservingThen DEF PlanWait
<1>6. Acting'
  BY <1>1 DEF Acting
<1>7. Endings'
  BY <1>1 DEF Endings
<1> QED
  BY <1>3, <1>5, <1>6, <1>7

\* While the daemon observes its answer reaches the client.
LEMMA ObservedInBudget ==
    ASSUME ExchangeInv, conn.state = "observing"
    PROVE  CanWrite
<1>1. connBudget \in Nat /\ ObserveTime \in Nat /\ ObserveTime < connBudget
  BY ObservationsEndInTime DEF ExchangeInv, AdaptersInv
<1>2. conn.budget \in Nat /\ conn.observed \in Nat
  BY DEF ExchangeInv, ExchangeTypes
<1>3. conn.budget + conn.observed >= connBudget /\ conn.observed <= ObserveTime
  BY DEF ExchangeInv, Observing
<1> QED
  BY <1>1, <1>2, <1>3 DEF CanWrite

\* The handler returns, with an answer for a client that still waits.
LEMMA CloseKeeps ==
    ASSUME ExchangeInv, Close(conn), conn.state \in {"observing", "acting"}, config' = config,
           ~CanWrite /\ Waiting => conn.observed >= Minute
    PROVE  ExchangeTypes' /\ Observing' /\ Acting' /\ Endings'
<1>1. /\ conn'.state = "closed" /\ conn'.budget = 0
      /\ conn'.observed = conn.observed /\ conn'.plan = conn.plan
  BY DEF Close, ExchangeInv, ExchangeTypes
<1>2. \/ client' = client /\ ~Waiting
      \/ client' = [state |-> "done", left |-> 0]
      \/ client' = [state |-> "cut", left |-> 0] /\ ~CanWrite /\ Waiting
  BY DEF Close
<1>3. client.state # "idle"
  BY DEF ExchangeInv, Observing
<1>4. ExchangeTypes'
  BY <1>1, <1>2 DEF ExchangeInv, ExchangeTypes
<1>5. client'.state \notin {"idle", "first", "second"}
  BY <1>2, <1>3 DEF Waiting
<1>6. Observing'
  BY <1>1, <1>5, ObservingThen
<1>7. Acting'
  BY <1>5 DEF Acting
<1>8. client'.state \in {"unanswered", "late", "cut"} =>
        client' = client \/ (client'.state = "cut" /\ ~CanWrite /\ Waiting)
  BY <1>2
<1>9. Endings'
  <2>1. client'.state = "unanswered" => ObserveTime >= PlanWait
    BY <1>8 DEF ExchangeInv, Endings
  <2>2. client'.state = "late" => SlowServicePlanned'
    BY <1>1, <1>8, LateIsLate DEF ExchangeInv, Endings
  <2>3. client'.state = "cut" => conn'.observed >= Minute
    BY <1>1, <1>8 DEF ExchangeInv, Endings
  <2> QED
    BY <1>1, <2>1, <2>2, <2>3, EndingsThen
<1> QED
  BY <1>4, <1>6, <1>7, <1>9

\* The plan is made: nothing to do is the answer, anything else is announced and begun.
LEMMA PlanMadeKeeps ==
    ASSUME ExchangeInv, NEW P \in Plans, PlanMade(P), config' = config
    PROVE  ExchangeTypes' /\ Observing' /\ Acting' /\ Endings'
<1>1. conn.state = "observing" /\ CanWrite
  BY ObservedInBudget DEF PlanMade
<1>2. CASE Close(conn)
  BY <1>1, <1>2, CloseKeeps
<1>3. CASE P # {} /\ ~Close(conn)
  <2>1. /\ conn' = [conn EXCEPT !.state = "acting", !.plan = P]
        /\ client' = IF Waiting THEN [state |-> "second", left |-> WaitFor(longestAction(P))] ELSE client
        /\ BeginAll({s \in P : ~Running(s)})
    BY <1>1, <1>3 DEF PlanMade
  <2>2. /\ conn'.state = "acting" /\ conn'.plan = P
        /\ conn'.budget = conn.budget /\ conn'.observed = conn.observed
    BY <2>1 DEF ExchangeInv, ExchangeTypes
  <2>3. P \in SUBSET Services
    BY ExchangeAssumption
  <2>4. WaitFor(longestAction(P)) \in Nat
    BY <2>3, Announcements DEF ExchangeInv, AdaptersInv
  <2>5. /\ conn.budget \in Nat /\ conn.observed \in Nat /\ client.left \in Nat
        /\ client.state \in {"idle", "first", "second", "done", "cut", "unanswered", "late"}
    BY DEF ExchangeInv, ExchangeTypes
  <2>6. client.state \notin {"idle", "second", "late", "cut"}
    BY <1>1 DEF ExchangeInv, Observing, Acting, Endings
  <2>7. \/ client'.state = "second" /\ client'.left = WaitFor(longestAction(P))
        \/ client' = client /\ client.state \in {"done", "unanswered"}
    BY <2>1, <2>5, <2>6 DEF Waiting
  <2>8. ExchangeTypes'
    BY <2>2, <2>3, <2>4, <2>5, <2>7 DEF ExchangeTypes
  <2>9. Observing'
    BY <2>2, <2>7, ObservingThen
  <2>10. Acting'
    <3>1. CASE client'.state = "second" /\ client'.left = WaitFor(longestAction(P))
      <4>1. 0 = WaitFor(longestAction(conn'.plan)) - client'.left
        BY <2>2, <2>4, <3>1
      <4>2. ASSUME NEW s \in P, Running(s)' PROVE act'[s].age = 0
        <5>1. act'[s] = FirstRequest(s)
          BY <1>1, <2>1, <2>3 DEF BeginAll, ExchangeInv, Observing
        <5>2. FirstRequest(s).step \in Requests
          BY <4>2, <5>1 DEF Running
        <5> QED
          BY <2>3, <5>1, <5>2, StartsAreYoung DEF ExchangeInv, AdaptersInv
      <4>3. \E s \in P : 0 <= Longest(s, Cardinality(Models))
        <5>1. PICK s \in P : s \in Services
          BY <1>3, <2>3
        <5>2. Cardinality(Models) \in Nat
          BY AdaptersAssumption, FS_CardinalityType
        <5>3. Longest(s, Cardinality(Models)) \in Nat
          BY <5>1, <5>2, LongestGrows DEF ExchangeInv, AdaptersInv
        <5> QED
          BY <5>1, <5>3
      <4>4. conn'.budget + conn'.observed + 0 >= connBudget
        BY <1>1, <2>2, <2>5, ObservationsEndInTime DEF ExchangeInv, AdaptersInv, Observing
      <4> QED
        BY <1>3, <2>2, <4>1, <4>2, <4>3, <4>4, ActingThen
    <3>2. CASE client'.state # "second"
      BY <3>2 DEF Acting
    <3> QED
      BY <2>7, <3>1, <3>2
  <2>11. Endings'
    BY <2>2, <2>7, EndingsThen DEF ExchangeInv, Endings
  <2> QED
    BY <2>8, <2>9, <2>10, <2>11
<1> QED
  BY <1>2, <1>3 DEF PlanMade

\* The results are in.
LEMMA ResultsKeep ==
    ASSUME ExchangeInv, Results, config' = config
    PROVE  ExchangeTypes' /\ Observing' /\ Acting' /\ Endings'
<1>1. conn.state = "acting" /\ Close(conn)
  BY DEF Results
<1>2. ASSUME ~CanWrite, Waiting PROVE conn.observed >= Minute
  <2>1. client.state = "second"
    BY <1>1, <1>2 DEF Waiting, ExchangeInv, Observing
  <2>2. conn.budget = 0 /\ conn.observed \in Nat /\ client.left \in Nat /\ conn.plan \in SUBSET Services
    BY <1>2 DEF CanWrite, ExchangeInv, ExchangeTypes
  <2>3. conn.plan # {} /\ Spent \in Nat /\ conn.budget + conn.observed + Spent >= connBudget
    BY <2>1 DEF ExchangeInv, Acting
  <2> DEFINE announced == longestAction(conn.plan)
             greatest == longestAction(Services)
  <2>4. /\ announced \in Nat /\ announced <= greatest
        /\ WaitFor(announced) = announced + ClientSlack
        /\ \A s \in conn.plan : 0 < actionBound(s) /\ actionBound(s) <= announced /\ actionBound(s) \in Nat
    BY <2>2, <2>3, Announcements DEF ExchangeInv, AdaptersInv
  <2>5. greatest \in Nat /\ connBudget \in Nat /\ connBudget = WaitFor(greatest) + Minute
    BY Announcements, ObservationsEndInTime DEF ExchangeInv, AdaptersInv
  <2>6. Spent = WaitFor(announced) - client.left
    BY DEF Spent
  <2> HIDE DEF announced, greatest
  <2>7. 0 < announced
    BY <2>3, <2>4
  <2>8. WaitFor(greatest) = greatest + ClientSlack
    BY <2>4, <2>5, <2>7 DEF WaitFor
  <2> QED
    BY <2>2, <2>3, <2>4, <2>5, <2>6, <2>8 DEF ClientSlack, Minute
<1> QED
  BY <1>1, <1>2, CloseKeeps

\* The client's wait is over.
LEMMA GiveUpKeeps ==
    ASSUME ExchangeInv, GiveUp, config' = config
    PROVE  ExchangeTypes' /\ Observing' /\ Acting' /\ Endings'
<1>1. /\ client.left = 0 /\ client.state \in {"first", "second"}
      /\ conn' = conn /\ act' = act
      /\ client'.left = 0
      /\ client'.state = IF client.state = "first" THEN "unanswered" ELSE "late"
  BY DEF GiveUp, Waiting
<1>2. ExchangeTypes'
  BY <1>1 DEF ExchangeInv, ExchangeTypes
<1>3. Observing'
  <2>1. \A s \in Services : Running(s)' <=> Running(s)
    BY <1>1 DEF Running
  <2> QED
    BY <1>1, <2>1, ObservingThen DEF ExchangeInv, Observing
<1>4. Acting'
  BY <1>1 DEF Acting
<1>5. CASE client.state = "first"
  <2>1. conn.observed = PlanWait /\ conn.observed <= ObserveTime
    BY <1>1, <1>5 DEF ExchangeInv, Observing, ExchangeTypes
  <2>2. Endings'
    BY <1>1, <1>5, <2>1, ObservationsEndInTime, EndingsThen DEF PlanWait, ExchangeInv, AdaptersInv
  <2> QED
    BY <1>2, <1>3, <1>4, <2>2
<1>6. CASE client.state = "second"
  <2>1. /\ conn.plan \in SUBSET Services /\ conn.plan # {} /\ conn.state = "acting"
        /\ \E s \in conn.plan : Spent <= Longest(s, Cardinality(Models))
    BY <1>6 DEF ExchangeInv, ExchangeTypes, Acting
  <2> DEFINE announced == longestAction(conn.plan)
  <2>2. /\ announced \in Nat /\ WaitFor(announced) = announced + ClientSlack
        /\ \A t \in conn.plan : actionBound(t) \in Nat /\ actionBound(t) <= announced
    BY <2>1, Announcements DEF ExchangeInv, AdaptersInv
  <2>3. Spent = WaitFor(announced) - 0
    BY <1>1 DEF Spent
  <2> HIDE DEF announced
  <2>4. PICK s \in conn.plan : Spent <= Longest(s, Cardinality(Models))
    BY <2>1
  <2>5. Cardinality(Models) \in Nat
    BY AdaptersAssumption, FS_CardinalityType
  <2>6. Longest(s, Cardinality(Models)) \in Nat
    BY <2>1, <2>5, LongestGrows DEF ExchangeInv, AdaptersInv
  <2>7. \A t \in conn.plan : Longest(s, Cardinality(Models)) >= actionBound(t) + ClientSlack
    BY <2>2, <2>3, <2>4, <2>6 DEF ClientSlack
  <2>8. SlowServicePlanned
    BY <2>7 DEF SlowServicePlanned
  <2>9. Endings'
    BY <1>1, <1>6, <2>1, <2>8, LateIsLate, EndingsThen
  <2> QED
    BY <1>2, <1>3, <1>4, <2>9
<1> QED
  BY <1>1, <1>5, <1>6

\* The limits, with the number of models an action found by name.
LimitsCount ==
    \A s \in Services : \A n :
        Running(s) /\ n = Cardinality(act[s].listed) => act[s].age <= Longest(s, n)

LEMMA LimitsAreCounted == AdaptersInv => LimitsCount
BY LimitsHold DEF ActionsEndInTime, LimitsCount

\* Time passes: an action that runs is a moment older than it was, and has not
\* reached its limits then either.
LEMMA TimeKeeps ==
    ASSUME ExchangeInv, TickAll, config' = config, AdaptersInv'
    PROVE  ExchangeTypes' /\ Observing' /\ Acting' /\ Endings'
<1>1. /\ client.left \in Nat /\ conn.budget \in Nat /\ conn.observed \in Nat
      /\ conn.plan \in SUBSET Services
  BY DEF ExchangeInv, ExchangeTypes
<1>2. /\ client'.state = client.state /\ client'.left = Countdown(client.left)
      /\ conn'.state = conn.state /\ conn'.plan = conn.plan
      /\ conn'.budget = Countdown(conn.budget)
      /\ conn'.observed = IF conn.state = "observing" THEN conn.observed + 1 ELSE conn.observed
  BY DEF TickAll, ExchangeInv, ExchangeTypes
<1>3. /\ Countdown(client.left) \in Nat /\ Countdown(conn.budget) \in Nat
      /\ Countdown(conn.budget) + 1 >= conn.budget
      /\ client.state \in {"first", "second"} =>
           client.left > 0 /\ Countdown(client.left) + 1 = client.left
  BY <1>1 DEF Countdown, TickAll, Waiting
<1>4. ASSUME NEW s \in Services
      PROVE  /\ Running(s)' <=> Running(s)
             /\ Running(s) => act'[s].age = act[s].age + 1 /\ act'[s].listed = act[s].listed
  <2>1. act[s] \in Actions
    BY DEF ExchangeInv, AdaptersInv, AdaptersTypeOK, Actions, Errors
  <2>2. act'[s] = Older(act[s])
    BY DEF TickAll
  <2>3. CASE Running(s)
    BY <2>1, <2>2, <2>3 DEF Older, Running, Actions
  <2>4. CASE ~Running(s)
    BY <2>2, <2>4 DEF Older, Running
  <2> QED
    BY <2>3, <2>4
<1>5. connBudget \in Nat /\ ObserveTime \in Nat
  BY ObservationsEndInTime DEF ExchangeInv, AdaptersInv
<1>6. ExchangeTypes'
  BY <1>1, <1>2, <1>3 DEF ExchangeInv, ExchangeTypes
<1>7. Observing'
  <2>1. conn.state = "observing" => conn.observed + 1 <= ObserveTime
    BY <1>1, <1>5 DEF TickAll
  <2>2. conn.state = "observing" => Countdown(conn.budget) + (conn.observed + 1) >= connBudget
    BY <1>1, <1>3, <1>5 DEF ExchangeInv, Observing
  <2>3. client.state = "first" =>
          conn.state = "observing" /\ Countdown(client.left) + (conn.observed + 1) = PlanWait
    BY <1>1, <1>3 DEF ExchangeInv, Observing, PlanWait
  <2>4. /\ client.state = "idle" => conn.state = "none"
        /\ conn.state \in {"none", "observing"} => \A s \in Services : ~Running(s)'
    BY <1>4 DEF ExchangeInv, Observing
  <2> QED
    BY <1>2, <2>1, <2>2, <2>3, <2>4, ObservingThen
<1>8. Acting'
  <2>1. CASE client.state = "second"
    <3> DEFINE spent == WaitFor(longestAction(conn'.plan)) - client'.left
    <3>1. /\ conn.state = "acting" /\ conn.plan # {} /\ Spent \in Nat
          /\ \A s \in conn.plan : Running(s) => act[s].age = Spent
          /\ conn.budget + conn.observed + Spent >= connBudget
      BY <2>1 DEF ExchangeInv, Acting
    <3>2. WaitFor(longestAction(conn.plan)) \in Nat
      BY <1>1, Announcements DEF ExchangeInv, AdaptersInv
    <3>3. spent = Spent + 1
      BY <1>1, <1>2, <1>3, <2>1, <3>2 DEF Spent
    <3>4. spent \in Nat
      BY <3>1, <3>3
    <3> HIDE DEF spent
    <3>5. \A s \in conn.plan : Running(s)' => act'[s].age = spent
      BY <1>1, <1>4, <3>1, <3>3
    <3>6. PICK s \in conn.plan : Running(s)
      BY <3>1 DEF TickAll
    <3>7. s \in Services /\ Running(s)' /\ act'[s].age = spent /\ act'[s].listed = act[s].listed
      BY <1>1, <1>4, <3>5, <3>6
    <3>8. LimitsCount'
      BY LimitsAreCounted, PTL
    <3>9. spent <= Longest(s, Cardinality(act[s].listed))
      <4>1. PICK n : n = Cardinality(act[s].listed)
        OBVIOUS
      <4>2. n = Cardinality(act'[s].listed)
        BY <3>7, <4>1
      <4>3. act'[s].age <= Longest(s, n)'
        BY <3>7, <3>8, <4>2 DEF LimitsCount
      <4>4. Longest(s, n)' = Longest(s, n)
        BY LimitsAreFixed
      <4> QED
        BY <3>7, <4>1, <4>3, <4>4
    <3>10. /\ Cardinality(act[s].listed) \in Nat /\ Cardinality(Models) \in Nat
           /\ Cardinality(act[s].listed) <= Cardinality(Models)
      <4>1. act[s].listed \in SUBSET Models
        BY <3>7 DEF ExchangeInv, AdaptersInv, AdaptersTypeOK
      <4> QED
        BY <4>1, AdaptersAssumption, FS_Subset, FS_CardinalityType
    <3>11. /\ Longest(s, Cardinality(act[s].listed)) \in Nat /\ Longest(s, Cardinality(Models)) \in Nat
           /\ Longest(s, Cardinality(act[s].listed)) <= Longest(s, Cardinality(Models))
      BY <3>7, <3>10, LongestGrows DEF ExchangeInv, AdaptersInv
    <3>12. spent <= Longest(s, Cardinality(Models))
      BY <3>4, <3>9, <3>11
    <3>13. conn'.budget + conn'.observed + spent >= connBudget
      BY <1>1, <1>2, <1>3, <1>5, <3>1, <3>3
    <3>14. spent = WaitFor(longestAction(conn'.plan)) - client'.left
      BY DEF spent
    <3> QED
      BY <1>2, <3>1, <3>4, <3>5, <3>6, <3>12, <3>13, <3>14, ActingThen
  <2>2. CASE client.state # "second"
    BY <1>2, <2>2 DEF Acting
  <2> QED
    BY <2>1, <2>2
<1>9. Endings'
  <2>1. client.state = "late" => SlowServicePlanned'
    BY <1>2, LateIsLate DEF ExchangeInv, Endings
  <2>2. client.state = "cut" => conn.state = "closed"
    BY DEF ExchangeInv, Endings
  <2> QED
    BY <1>2, <2>1, <2>2, EndingsThen DEF ExchangeInv, Endings
<1> QED
  BY <1>6, <1>7, <1>8, <1>9

\* Nobody speaks, no time passes and nothing starts: an action goes on or ends.
LEMMA InBetweenKeeps ==
    ASSUME ExchangeInv, config' = config, UNCHANGED <<client, conn>>,
           \A s \in Services : Running(s)' => Running(s) /\ act'[s].age = act[s].age
    PROVE  ExchangeTypes' /\ Observing' /\ Acting' /\ Endings'
<1>1. client' = client /\ conn' = conn
  OBVIOUS
<1>2. ExchangeTypes'
  BY <1>1 DEF ExchangeInv, ExchangeTypes
<1>3. Observing'
  BY <1>1, ObservingThen DEF ExchangeInv, Observing
<1>4. Acting'
  <2>1. CASE client.state = "second"
    <3>1. /\ conn.state = "acting" /\ conn.plan # {} /\ Spent \in Nat
          /\ \A s \in conn.plan : Running(s) => act[s].age = Spent
          /\ \E s \in conn.plan : Spent <= Longest(s, Cardinality(Models))
          /\ conn.budget + conn.observed + Spent >= connBudget
      BY <2>1 DEF ExchangeInv, Acting
    <3>2. Spent = WaitFor(longestAction(conn'.plan)) - client'.left
      BY <1>1 DEF Spent
    <3>3. \A s \in conn.plan : Running(s)' => act'[s].age = Spent
      BY <3>1 DEF ExchangeInv, ExchangeTypes
    <3> QED
      BY <1>1, <3>1, <3>2, <3>3, ActingThen
  <2>2. CASE client.state # "second"
    BY <1>1, <2>2 DEF Acting
  <2> QED
    BY <2>1, <2>2
<1>5. Endings'
  <2>1. client.state = "late" => SlowServicePlanned'
    BY <1>1, LateIsLate DEF ExchangeInv, Endings
  <2> QED
    BY <1>1, <2>1, EndingsThen DEF ExchangeInv, Endings
<1> QED
  BY <1>2, <1>3, <1>4, <1>5

LEMMA ExchangeInvNext ==
    ASSUME ExchangeInv, [Next]_vars
    PROVE  ExchangeInv'
<1>1. config' = config
  BY ExchangeMoves, ConfigIsFixed
<1>2. AdaptersInv'
  BY ExchangeMoves, MovesKeepOrder DEF ExchangeInv
<1>3. CASE Send
  BY <1>1, <1>2, <1>3, SendKeeps DEF ExchangeInv
<1>4. CASE Results
  BY <1>1, <1>2, <1>4, ResultsKeep DEF ExchangeInv
<1>5. CASE GiveUp
  BY <1>1, <1>2, <1>5, GiveUpKeeps DEF ExchangeInv
<1>6. CASE TickAll
  BY <1>1, <1>2, <1>6, TimeKeeps DEF ExchangeInv
<1>7. ASSUME NEW P \in Plans, PlanMade(P) PROVE ExchangeInv'
  BY <1>1, <1>2, <1>7, PlanMadeKeeps DEF ExchangeInv
<1>8. ASSUME NEW s \in Services, Adapter(s) \/ \E m \in Models : Goes(s, m), UNCHANGED <<client, conn>>
      PROVE  ExchangeInv'
  <2>1. Adapter(s) \/ Service(s)
    BY <1>8 DEF Service
  <2>2. \A t \in Services : Running(t)' => Running(t) /\ act'[t].age = act[t].age
    BY <2>1, StepsTakeNoTime DEF ExchangeInv
  <2> QED
    BY <1>1, <1>2, <1>8, <2>2, InBetweenKeeps DEF ExchangeInv
<1>9. CASE UNCHANGED vars
  <2>1. UNCHANGED <<client, conn>> /\ act' = act
    BY <1>9 DEF vars
  <2>2. \A t \in Services : Running(t)' => Running(t) /\ act'[t].age = act[t].age
    BY <2>1 DEF Running
  <2> QED
    BY <1>1, <1>2, <2>1, <2>2, InBetweenKeeps DEF ExchangeInv
<1> QED
  BY <1>3, <1>4, <1>5, <1>6, <1>7, <1>8, <1>9 DEF Next

\* The invariant is one of the exchange.
THEOREM ExchangesAreInOrder == Spec => []ExchangeInv
BY ExchangeInvInit, ExchangeInvNext, PTL DEF Spec

\* A client goes unanswered, or is late for its results, only for a service that is
\* slower than what is announced for it allows.
THEOREM WaitsAreEnough == Spec => []LateOnlyForSlowServices
<1>1. ExchangeInv => LateOnlyForSlowServices
  BY DEF ExchangeInv, Endings, SlowServicePlanned, LateOnlyForSlowServices
<1> QED
  BY <1>1, ExchangesAreInOrder, PTL

\* The budget of a connection runs out on a client that waits only after an
\* observation longer than the minute that is allowed for it.
THEOREM BudgetsAreEnough == Spec => []BudgetOutlastsTheWait
<1>1. ExchangeInv => BudgetOutlastsTheWait
  BY DEF ExchangeInv, Endings, BudgetOutlastsTheWait
<1> QED
  BY <1>1, ExchangesAreInOrder, PTL
=============================================================================
