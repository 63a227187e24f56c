# gpu-bouncer in TLA+

gpu-bouncer arbitrates one GPU's memory between services on one machine
(Ollama, ComfyUI, llama-swap, systemd units). A daemon polls the card and the
services; when memory is short it asks the service of the lowest priority to
let go, or stops its unit. Clients tell it over a Unix socket which service
needs the card now. These modules specify that program: what it decides, what
the daemon keeps while loop, clients and actions run concurrently, which card it
reads, and what follows over many polls.

All paths in this file are relative to `src/internal/`.

## Inventory

| Component | State it keeps | Operations | How it interacts |
|---|---|---|---|
| scheduler (`scheduler/scheduler.go`) | none: pure | `Decide`, `Evict`, `EvictAllExcept`, `Plan.ExpectedFreeMiB` | called with one observation by the daemon's loop and handlers and by the CLI |
| daemon (`daemon/daemon.go`) | `claims`, `cooldowns`, `inflight` under one mutex | the poll loop (`Run`, `tick`), `handle*` per connection, one goroutine per action (`executeGuarded`, `executeOne`, `recordEffect`) | calls the observer, the scheduler and adapters; is called by ipc |
| observe (`observe/observe.go`) | none | `Observe`: read the card, then probe all services in parallel | called by the daemon and the CLI |
| ipc (`ipc/ipc.go`) | the socket's path, a connection per client | `Listen`, `Serve`, `Close`; the client's `Do`, `Exchange` and its waits | carries requests to the daemon, an announcement and a reply back |
| adapters (`adapter/*.go`) | none of their own; each drives a service that has some | `Probe`, `Release`, `Stop` | called by observe and by the action goroutines, under timeouts |
| config (`config/config.go`) | none: produces a value and the digest of the files it came from | layering of files, bounds, `Validate`, `ContentDigest` | its result is fixed for the daemon's life; the daemon reports the files and the digest, `status` reads them again |
| gpu (`gpu/*.go`) | an open source: NVML, or sysfs with the cards its scan found | `Open`, the scan and classification of cards, reading one by its index, `Close` | opened when the daemon starts; read by observe and around each action |
| cli, packaging | none | parse, print, units | a client of ipc; without a daemon computes a local plan |

What is hard in it, and what should be true:

* **Shared maps, many goroutines.** A tick does not wait for the actions it
  started, so actions of several rounds and several clients overlap. No two may
  act on one service; a slot taken must come back; the loop must go on when an
  adapter hangs. (`OneActionPerService`, `SlotsAreReturned`, `LoopKeepsPolling`)
* **Several readings, one decision.** The card is read, then the services are probed,
  then claims, in-flight marks and cooldowns are read in three sections of the mutex. The order
  of the readings decides whether an action can slip between them.
  (`LoopHonoursCooldowns`, `CooldownsRunTheirTime`)
* **Three maps under one mutex.** Whatever loop, clients and actions do in between,
  a change of what the daemon keeps is one entry, made by who may make it, and a
  dry daemon makes none. (`ImplementsLedger`)
* **A greedy choice.** Disruption is only spent where the target needs it, on
  the lowest priorities first, with a reason for everything passed over, and two
  services that claim in turn must not evict each other for ever. (`PlanIsTheWalk`,
  `LowestPriorityPaysFirst`, `NothingIsSilent`, `NoPingPong`,
  `OverrideWaivesPriorityOnly`)
* **Many polls over one card.** An action may be in vain, end before its service
  lets go, or be credited with another's memory; the daemon may be killed at any
  moment. Whoever never lets go must not shield those above it for ever.
  (`DemandsAreServed`)
* **Claims are a queue.** Asking again must not move a claim, and two handlers may
  record theirs in the opposite order of the clock readings they bring.
  (`NobodyJumpsTheQueue`)
* **The strongest verb.** A unit is stopped only where `allow_stop` says so and
  nothing gentler exists. (`StopIsTheLastResort`)
* **Answers are about measurements**, several of which may fail.
  (`TargetMetIsRightForTheWinner`)
* **Dry runs** run most of the same code and must leave nothing behind.
  (`ImplementsLedger`; a dry run's preview is not always the real plan)
* **An index is not a card.** `gpu_index` counts the cards of a list that is made
  anew by each start, by one of two sources, while entries of sysfs break and mend
  between the system calls that look at them. (`NoFaultDropsACard`,
  `FaultsDoNotShiftTheIndex`, `BlindOnlyWithItsCard`; `NvidiaKeepsItsIndex` is not kept)
* **One path, several daemons.** A start looks, dials, removes, binds: five system
  calls with nothing between them but luck, and a stop unlinks twice. A crash
  leaves a socket that must not keep the next daemon out.
  (`UndisturbedIsReachable`, `StaleNeverBlocks`, `StoppedLeavesNoSocket`,
  `NoDaemonIsTrue`; `LiveSocketIsNeverRemoved` is not kept)
* **A service's "yes" means many things**: scheduled (Ollama), flagged (ComfyUI),
  done (llama-swap, systemd), and any answer can be lost. (`DoneMeansGone`,
  `PartialReleaseIsNotTotal`, `WorkIsEndedOnlyByLeave`)
* **Deadlines inside deadlines**: per request, per drain, per action,
  per announcement, per connection, each in its own file. (`ActionsEndInTime`,
  `LateOnlyForSlowServices`, `BudgetOutlastsTheWait`)
* **Layered configuration.** Two files are merged key by key, zero values and
  unset ones must not be confused, each file is decoded twice and the decodes need not
  agree, bounds are checked before the merge and what a service needs after it, and the files may change at any moment: while they are
  read, while the daemon runs, while a client looks whether it runs on an old edit.
  (`LastWordWins`, `AcceptedIsUsable`, `AnswerIsRight`, `UntouchedIsFresh`)

`PROJECT.json` lists every hazard with its line and the properties that cover
it, or why none does yet.

## Modules

| Module | What it is |
|---|---|
| `Scheduler` | `scheduler.go` as operators: demand, candidates, verbs, the choice, the three plans |
| `Planner` | a machine of one step that makes any plan from any observation of a given world, the properties of plans, and the literal greedy loop the plans are compared with |
| `MCPlanner` | three services in a small world |
| `SchedulerProofs` | what a plan may contain, for every configuration and observation |
| `PlannerProofs` | the properties of plans, the loop's among them |
| `Daemon` | the daemon as a state machine: loop, handlers, action goroutines; fairness; its properties |
| `MCDaemon` | small configurations and request sets for TLC |
| `DaemonProofs` | inductive invariants of `Daemon`, the theorems they give, and that it implements `Ledger` |
| `Ledger` | the abstract specification of what the daemon keeps |
| `Arbitration` | scheduler, loop, client and services in a closed world: memory is conserved, polls go by, the daemon is killed |
| `MCArbitration` | three services, the lowest of which never lets go |
| `Card` | which card is read: opening NVML or scanning sysfs, a system call a step, while the machine changes |
| `MCCard` | a machine of five cards, and a hybrid one of two |
| `CardProofs` | the inductive invariants of `Card` and its theorems |
| `Socket` | any number of daemon processes on control socket paths, one system call a step, and a client that looks for one |
| `MCSocket` | three daemons on one path |
| `SocketProofs` | the inductive invariant of `Socket` and its theorems |
| `Adapters` | one `Release` or `Stop` of each adapter against its service, with its timers |
| `AdaptersProofs` | the inductive invariants of `Adapters` and of `Exchange`, and their theorems |
| `Exchange` | extends `Adapters` by an eviction's client, connection and handler, and the time each allows the others |
| `MCExchange` | pairs of services with a client, and one service of every kind without |
| `Config` | loading, layering and validating files that may change meanwhile, and `status` comparing a daemon's digest with them |
| `MCConfig` | fourteen files that retune, contradict or complete each other, or spell something otherwise |
| `ConfigProofs` | the inductive invariants of `Config` and its theorems |

Definitions introduced as "Mutant of X" are plausible bugs. No specification uses them:
they exist so that each property can be shown to fail when X has that bug.

### Scheduler

A plan's actions are a *set* of `[service, verb, expect]`: the daemon runs them
concurrently, one per service, so the slice's order matters only for which
services are chosen. The code walks the sorted candidates with a running sum;
the specification characterises the result instead (`StillNeededAt`: s is
chosen if what the permitted candidates before it hold falls short), and
`PlanIsTheWalk` checks that against the loop written as a fold over the sorted
sequence. Notes keep the service and the stage that passed it over; wording and
the reasons inside a stage are left out. Sorting is lexicographic on keys
(`KeysBefore`); the stable sort of claims shows in the key `pos`, which tells a
claim copied from the map from one appended to the slice by a dry run.

### Daemon

| State | Code |
|---|---|
| `claims`, `cooldowns`, `inflight` | the maps of `Daemon` under `mu` (`NoClaim`, `0`: absent) |
| `pc`, `req`, `seen`, `plan`, `reply` | locals of one tick or one handler: how far it got, its request, its copies of the maps, its plan's figures, its answer |
| `job[w][s]` | the goroutine acting on s for worker w: `none`, `go` (started), `acting` (slot taken), `recorded` (effect recorded), `done` (a client waits for the result) |
| `now` | the clock `time.Now()` reads |
| `dryRun` | the daemon's own `--dry-run`, fixed at start |
| `sinceMark`, `overruled` | history, read by properties only: actions begun since a round looked at `inflight`; clients whose claim another request has changed since they recorded it |

| Action | Code |
|---|---|
| `StartTick`, `ApplyInflight`, `ApplyCooldowns`, `DecideTick` | `Run`, `tick`, `observation` (`daemon.go:115-160`, `203-221`, `260-277`) |
| `RecordClaim`, `ReceiveOther`, `ReleaseClaim` | first sections of `handleRequest`, `handlePlan`, `handleEvict`, `handleReleaseClaim` |
| `AnswerPlan`, `AnswerDryRun`, `DecideClient`, `Answer`, `HangUp` | their ends |
| `Acquire`, `Skip`, `ExecuteOne`, `ReleaseSlot` | `executeGuarded`, `executeOne`, `recordEffect`, `releaseSlot` |

*Grain.* Each mutex section is one step, so anything may happen between two of
them. Two merges: the probes and the copy of the claims after them are one step
(probes read nothing the daemon keeps; what they and the card said is drawn where it is
first used), and `ExecuteOne` is reading the card,
calling the adapter, reading the card again and recording the effect. The
second is one step because nothing in between touches shared state; how long it
takes is in the freedom to take it at any time. Two clock readings are taken before
the mutex and used inside it: `ApplyCooldowns` works with one anywhere between the
previous section and its own, and a new claim has the time its handler read, which is
any time until it is recorded (`ClaimTimes`, `daemon.go:681` and `687`).

*The world.* Probe results, free memory and the outcome of adapter calls are
drawn freely from the constants in the step that first uses them. Other
programs share the card, so nothing the daemon holds constrains a reading;
anything the daemon could see, it sees here. Therefore no property of `Daemon`
speaks of what is *really* free; that is for the closed world of `Arbitration`.

*Left out.* `ping` and `status` only read. Requests that name no configured
service are answered with an error before they change anything. The announced
deadline (`announce`, `longestAction`, `connBudget`) is in `Exchange`, the daemon's
shutdown in `Socket`, the observer's choice of one card among several in `Card`.

### Ledger

What the daemon promises about the state it keeps, without observations, plans,
goroutines or replies: seven actions (time, a claim, which may be entered after the time
it was made at, its end, the end of cooldowns, and taking, recording and giving back a service) where `Daemon` has more than twice as many.
`Daemon` instantiates it as `Promise`: `looking` is `dryRun`, `taken` is `inflight`,
`working` and `spent` are, for each service, who has a goroutine that is `acting` or
has `recorded`. `ImplementsLedger` says that every step of the daemon is one entry of
the ledger or none. It carries what used to need properties of its own: claims keep
their time, a slot is given back only by who took it, an effect is recorded once, and
a dry daemon writes nothing.

### Arbitration

`Daemon` shows what the daemon does with any reading; here the readings come from
services that load, let go at once, late or never, so that one round's effect is the
next round's reading.

| State | Code |
|---|---|
| `held`, `late` | the services (external): what each holds of the card, which will let go though nobody waits for it |
| `claims`, `cooling`, `slot` | the maps of `Daemon`; a cooldown is kept as the polls it has left |
| `round`, `age` | how far each round is and what it has seen; the polls that have gone by in the loop's |
| `started` | goroutines that have yet to take their slot |
| `due` | the one tick the ticker's channel holds |
| `troubles` | the bound's counter |

| Action | Code |
|---|---|
| `Load`, `LetGo` | the services |
| `Poll` | a poll interval goes by, in a round or between two: cooldowns run down, and a tick that finds the channel full is dropped |
| `LoopLooks`, `ClientLooks`, `Copy`, `Act` | one round (`tick`, `execute`): the card and the probes; the claims and the marks of what is in flight; cooldowns and the decision |
| `Ask`, `Drop` | `handleRequest`, which goes on to the client's round, and `handleReleaseClaim` |
| `Begin`, `End` | `executeOne`: the slot and the reading before the call, or none if the slot is taken; the reading after it with `recordEffect` and `releaseSlot` |
| `Restart` | the daemon is killed and started again; nothing is on disk |

Between any two of these the services, time and other workers go on, so an action may
begin and end between a round's look and its own start and be repeated from the old sight,
and a cooldown may run down while a round waits for its probes. What is coarser than in
`Daemon`: the card and the probes are read in one step and always answer, claims and slots
are copied in one, and an action's second reading is one with the record and the return of
the slot. A round of the loop takes at most `Slowest` polls, and it starts none before the
goroutines of its last have taken their slots or been turned away.

`Act` calls `Scheduler`'s own `Decide`. Claims carry no time, so no two services share
a priority. `Policy` has a floor, so the loop acts without a claim as well. `End` may come
before the service has let go: that is a drain given up or a success reported too
early, and the memory then comes late, to be credited to another action or to none.

### Card

| State | Code |
|---|---|
| `fault`, `driver` | the machine: what is wrong with each card's entries, and whether NVML loads |
| `index` | `policy.gpu_index` |
| `pc`, `looking`, `todo` | how far `Open` and the scan got (`gpu.go`, `sysfs.go`) |
| `source`, `listed`, `unreached` | the open source, the cards it lists, those it lists as unreadable since the scan |
| `reading` | whose memory the last reading was of |
| `vanished` | history: directories lost between two calls of one classification |

| Action | Code |
|---|---|
| `Break`, `Mend`, `SwapDriver` | the machine |
| `OpenNVML`, `ReadDir` | `Open`: NVML, failing that sysfs |
| `Lstat`, `Stat`, `StatVendor`, `EndScan` | the scan and `classifyCard`, one system call a step |
| `Start`, `Read`, `Stop` | the daemon's first reading, which it refuses to start without; `Device` (`observe.go`); `Close` |

NVML numbers cards by their bus address and lists all or none; sysfs numbers all real
cards in the kernel's order and records a failure on its own card. What counters say,
and the list of processes, are only read and are left out.

### Socket

| State | Code |
|---|---|
| `path`, `listening` | the file system and the kernel: which inode is at a path, which sockets accept. An inode is named by the process that bound it |
| `pc` | where `Run`, `Listen` and `Close` are in each process (`ipc.go:441-498`, `daemon.go:82-132`) |
| `cancelled` | the context `Run` was given has ended |
| `unlinked` | `unlinkOnce` of the standard library's `UnixListener`: only its first `Close` unlinks |
| `client` | `Exchange` and `doAt`: the next path to try, whom it has met, the paths where a socket listened and could not be dialled |
| `disturbed` | history: paths on which a start met another start or a stop, or failed to dial a socket that listened |

| Action | Code |
|---|---|
| `Start`, `RefuseUnreadable` | `Run` reads the GPU before it touches the socket |
| `Stat`, `DialRival`, `RemoveStale`, `Bind`, `ListenOn`, `Chmod`, `DropUnlink`, `DropClose` | the calls of `Listen`, with its error returns |
| `Cancel`, `CloserUnlinks`, `CloserCloses` | a signal, and the goroutine `Serve` starts to close the listener |
| `LeaveLoop`, `CloseUnlinks`, `CloseCloses`, `CloseRemoves` | the deferred `Close` after the loop, which may first finish a tick |
| `Crash` | the process is killed at any step |
| `Ask`, `DialNext`, `Answer`, `FailAtDaemon` | a client |

The model has no fairness: what is at stake is what may happen. A dial may fail at a
socket that listens (`DialsFail`): its mode keeps the caller out, or its backlog is full.
Client and start alike take any failed dial for nobody's. The length limit of a path and
directories are left out.

### Adapters

A service is external: what it has loaded, what is at work, what it is letting go.
It lets go of it at any later time, or never; users put models to work at any
time. An action is a Go `Result` and error in the making (`act`): the request it
waits for, the loop variables around it, and three timers. Time is in units of
5 s, which divides every limit involved: `StopTimeout` 18 (90 s), `UnloadTimeout` 12
(60 s). A request that is due fails before time goes on. Its own limit is all that bounds
a request: the transport's limits on a dial (3 s), a handshake (5 s) and the wait for a
header (10 s, `httpclient.go:65`) can only make it fail sooner, as it may at any time, and
not its body. Ollama's poll interval of 250 ms is less than a unit and is no time here. An
answer comes in the step in which it takes effect, or is lost.

| Action | Code |
|---|---|
| `Begin` | the call from `executeOne`; `FirstRequest` holds `Stop`'s own test of `allow_stop` |
| `OllamaListed`, `OllamaUnloaded`, `OllamaUnloadLost`, `OllamaPolled` | `Release`, `unload`, `waitDrained` of `ollama.go` |
| `ComfyChecked`, `ComfyFreed` | `Release` of `comfyui.go`, both requests under one timeout |
| `LlamaListed`, `BlockingArrives`, `BlockingDone` | `Release` of `llamaswap.go` and, for the last two, `Stop` of `systemdunit.go` |
| `RequestFails`, `RequestTimesOut` | any error of `doJSON` or `runSystemctl` |
| `Use`, `Rest`, `Goes`, `Tick` | users, the service, time |

`asked` and `away` are history: what an action has had its service let go of, and
what of it has been gone at some time since.

### Exchange

One client asks for an eviction with `plan_first`. `client` is what it waits for
(the announcement, then the results) and for how long still; `conn` is the
daemon's side: observing, acting, the budget that `serveConn` set, the plan. The
actions are those of `Adapters`, started by `BeginAll` when the plan is made.
Users are quiet here: what they do changes which requests an action makes, which
`Adapters` explores, but not how long one may take. `actionBound`'s saturation is
left out, because no limit within its bounds comes near it.

### Config

| State | Code |
|---|---|
| `files`, `edits` | the file system at the two usual paths: a content, nothing, or nothing that can be read |
| `daemon` | a daemon's `LoadFrom` while it runs (`next`, and `policy`, `services`, `sources`, `digest` so far), then the configuration it serves under, or its refusal |
| `client` | `configDrift` in a `status` command: the report it has, what it has read again, its answer |
| `edited`, `undisturbed` | history: an edit since the daemon began to load; neither an edit nor a restart since the client asked |

| Action | Code |
|---|---|
| `Start`, `ReadNext`, `Finish` | `LoadFrom`: one `ReadFile` with its `mergeFile` a step, then `Validate` |
| `Ask`, `Reread`, `Compare` | `configDrift`, `ContentDigest`: one `ReadFile` a step |
| `Edit` | an editor; files are replaced whole, so no reader sees half of one |

A file is what TOML makes of it: the keys its policy table sets, and its service
blocks in order. A table or a service is the set of keys that are set and their raw
values, so one operator, `Overlay`, is both the seven `if`s of the policy and the
eight of `mergeService`. `mergeFile` decodes a file twice: the typed decode, which supplies
names and values, takes tables and keys in any case, and the untyped one, by which bounds
and units are checked and keys are known to be set, only as they are written. `odd` and
`oddBlocks` say what of a file only the first of them sees, `RawPolicy` and `RawBlocks` are
what the second does. That one file spells one thing in two ways is left out. Decoding (`Decode`) is where a bare 0 would pass for a duration
and a negative number wrap. What names, units and endpoints look like is three
sets. Services are a function of their names: the slice's order decides nothing
but the order of messages. A digest is the sequence of contents it covers: SHA-256
is taken to tell contents apart. A client's own load of its configuration, before
it asks, is the same code on the same files and is left out. So is the time a
configuration was loaded, which is only printed. A daemon of another release is one
that reports another recipe.

## Runs

| Run | What it explores | What it shows |
|---|---|---|
| `plans` | all 12^3 conditions of three services x 4 rankings x 6 demands x 4 card readings for `Decide`; the same worlds x every set of names for `Evict`, every kept name for `EvictAllExcept` | the five properties of plans in `Planner` |
| `daemon_core` | one tick, one client with any of its requests again and again, two services, daemon acting or dry | types, that a unit without `allow_stop` is never stopped, and that all of it is the ledger's |
| `daemon_overlap` | two rounds whose actions overlap, one operator, time passing, the first round's adapter call may hang; fairness | one action per service, cooldowns, that what can let go is not stopped, answers, slots, the loop goes on |
| `daemon_queue` | two clients that claim, claim again with another need, and release, for two services of one priority, over three clock readings; each claim is recorded with a reading that may be an earlier one by then | the queue, and what each is told of its target |
| `arbitration` | polls, one of which may fall in a round, one claim that comes and goes, actions that end early, fail, are repeated from an old sight, or are credited with another's memory, a stubborn service, a load or a restart; fairness | every demand is served in the end |
| `card` | a daemon that starts, reads and stops again and again while entries break and mend and the driver comes and goes | no real card is lost, no fault shifts an index, sight returns with the card |
| `socket` | three daemons start, are cancelled, stop and are killed on the user's path while a client tries it and the system's | who is reachable, who is kept out, what is left behind, what a client says |
| `exchange` | two parts. Without a client: one service of each kind, two models, two timeouts, with and without `allow_stop`, beside a unit nobody may stop. With one: two services in four pairs of configurations, every plan over them | what a result may claim, what a partial failure leaves, how long an action runs, whose work is ended; who waits too short a time for whom |
| `config` | one daemon after another loads the two files or the one it is told to, in every pairing of fourteen contents, under two edits at any step; a client asks, again and again | what a daemon runs under, and what status says of it |
| `dry_preview`, `socket_stolen`, `card_hybrid` | expected violations | the findings below |

*Bounds and why they are enough.* Three services are enough for every comparison
of the scheduler's order (two candidates and a beneficiary), with held memory
0 to 3 against targets 0 to 3 and cards of 4, so that the walk ends before, at and
after each candidate; one card reading has more used than total. Two services are
enough for the daemon because every shared map is indexed by service and
services only meet in a plan: hi can be the beneficiary and lo the candidate,
and an operator can name either. Two rounds and a client are the three actors
that can meet on one slot: one holds it, one is refused, one acts later from an
older look. `Rounds` are reused, but only when the actions they started have
ended: the real daemon has no such bound on overlapping rounds. `MaxTime` is two
or three with `action_cooldown` 1: a cooldown starts, runs and ends, and a claim may be
recorded after one that is younger. The services of `daemon_core` are two units of which one
has no `allow_stop`, those of `daemon_overlap` can let go and one of them could be stopped
as well, so that each half of `StopIsTheLastResort` has a run in which it could fail. Free figures 0 and 2 (0 alone in
`daemon_overlap`, where a gain could only end a cooldown) with `minEffect` 1
make an action fail, gain, gain nothing, or go unmeasured.

Three services in `Arbitration` are one to be served, one that can be freed for it,
and a stubborn one below both that is always asked first. A card of 2 with a floor of
1 is met, short by a part, and short by all. A round may outlast a poll (`Slowest`), so
that a tick waits when it is over, and `Cooldown` is 2 polls, the shortest that outlasts
it. One trouble (`MaxTroubles`) is a load that undoes a release, which is enough to make a
demand return, or a crash, which can strike at each step.

`Card`'s machine has a framebuffer (card0, virtual), a card without a device (card1),
an NVIDIA card (card2) and two AMD ones (card3, card10), so that names sort otherwise
than numbers, two cards are skipped and NVML lists fewer cards than sysfs. Three changes
(`MaxChanges`) are a fault during the scan, a mend after it and a driver that comes or
goes; the indexes 0 to 2 name each real card. All entries but the bare one's may break, the
virtual card's too. The hybrid machine is an AMD card before an NVIDIA one, and nothing
needs to break on it.

Three processes on one path let a third meet what two others have left of it: a
stolen socket needs two, a successor's socket removed by a late `Close` needs two,
and a third shows that what they leave keeps nobody out. Any dial may fail. Each runs once,
because a restart is a new process with the same path. Nobody listens on the second path, so
that the client's search goes past the first.

One service at work is enough for `Adapters`, whose actions share nothing; the unit beside
it shows that nothing ends its work. Two models give a release that fails between two
unloads. With a timeout of 5 s requests are shorter than the drain of 10 s, with 15 s one
poll outlasts it. A client needs two services because its waits are maxima: the
defaults of each kind, an Ollama whose drain is as short as one request, and a ComfyUI whose
probe may take longer than a client waits for an answer, beside a unit whose stop takes
longer than is announced for it.

Two files are all that `SearchPaths` ever lists. The fourteen contents of `MCConfig` have
values at each bound and beyond it, keys that are only valid with the other file's,
blocks that complete, contradict or clear one another, each reason to refuse a
file, and two spellings by which it is not refused: a policy key out of its bounds in
another case, and `[[Service]]` with one limit above its bound and one below; what an edit leaves is drawn from five of them, so that a comment is edited,
a service retuned, a file removed or locked away. Two edits are an edit and its
reverting: a digest that matches again must be of the same bytes. `Word` is 1024
instead of 2^64.

`Planner` may stop: its machine makes one plan. So may `Socket` and
`Exchange`: when every process has ended, or the one exchange is over. No daemon
run may, nor may those of `Config`, `Card` and `Arbitration`.

*Fairness* (`FairSpec` of `Daemon`). The ticker fires again, and the Go runtime runs each
goroutine: weak fairness of the loop's start, of each round's steps, of each
handler's steps and of each action goroutine. An adapter call ends because the
daemon makes it under a context with a timeout; for the calls in the constant
`Hanging` that is not assumed, to show that the loop and other clients do not
depend on it. Nothing is assumed of clients: they need not ask. The clock need
not advance. `Arbitration`'s fairness is the same, coarser: the ticker fires, the loop
looks, and each round and each action ends, which is stated of the states
(`[]<>(slot[s] = FreeSlot)`) and not of the actions, as a service that is acted on again
and again is as good. Of the services it assumes that one which is told to let go again
and again does so in the end (strong fairness of `LetGo`), except for those in
`Stubborn`. No other module has any.

## Findings

Each is a run that TLC must find violated; `PROJECT.json` quotes the lines.

* `dry_preview` (`DryRunPlansTheRealThing`): a dry run for a service that already
  holds a claim appends a second claim with the same time; the stable sort keeps
  the old one first, and the preview is for the old need.
* `socket_stolen` (`LiveSocketIsNeverRemoved`): two daemons that start together
  both find a stale socket; the slower one's `os.Remove` takes the socket the
  faster one already serves, and nobody can reach that daemon again. A late
  `os.Remove` in `Close` does the same to a successor, and so does a start whose dial
  fails at a socket that listens (`ipc.go:454`). `UndisturbedIsReachable` shows that without
  any of these it cannot happen.
* `card_hybrid` (`NvidiaKeepsItsIndex`): where an integrated AMD card is card0 and the
  NVIDIA card is card1, index 0 is the NVIDIA card under NVML and the AMD card under
  sysfs, so that a start without the driver arbitrates another card (`sysfs.go:123`), where
  the comment (`sysfs.go:22-24`) speaks of this very machine. `FaultsDoNotShiftTheIndex` is
  what does hold: on either source alone, no fault moves a card.

Met as well, and without a run:

* *A socket one may not open* (`ipc.go:270-271`, `307-319`, `333-337`). `ErrNoDaemon` "means
  nothing was listening on any candidate socket", and `INSTALL.md:511-519` shows it printed
  for a daemon that runs, to a user whom its socket's mode keeps out. Any dial that fails
  counts as nobody's. `NoDaemonIsTrue` holds but for such a socket (`barred`), and with
  `barred` left out of it TLC finds the daemon that is denied.
* *Two decodes of one file* (`config.go:421-484`). The typed decode takes tables and keys
  in any case, the untyped one only as they are written. A service under `[[Service]]` with
  `timeout = "100h"` is accepted beyond the bound and a negative `drain_timeout` in it is
  replaced by the default (`config.go:705-710`), though "every numeric key is range checked"
  and no value a file sets is "replaced here by the default" (`config.go:457-460`, `676-679`);
  the same block for a service of an earlier file is ignored, and so is `Poll_Interval` in
  `[policy]`, without a word. `AcceptedIsUsable` and `LastWordWins` name these exceptions
  (`Miscased`, `RawPolicy`) and hold for the rest.
* *Acting twice on one sight* (`daemon.go:241-246`). The slot stops two actions from
  overlapping, not a second one from an old look: when another worker's action begins
  and ends between this worker's probes and its own start, the slot is free again and
  the service is acted on twice. `LoopHonoursCooldowns` excepts it (`sinceMark`), and
  `Arbitration` has it.
* *llama-swap's minute* (`llamaswap.go:64-67`, `195`; `httpclient.go:65`). The unload has a
  context of 60 s and a transport that gives up after 10 s without a header, which
  llama-swap only sends when all is unloaded.
* *Short cooldowns* (`config.go:207`). `action_cooldown` is accepted down to a nanosecond,
  and a probe may be given an hour. When a cooldown does not outlast a round,
  `DemandsAreServed` fails (with `Cooldown` = `Slowest`): a service that never lets go is
  asked in every round, and it shields those above it for ever.
* *More than the target* (`daemon.go:158`). Memory that actions in flight are about to
  give back is not counted, and a service in flight is no candidate: the next round asks
  the next service up.
* *Whose `target_met`* (`daemon.go:725-731`). A request that waits behind another service's
  claim is told whether *that* claim's target is met, and when the card cannot be read 0 is
  compared with 0 and the answer is yes, where `ipc.go:153-154` promises a measured figure
  against "the target the request set". `TargetMetIsRightForTheWinner` is what does hold.
* *Announced and real durations* (`systemdunit.go:54`, `daemon.go:377-393`). A unit's stop may
  run for 90 s where the client is told `timeout` + `drain_timeout`, 35 s by default, and
  waits 45; Ollama's release with several models, a list and polls may also outrun the
  sum of one timeout and one drain. `ActionsEndInTime` has the sums that do hold, and
  `LateOnlyForSlowServices` what they mean for a client.
* *Relative paths* (`cli/commands.go:289-291`). A daemon given a relative `--config` reports
  the path as it was given, so that a client in another directory reads another file, or
  none, where the comment says that it re-reads the daemon's own.
* *One device hides all* (`nvml_cgo.go:61`). Under NVML one device that cannot be read
  hides the others; under sysfs none does.

## Proofs

`tlapm` checks every step. Every invariant and every action property of a run that
passes is stated by a theorem, for every value of the constants, but for the types of
`Arbitration`. What is assumed of the
constants, TLC evaluates in the runs as well:

| Assumption | What it says, and why the code justifies it |
|---|---|
| `NamesAssumption` | services are finitely many, their names distinct, ordered and not empty (`Validate`) |
| `PlannerAssumption` | sizes are unsigned, priorities integers; claims are a slice, so no two of a service share a place in it |
| `DaemonAssumption`, `ArbitrationAssumption`, `SocketAssumption`, `ConfigAssumption`, `CardAssumption` | the constants have their types; in `Arbitration` priorities differ, since claims carry no time there, and a cooldown outlasts a round of the loop (`Cooldown` > `Slowest`), which holds of the defaults (60 s, against polls and probes of 5 s) and which the code does *not* ensure (*Short cooldowns* above) |
| `AdaptersAssumption` | a service has finitely many models |
| `ExchangeAssumption` | services are finitely many and their limits positive (`config.go:209` and the defaults) |

No theorem has an assumption of its own.

Several results need that something finite has a best element or that a sum over it can
be taken in order: the claim served, the longest of several limits, what services hold
in all, the candidates a walk has passed. The library states that by induction with an
operator as a parameter, which the provers cannot instantiate. The proofs go another way:
strict inclusion is well founded on the subsets of a finite set, so a collection of them,
those that a result is wrong for, has a least one if it has any, and that is refuted.

`SchedulerProofs` shows what any plan may contain: `DecideActsOnCandidates`,
`EvictActsOnTheNamed`, `EvictAllExceptSparesTheKept`, `VerbsAreTheLeastInvasive`.
`NoPingPongEver` is stronger than the checked `NoPingPong`: the two plans may be
made from different observations, as long as priorities are the same. It follows
from strictness of `<`: a plan for b names t only below b, so a plan for t names
only what is below t.

`PlannerProofs` proves the five properties of plans that `plans` checks, for any world.
`PlannerInv` (`PlansAreMadeFromObservations`) says that the observation has its types and
that the plan is one of the scheduler's three on it; the properties are then theorems
about operators. `ThePlanIsTheLoops` is the hard one: the loop keeps a running sum and
stops by it, the plan is defined by what is held before each candidate. The proof shows
that the loop's fold exists (`WalkExists`), and goes one candidate at a time
(`ChosenOneMore`): the last is chosen if it permits an action and what is chosen of the
others falls short, which rests on `ShortMeansAll`, that while the choice falls short
everything permitted is chosen.

`DaemonProofs` has nine theorems about `Spec`, for any number of services, rounds,
clients and requests, and any readings:

* `TypeCorrect` (`StateOK`, the part of `TypeOK` about shared maps and goroutines), which
  the others stand on.
* `SlotsExclude` (`OneActionPerService`). Not inductive as it stands: a worker
  replaces all its goroutines when it decides and when it answers, and would drop
  a slot holder. The strengthening `QuietUntilDecided` says that a worker that has
  not decided has no goroutine. Three lemmas, `MovingOn`, `StartingOver` and
  `OneGoroutineMoves`, each cover one shape of step, and `NextSlots` has one case
  per action.
* `TicksHonourCooldowns` (`LoopHonoursCooldowns`). The invariant `SightHolds` is
  the argument for the order of the two readings: after a round has copied the
  in-flight marks, a service that was not in flight and that nobody has acquired
  since has no goroutine acting on it, so no cooldown can start for it; after the
  round has read the cooldowns, such a service that it does not see cooling is
  not cooling. It rests on `SlotInv` (the marks are exact) and on two lemmas on
  where a running cooldown and an acting goroutine can come from.
* `CooldownsLast` (`CooldownsRunTheirTime`), `StopsAreLastResorts`
  (`StopIsTheLastResort`), `DryRunsLeaveNoTrace` (`DryDaemonLeavesNoTrace`, which no run
  checks, as it follows from `ImplementsLedger`).
* `StateAndAnswersAreTyped` (`TypeOK`) and `WinnersAreToldTheTruth`
  (`TargetMetIsRightForTheWinner`). Their invariant is `AnswerInv`: every copy of the
  claims is a slice, with at most one claim of a service at each place, so that it has a
  best one (`SightOK`); a client acts only for a `request` or an `evict` (`WasAsked`); a client's own
  claim stands as it asked for it, first in the map, then in its copy, then in its plan's
  target, as long as nobody has overruled it (`ClaimStands`); and what it was told
  compares with that target (`ToldTheTruth`). Without `ClaimStands` the property is not
  inductive: three mutex sections lie between the claim and the answer.
* `TheQueueIsKept` (`NobodyJumpsTheQueue`). The winner is the one before which no claim
  goes (`WinnerGoesFirst`), and no claim that stands moves (`ClaimsKeepTheirTime`); so who
  takes the winner's place has a higher priority, or is new and brings a clock reading no
  later than the winner's (`WinnersKeepTheirPlace`). That a newcomer brings a later one
  cannot be shown, since handlers read the clock before they take the mutex.

`DaemonKeepsTheLedger` is the refinement, a step simulation on
`SlotInv`. Most steps leave the ledger alone, which is one lemma
(`LeavesTheLedgerAlone`); the others are one entry each. That a worker replaces its
goroutines only when none of them holds a slot is what keeps `working` and `spent` from
being cleared behind the ledger's back.

`CardProofs` proves the four properties of `Card` for any machine and any number of faults
and restarts. `ScanLosesNobody` says that during the scan a real card is listed, still to
come, or being looked at, or has vanished between two calls. `RunsOnAReachedCard` holds
because sources are fixed while a daemon runs. `WhatIsUnreachedIsListed` is its `TypeOK`.
`FaultsLeaveTheIndexAlone` (`FaultsDoNotShiftTheIndex`) adds to them that a source's cards
are numbered in one order for all time: a reading is of a card at the index in the
source's order, and nothing is listed but real cards and those that could not be
classified (`IndexInv`).

`AdaptersProofs` proves all five properties of `Adapters`, for any services, any limits and any
finite set of models. `Book` says what an action has in hand at each request: nothing
before the list, then what it names is exactly what it has asked, and with what is still
to do it is the list (`HandIsKept`); what was asked and has not been gone since is still
loaded (`AskedIsThereOrAway`), so that a last poll that sees none of it means all has been
gone. `InLimits` carries the time: an Ollama release has a request left for every model
still to do, which the invariant adds to what it has used, and every poll after the drain
began counts against the drain but for the last. ComfyUI's second request gets what is left
of the first one's limit, and that this is never negative is part of the same
invariant, on which `ActionTypesAreCorrect` rests.

It goes on to the two properties of `Exchange`, for any finite set of services and every
plan over them: `WaitsAreEnough` (`LateOnlyForSlowServices`) and `BudgetsAreEnough`
(`BudgetOutlastsTheWait`). Neither is inductive: a step of time is harmful only for what
has happened before it. `ExchangeInv` keeps the accounts. While the client waits for its
announcement, what it has left and what the observation has taken are `PlanWait`
(`Observing`). While it waits for the results, every action of its plan that still runs
is as old as that wait, and one of them is within its own limits, so that a client that
gives up has outwaited an action by `actionBound` (`Acting`); and the connection has lost
no more of its budget than the observation and the wait have taken. `LimitsHold`, the
argument of `ActionsEndInTime`, is what bounds an action.

`SocketProofs` proves the four safety properties of `Socket` and its `TypeOK`, for any
number of processes and paths. None is inductive: a daemon keeps its socket because
nobody else is at work on its path, and that holds because every other process has
seen it there. `SocketInv` says so: on a path that nothing has `disturbed`, a process that starts
is the only one that starts or stops (`OneAtATime`), what it has seen of the path is
still so (`SightIsTrue`), so none of its calls fails (`NoneFails`); an inode is only ever
bound by its own process at its own path (`InodesAreOwned`). `ClientInv` adds that no
step makes a daemon reachable that was and is no longer (`GoneIsGone`), which is why a
client that passed over a path may say that nobody was there, except at a socket that
was bound and could not be dialled (`barred`).

`ConfigProofs` proves the four safety properties of `Config` and its `TypeOK`, for any
contents, any number of edits and any text. `UsableInv` carries `AcceptedIsUsable` through the merge:
every value set so far is in its bounds, except a timeout that is still 0
(`LooseBounds`) and the limits of a service that was spelled in another case, which
nobody has looked at (`Mergeable`, `Miscased`); it rests on `DecodesToItself`, that a raw value within its bounds
survives decoding, which is what checking the raw value is for. `ReportInv` ties the
digest to the files: what has been read is still at its path unless `edited`, and a
client's report is the daemon's unless it has been disturbed. `LayeredInv` says that
what has been merged so far is what the contents read so far say, key by key, as far as
the untyped decode sees those keys (`RawPolicy`, `RawBlocks`); a last
speaker must exist before `LastWord` means anything (`OneMoreHasLast`), and the
defaults filled in at the end replace nothing that was set (`DefaultOnlyIfUnset`).
`AnswersAreRight` follows from all three: equal digests are equal contents, and the
configuration is a function of those. `ConfigurationsAreTyped` needs little more: bounds
are types (`BoundsAreFields`), and `TypeInv` adds how far the daemon and the client have
read in the files they know of.

Only model-checked: the types of `Arbitration`; the four liveness properties, `DemandsAreServed`,
`EveryRequestIsAnswered`, `SlotsAreReturned` and `LoopKeepsPolling`, because fairness and
`ENABLED` are beyond the prover; and, as they are violated, the properties of the findings.

## Plan

What is left, in order:

1. Adapters, continued: `Probe`'s readings (idleness, held memory, what a failed
   request leaves unknown) and with them the observation `Daemon` draws freely.
2. `Exchange`, continued: other requests, several clients on one daemon, a daemon
   that is cancelled while it acts.
3. What the command line says of a reply: the report of what was freed, and the answer
   when no daemon could be reached.
4. Proofs: that what `AcceptedIsUsable` says of a configuration is what the other
   modules assume of theirs (`ServiceConfig` of `Daemon`, the positive limits of
   `Exchange`), and that `Arbitration`'s coarse rounds are rounds of `Daemon`.

## Not modelled

Wire encoding and its size limits, printing, argument parsing and packaging are input and
output without state of their own. Parsing what NVML, sysfs and the services answer is left
out: their readings are drawn from small sets. Request and configuration names are
atoms; what a name, a unit or an endpoint may look like is three sets in `Config`.
