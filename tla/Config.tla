------------------------------- MODULE Config -------------------------------
(***************************************************************************)
(* How a configuration comes to be, and how a client tells that it is old: *)
(* LoadFrom reads the files of SearchPaths one by one, layers them key by  *)
(* key and validates the result (config.go); the daemon keeps it for life  *)
(* and reports a digest of what it read; `status` reads the same files     *)
(* again and compares (configDrift, commands.go).  Meanwhile somebody      *)
(* edits them.                                                             *)
(*                                                                         *)
(* Durations are in units of 500 ms.  An endpoint stands for itself with   *)
(* and without trailing slashes, which Validate cuts.                      *)
(***************************************************************************)
EXTENDS Integers, Sequences

CONSTANTS
    Texts,            \* the strings a file may hold
    Contents,         \* what a file may hold
    ValidNames,       \* names that match nameRE
    ValidEndpoints,   \* endpoints that validateEndpoint accepts
    ValidUnits,       \* units that validateUnit accepts
    Environments,     \* where a daemon looks for files: the domain of SearchPaths
    Recipes,          \* the digest recipes of the daemons a client may meet
    Word,             \* 2^64, at which an unsigned integer wraps
    BareZero,         \* a duration written as the number 0, not as a string
    Absent,           \* a file that is not there
    Unreadable,       \* one that cannot be read
    Revisions,        \* bound: what an edit may leave at a path
    MaxEdits          \* bound: edits of the files

\* The empty string, which in a name, an adapter, an endpoint or a unit is none.
Empty == "<empty>"

PolicyKeys == {"vram_floor_mib", "default_workload", "reactive", "poll_interval",
               "gpu_index", "min_effect_mib", "action_cooldown"}

ServiceKeys == {"adapter", "endpoint", "unit", "user_unit", "priority", "allow_stop",
                "timeout", "drain_timeout"}

DurationKeys == {"poll_interval", "action_cooldown", "timeout", "drain_timeout"}
UnsignedKeys == {"vram_floor_mib", "min_effect_mib"}
NameKeys     == {"default_workload", "adapter", "endpoint", "unit"}

\* A value as a file writes it.
RawValues(k) ==
    IF k \in DurationKeys THEN Int \cup {BareZero}
    ELSE IF k \in UnsignedKeys THEN {n \in Int : n < Word}
    ELSE IF k \in {"gpu_index", "priority"} THEN Int
    ELSE IF k \in NameKeys THEN Texts ELSE BOOLEAN

\* What some of the keys K are set to.
IsSetting(f, K) == /\ DOMAIN f \subseteq K
                   /\ \A k \in DOMAIN f : f[k] \in RawValues(k)

\* A file that decodes (no syntax error, no unknown key) has a policy table and a
\* sequence of service blocks; text stands for the bytes that mean nothing, such as
\* comments.  The typed decode takes a table or a key in any case, the untyped one as
\* it is written: odd are the policy's keys that are not spelled as they should be,
\* in themselves or as the table's, and oddBlocks says that [[service]] is not.  (One
\* thing spelled in two ways in one file is left out: either may be decoded.)
IsContent(c) ==
    /\ DOMAIN c = {"toml", "text", "policy", "odd", "blocks", "oddBlocks"}
    /\ c.toml \in BOOLEAN /\ c.oddBlocks \in BOOLEAN
    /\ c.odd \subseteq PolicyKeys
    /\ IsSetting(c.policy, PolicyKeys)
    /\ Len(c.blocks) \in Nat /\ DOMAIN c.blocks = 1..Len(c.blocks)
    /\ \A i \in DOMAIN c.blocks : /\ DOMAIN c.blocks[i] = {"name", "keys"}
                                  /\ c.blocks[i].name \in Texts
                                  /\ IsSetting(c.blocks[i].keys, ServiceKeys)

ASSUME ConfigAssumption ==
    /\ \A c \in Contents : IsContent(c)
    /\ Absent \notin Contents /\ Unreadable \notin Contents
    /\ Revisions \subseteq Contents \cup {Absent, Unreadable}
    /\ BareZero \notin Int
    /\ Empty \in Texts \ (ValidNames \cup ValidEndpoints \cup ValidUnits)
    /\ Environments \subseteq {"override", "home", "homeless"}
    /\ Word \in Nat \ {0} /\ MaxEdits \in Nat
-----------------------------------------------------------------------------
MinPollInterval       == 2       \* 1 s
MaxServiceTimeout     == 7200    \* an hour
MaxDrainTimeout       == 1200    \* ten minutes
DefaultServiceTimeout == 10
DefaultDrainTimeout   == 60

DefaultPolicy ==
    [vram_floor_mib |-> 512, default_workload |-> Empty, reactive |-> FALSE,
     poll_interval |-> 10, gpu_index |-> 0, min_effect_mib |-> 64, action_cooldown |-> 120]

\* A service of which nothing has been set yet.
NewService ==
    [adapter |-> Empty, endpoint |-> Empty, unit |-> Empty, user_unit |-> FALSE, priority |-> 0,
     allow_stop |-> FALSE, timeout |-> 0, drain_timeout |-> 0]

NoServices == [n \in {} |-> NewService]

\* The table NumericBounds; priority alone has no range.
Least == [vram_floor_mib |-> 0, min_effect_mib |-> 0, gpu_index |-> 0,
          poll_interval |-> MinPollInterval, action_cooldown |-> 1,
          timeout |-> 1, drain_timeout |-> 1]
Most  == [timeout |-> MaxServiceTimeout, drain_timeout |-> MaxDrainTimeout]

Bounds(k) == IF k \notin DOMAIN Least THEN RawValues(k)
             ELSE {n \in Int : n >= Least[k] /\ (k \in DOMAIN Most => n <= Most[k])}

HTTPAdapters  == {"ollama", "comfyui", "llama-swap"}
KnownAdapters == HTTPAdapters \cup {"systemd-unit"}

\* Decoding a raw value into its field: digits pass for a duration if they are
\* 0, and a negative number wraps in an unsigned field.
Decode(k, v) == IF k \in DurationKeys /\ v = BareZero THEN 0
                ELSE IF k \in UnsignedKeys THEN v % Word ELSE v

\* Mutant of OutOfBounds: durations have a lower bound only.
OutOfBoundsBelow(k, v) ==
    v \notin Bounds(k) /\ (k \in DOMAIN Most => v = BareZero \/ v < Least[k])

OutOfBounds(k, v) == v \notin Bounds(k)

\* What the untyped decode knows to be set: of the policy, and in service blocks.
RawPolicy(c) == [k \in DOMAIN c.policy \ c.odd |-> c.policy[k]]
RawBlocks(c) == IF c.oddBlocks THEN <<>> ELSE c.blocks

\* What mergeFile refuses a file for, whatever the other files say: values by the
\* untyped decode, names by the typed one.
Refused(c) ==
    \/ ~c.toml
    \/ \E k \in DOMAIN RawPolicy(c) : OutOfBounds(k, RawPolicy(c)[k])
    \/ \E i \in DOMAIN RawBlocks(c) : LET keys == RawBlocks(c)[i].keys IN
          \/ \E k \in DOMAIN keys : OutOfBounds(k, keys[k])
          \/ "unit" \in DOMAIN keys /\ keys.unit \notin ValidUnits
    \/ \E i \in DOMAIN c.blocks :
          \/ c.blocks[i].name = Empty
          \/ \E j \in DOMAIN c.blocks \ {i} : c.blocks[j].name = c.blocks[i].name

\* Mutant of Overlay: a block restates its service, set or not.
OverlayAll(old, keys) ==
    [k \in DOMAIN old |-> IF k \in DOMAIN keys THEN Decode(k, keys[k])
                          ELSE IF k \in ServiceKeys THEN NewService[k] ELSE old[k]]

\* Settings with those that keys has set in place of the old ones.
Overlay(old, keys) ==
    [k \in DOMAIN old |-> IF k \in DOMAIN keys THEN Decode(k, keys[k]) ELSE old[k]]

Named(c) == {c.blocks[i].name : i \in DOMAIN c.blocks}
BlockOf(c, n) == c.blocks[CHOOSE i \in DOMAIN c.blocks : c.blocks[i].name = n].keys

\* Mutant of MergeServices: a new service is the block that names it.
MergeServicesAsWritten(services, c) ==
    [n \in DOMAIN services \cup Named(c) |->
        IF n \notin DOMAIN services THEN BlockOf(c, n)
        ELSE IF n \in Named(c) /\ ~c.oddBlocks THEN Overlay(services[n], BlockOf(c, n))
        ELSE services[n]]

\* Services are matched by name.  One that is new is what the typed decode made of its
\* block; of another only what the untyped decode knows to be set is replaced.
MergeServices(services, c) ==
    [n \in DOMAIN services \cup Named(c) |->
        IF n \notin DOMAIN services THEN Overlay(NewService, BlockOf(c, n))
        ELSE IF n \in Named(c) /\ ~c.oddBlocks THEN Overlay(services[n], BlockOf(c, n))
        ELSE services[n]]

\* Validate: what a merged configuration is refused for.
ServiceInvalid(s) ==
    \/ s.adapter \notin KnownAdapters
    \/ s.adapter \in HTTPAdapters /\ (s.endpoint \notin ValidEndpoints \/ s.unit # Empty)
    \/ s.adapter = "systemd-unit" /\ (s.unit \notin ValidUnits \/ s.endpoint # Empty)

Invalid(policy, services) ==
    \/ policy.gpu_index < 0
    \/ \E n \in DOMAIN services : n \notin ValidNames \/ ServiceInvalid(services[n])
    \/ policy.default_workload \notin DOMAIN services \cup {Empty}

\* Validate: the defaults it fills in.
OrDefault(n, default) == IF n <= 0 THEN default ELSE n

WithPolicyDefaults(policy) ==
    [policy EXCEPT !.poll_interval = OrDefault(@, DefaultPolicy.poll_interval),
                   !.action_cooldown = OrDefault(@, DefaultPolicy.action_cooldown)]

WithServiceDefaults(services) ==
    [n \in DOMAIN services |->
        [services[n] EXCEPT !.timeout = OrDefault(@, DefaultServiceTimeout),
                            !.drain_timeout = OrDefault(@, DefaultDrainTimeout)]]
-----------------------------------------------------------------------------
Paths == {"system", "user"}

\* $GPU_BOUNCER_CONFIG names the only file, which may be one of the usual ones; a
\* user without a home has no file of their own.
SearchPaths == [override |-> <<"user">>, home |-> <<"system", "user">>, homeless |-> <<"system">>]

DigestRecipe == "content-v1"

VARIABLES
    files,       \* what is at each path
    edits,       \* how often that has changed
    daemon,      \* a daemon: loading, running on what it loaded, or refused
    client,      \* a status command: its copy of the daemon's report, what it reads
    edited,      \* history: a file has been edited since the daemon began to load
    undisturbed  \* history: nothing has been edited or restarted since the client asked

vars == <<files, edits, daemon, client, edited, undisturbed>>

\* A digest is the sequence of the contents it was taken over.
NoReport == [sources |-> <<>>, digest |-> <<>>, recipe |-> DigestRecipe]

Init ==
    /\ files \in [Paths -> Contents \cup {Absent, Unreadable}]
    /\ edits = 0
    /\ daemon = [state |-> "down", env |-> "home", recipe |-> DigestRecipe, next |-> 1,
                 policy |-> DefaultPolicy, services |-> NoServices, sources |-> <<>>, digest |-> <<>>]
    /\ client = [state |-> "idle", report |-> NoReport, read |-> <<>>, answer |-> "none"]
    /\ edited = FALSE
    /\ undisturbed = TRUE
-----------------------------------------------------------------------------
\* Somebody writes, removes or locks away a file.
Edit(p) ==
    /\ edits < MaxEdits
    /\ \E c \in Revisions \ {files[p]} : files' = [files EXCEPT ![p] = c]
    /\ edits' = edits + 1
    /\ edited' = TRUE
    /\ undisturbed' = FALSE
    /\ UNCHANGED <<daemon, client>>

\* A daemon starts, in place of one that has ended or has been refused.
Start(env, recipe) ==
    /\ daemon.state # "loading"
    /\ daemon' = [state |-> "loading", env |-> env, recipe |-> recipe, next |-> 1,
                  policy |-> DefaultPolicy, services |-> NoServices, sources |-> <<>>, digest |-> <<>>]
    /\ edited' = FALSE
    /\ undisturbed' = FALSE
    /\ UNCHANGED <<files, edits, client>>

\* The daemon exits with an error and runs on nothing.
Refuse == daemon' = [daemon EXCEPT !.state = "refused", !.policy = DefaultPolicy,
                                   !.services = NoServices, !.sources = <<>>, !.digest = <<>>]

\* LoadFrom reads the next file, refuses it or merges it.
ReadNext ==
    /\ daemon.state = "loading" /\ daemon.next <= Len(SearchPaths[daemon.env])
    /\ LET path == SearchPaths[daemon.env][daemon.next]
           c    == files[path]
       IN  \/ /\ c = Absent /\ daemon.env # "override"
              /\ daemon' = [daemon EXCEPT !.next = @ + 1]
           \/ /\ c = Absent /\ daemon.env = "override"
              /\ Refuse
           \/ /\ c = Unreadable
              /\ Refuse
           \/ /\ c \in Contents /\ Refused(c)
              /\ Refuse
           \/ /\ c \in Contents /\ ~Refused(c)
              /\ daemon' = [daemon EXCEPT !.next = @ + 1,
                                          !.policy = Overlay(@, RawPolicy(c)),
                                          !.services = MergeServices(@, c),
                                          !.sources = Append(@, path),
                                          !.digest = Append(@, c)]
    /\ UNCHANGED <<files, edits, client, edited, undisturbed>>

\* Mutant of DigestOf: the files are read a second time for the digest.
DigestOfSecondRead(d) == [i \in DOMAIN d.sources |-> files[d.sources[i]]]

\* The digest the configuration keeps: of the bytes that were merged.
DigestOf(d) == d.digest

\* Every file has been read: the configuration is validated and completed, and the
\* daemon serves under it until it ends.
Finish ==
    /\ daemon.state = "loading" /\ daemon.next > Len(SearchPaths[daemon.env])
    /\ IF Invalid(daemon.policy, daemon.services)
       THEN Refuse
       ELSE daemon' = [daemon EXCEPT !.state = "running",
                                     !.policy = WithPolicyDefaults(@),
                                     !.services = WithServiceDefaults(@),
                                     !.digest = DigestOf(daemon)]
    /\ UNCHANGED <<files, edits, client, edited, undisturbed>>
-----------------------------------------------------------------------------
\* Mutant of PathsOf: a client looks at the files it would load itself.
PathsOfOwn(report) == SearchPaths["home"]

\* The files a client reads again: those the daemon reports.  (The joined form that
\* older daemons report is left out.)
PathsOf(report) == report.sources

Comparable(report) == report.recipe = DigestRecipe

\* configDrift on a report: nothing to compare, nothing comparable, or files to read.
Ask ==
    /\ daemon.state = "running" /\ client.state # "reading"
    /\ LET report == [sources |-> daemon.sources, digest |-> daemon.digest,
                      recipe |-> daemon.recipe]
           answer == IF PathsOf(report) = <<>> THEN "fresh"
                     ELSE IF ~Comparable(report) THEN "unknown" ELSE "none"
       IN  client' = [state |-> IF answer = "none" THEN "reading" ELSE "done",
                      report |-> report, read |-> <<>>, answer |-> answer]
    /\ undisturbed' = TRUE
    /\ UNCHANGED <<files, edits, daemon, edited>>

\* ContentDigest reads the next file, or gives up.
Reread ==
    /\ client.state = "reading" /\ Len(client.read) < Len(PathsOf(client.report))
    /\ LET c == files[PathsOf(client.report)[Len(client.read) + 1]] IN
       client' = IF c \in {Absent, Unreadable}
                 THEN [client EXCEPT !.state = "done", !.answer = "unknown"]
                 ELSE [client EXCEPT !.read = Append(@, c)]
    /\ UNCHANGED <<files, edits, daemon, edited, undisturbed>>

\* A daemon of another recipe has digested other bytes than these.
Compare ==
    /\ client.state = "reading" /\ Len(client.read) = Len(PathsOf(client.report))
    /\ client' = [client EXCEPT
                    !.state = "done",
                    !.answer = IF client.read = client.report.digest
                                  /\ client.report.recipe = DigestRecipe
                               THEN "fresh" ELSE "stale"]
    /\ UNCHANGED <<files, edits, daemon, edited, undisturbed>>

Next ==
    \/ \E p \in Paths : Edit(p)
    \/ \E env \in Environments, recipe \in Recipes : Start(env, recipe)
    \/ ReadNext
    \/ Finish
    \/ Ask
    \/ Reread
    \/ Compare

Spec == Init /\ [][Next]_vars
-----------------------------------------------------------------------------
\* A field's values once decoded.
Fields(k) == IF k \in DurationKeys THEN Int
             ELSE IF k \in UnsignedKeys THEN Nat ELSE RawValues(k)

\* Types.  Every file that contributes is in the digest.
TypeOK ==
    /\ files \in [Paths -> Contents \cup {Absent, Unreadable}]
    /\ edits \in 0..MaxEdits
    /\ edited \in BOOLEAN /\ undisturbed \in BOOLEAN
    /\ daemon.state \in {"down", "loading", "running", "refused"}
    /\ DOMAIN daemon.policy = PolicyKeys
    /\ \A k \in PolicyKeys : daemon.policy[k] \in Fields(k)
    /\ \A n \in DOMAIN daemon.services :
          /\ DOMAIN daemon.services[n] = ServiceKeys
          /\ \A k \in ServiceKeys : daemon.services[n][k] \in Fields(k)
    /\ daemon.sources \in Seq(Paths) /\ daemon.digest \in Seq(Contents)
    /\ Len(daemon.sources) = Len(daemon.digest) /\ Len(daemon.sources) < daemon.next
    /\ client.state \in {"idle", "reading", "done"}
    /\ client.answer \in {"none", "fresh", "stale", "unknown"}
    /\ client.read \in Seq(Contents) /\ Len(client.read) <= Len(PathsOf(client.report))

Running == daemon.state = "running"

\* A file of cs has a block for the service n under another spelling of [[service]].
Miscased(cs, n) == \E i \in DOMAIN cs : cs[i].oddBlocks /\ n \in Named(cs[i])

\* What the other modules take for granted of a configuration holds of every one a
\* daemon runs under, whichever files it was layered from: bounds, which are
\* checked file by file on raw values, and what a service needs, which is checked
\* on the merged whole (checkBound, Validate).  A service under another spelling
\* escapes the upper bounds of its two limits, and nothing else.
AcceptedIsUsable ==
    Running =>
        /\ \A k \in PolicyKeys : daemon.policy[k] \in Bounds(k)
        /\ daemon.policy.default_workload \in DOMAIN daemon.services \cup {Empty}
        /\ \A n \in DOMAIN daemon.services : LET s == daemon.services[n] IN
              /\ n \in ValidNames
              /\ \A k \in ServiceKeys :
                    \/ s[k] \in Bounds(k)
                    \/ Miscased(daemon.digest, n) /\ k \in DOMAIN Most /\ s[k] > Most[k]
              /\ s.adapter \in KnownAdapters
              /\ IF s.adapter = "systemd-unit" THEN s.unit \in ValidUnits /\ s.endpoint = Empty
                 ELSE s.endpoint \in ValidEndpoints /\ s.unit = Empty

\* What one file says of the policy (n = Empty) or of the service n.
Said(c, n) == IF n = Empty THEN RawPolicy(c)
              ELSE IF n \in Named(c) THEN BlockOf(c, n) ELSE [k \in {} |-> 0]

LastWord(cs, n, k, default) ==
    LET speakers == {i \in DOMAIN cs : k \in DOMAIN Said(cs[i], n)}
        last     == CHOOSE i \in speakers : \A j \in speakers : j <= i
    IN  IF speakers = {} THEN default ELSE Said(cs[last], n)[k]

ServiceDefaults == [NewService EXCEPT !.timeout = DefaultServiceTimeout,
                                      !.drain_timeout = DefaultDrainTimeout]

\* Every key is as the last of the files cs that sets it says, value for value as it
\* is written there; a key that no file sets has its default.  A key of the policy in
\* another case sets nothing; of a service in another case no more is said than that
\* it is there.
IsLayered(policy, services, cs) ==
    /\ \A k \in PolicyKeys : policy[k] = LastWord(cs, Empty, k, DefaultPolicy[k])
    /\ DOMAIN services = UNION {Named(cs[i]) : i \in DOMAIN cs}
    /\ \A n \in DOMAIN services, k \in ServiceKeys :
          ~Miscased(cs, n) => services[n][k] = LastWord(cs, n, k, ServiceDefaults[k])

\* A daemon runs on exactly what the files its digest vouches for say, as far as they
\* spell it as they should: nothing one of them sets is replaced by a default, by a
\* value of an earlier file, or by one that was edited in while it loaded (mergeFile,
\* mergeService, Validate).
LastWordWins == Running => IsLayered(daemon.policy, daemon.services, daemon.digest)

\* What the files that the daemon has read hold now, if all can be read.
Now     == [i \in DOMAIN daemon.sources |-> files[daemon.sources[i]]]
Legible == \A i \in DOMAIN Now : Now[i] \in Contents

\* An answer of status about a daemon means what it says, as long as nobody has
\* edited a file or restarted the daemon since it was asked for: "fresh" that the
\* daemon runs on what its files say now, "stale" that one of them has been edited
\* since it read them, "unknown" that one cannot be read (configDrift).
AnswerIsRight ==
    client.state = "done" /\ undisturbed =>
        /\ client.answer = "fresh" => Legible /\ IsLayered(daemon.policy, daemon.services, Now)
        /\ client.answer = "stale" => edited /\ daemon.recipe = DigestRecipe
        /\ client.answer = "unknown" => ~Legible \/ daemon.recipe # DigestRecipe

\* A daemon whose files nobody has touched since it began to read them is never
\* called stale or unknown, whatever else its client would read: the remedy that
\* status prints, a restart, must help.
UntouchedIsFresh ==
    client.state = "done" /\ undisturbed /\ ~edited /\ daemon.recipe = DigestRecipe
        => client.answer = "fresh"
=============================================================================
