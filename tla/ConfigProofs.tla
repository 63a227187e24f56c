---------------------------- MODULE ConfigProofs ----------------------------
(***************************************************************************)
(* What holds of every configuration a daemon runs under, and of what      *)
(* status says of it, whatever the files hold and whenever they change.    *)
(***************************************************************************)
EXTENDS Config, TLAPS

\* The bounds of a service's key while files are being merged: a timeout nobody has
\* set yet is 0.
LooseBounds(k) == Bounds(k) \cup (IF k \in {"timeout", "drain_timeout"} THEN {0} ELSE {})

PolicyInBounds(policy) ==
    /\ policy = [k \in PolicyKeys |-> policy[k]]
    /\ \A k \in PolicyKeys : policy[k] \in Bounds(k)

\* What may stand for the key k of the service n once the files cs are merged: a limit
\* under another spelling of [[service]] is any number.
Mergeable(cs, n, k, v) ==
    v \in LooseBounds(k) \/ (Miscased(cs, n) /\ k \in DOMAIN Most /\ v \in Int)

ServicesInBounds(services, cs) ==
    \A n \in DOMAIN services :
        /\ services[n] = [k \in ServiceKeys |-> services[n][k]]
        /\ \A k \in ServiceKeys : Mergeable(cs, n, k, services[n][k])

\* The inductive strengthening of AcceptedIsUsable: while files are merged every
\* value is in its bounds, or is a timeout that is still to be filled in, or one
\* that nobody looked at.
UsableInv ==
    /\ DOMAIN daemon = {"state", "env", "recipe", "next", "policy", "services", "sources", "digest"}
    /\ daemon.digest \in Seq(Contents)
    /\ PolicyInBounds(daemon.policy)
    /\ ServicesInBounds(daemon.services, daemon.digest)
    /\ AcceptedIsUsable
-----------------------------------------------------------------------------
\* A value that is not refused decodes to itself: there is nothing to wrap and no
\* zero to make of a bare number.
LEMMA DecodesToItself ==
    ASSUME NEW k \in PolicyKeys \cup ServiceKeys, NEW v \in RawValues(k), ~OutOfBounds(k, v)
    PROVE  Decode(k, v) = v /\ v \in Bounds(k)
<1> USE ConfigAssumption DEF ConfigAssumption
<1>1. v \in Bounds(k)
  BY DEF OutOfBounds
<1>2. CASE k \in DurationKeys
  <2>1. v \in Int
    BY <1>1, <1>2 DEF Bounds, Least, DurationKeys
  <2> QED
    BY <1>1, <1>2, <2>1 DEF Decode, DurationKeys, UnsignedKeys
<1>3. CASE k \in UnsignedKeys
  <2>1. v \in Int /\ v < Word
    BY <1>3 DEF RawValues, DurationKeys, UnsignedKeys
  <2>2. v >= 0
    BY <1>1, <1>3, <2>1 DEF Bounds, Least, UnsignedKeys
  <2>3. Word \in Nat \ {0} /\ v \in Nat
    BY <2>1, <2>2
  <2>4. v % Word = v
    BY <2>1, <2>2, <2>3, SMT
  <2> QED
    BY <1>1, <1>3, <2>4 DEF Decode, DurationKeys, UnsignedKeys
<1>4. CASE k \notin DurationKeys \cup UnsignedKeys
  BY <1>1, <1>4 DEF Decode
<1> QED
  BY <1>2, <1>3, <1>4

\* What a file that is not refused sets, it sets within bounds, as far as the untyped
\* decode sees it; the rest is of the right type.
LEMMA AcceptedSettings ==
    ASSUME NEW c \in Contents, ~Refused(c)
    PROVE  /\ IsSetting(RawPolicy(c), PolicyKeys)
           /\ \A k \in DOMAIN RawPolicy(c) : ~OutOfBounds(k, RawPolicy(c)[k])
           /\ \A n \in Named(c) :
                /\ IsSetting(BlockOf(c, n), ServiceKeys)
                /\ ~c.oddBlocks =>
                     \A k \in DOMAIN BlockOf(c, n) : ~OutOfBounds(k, BlockOf(c, n)[k])
<1>1. IsContent(c)
  BY ConfigAssumption DEF ConfigAssumption
<1>2. ASSUME NEW n \in Named(c)
      PROVE  /\ IsSetting(BlockOf(c, n), ServiceKeys)
             /\ ~c.oddBlocks =>
                  \A k \in DOMAIN BlockOf(c, n) : ~OutOfBounds(k, BlockOf(c, n)[k])
  <2>1. PICK i \in DOMAIN c.blocks : BlockOf(c, n) = c.blocks[i].keys
    BY <1>2 DEF Named, BlockOf
  <2>2. ~c.oddBlocks => RawBlocks(c) = c.blocks
    BY DEF RawBlocks
  <2>3. IsSetting(c.blocks[i].keys, ServiceKeys)
    BY <1>1 DEF IsContent
  <2>4. \A j \in DOMAIN RawBlocks(c) : \A k \in DOMAIN RawBlocks(c)[j].keys :
            ~OutOfBounds(k, RawBlocks(c)[j].keys[k])
    BY DEF Refused
  <2> QED
    BY <2>1, <2>2, <2>3, <2>4
<1>3. IsSetting(RawPolicy(c), PolicyKeys)
  BY <1>1 DEF IsContent, IsSetting, RawPolicy
<1>4. \A k \in DOMAIN RawPolicy(c) : ~OutOfBounds(k, RawPolicy(c)[k])
  BY DEF Refused
<1> QED
  BY <1>2, <1>3, <1>4

\* A value that nobody has looked at decodes to one of its type, which for all keys
\* of a service but its limits is all that their bounds ask.
LEMMA UncheckedDecodes ==
    ASSUME NEW k \in ServiceKeys, NEW v \in RawValues(k)
    PROVE  Decode(k, v) \in Bounds(k) \/ (k \in DOMAIN Most /\ Decode(k, v) \in Int)
<1>1. CASE k \in {"timeout", "drain_timeout"}
  BY <1>1 DEF Decode, RawValues, DurationKeys, UnsignedKeys, Most
<1>2. CASE k \notin {"timeout", "drain_timeout"}
  <2>1. k \notin DurationKeys \cup UnsignedKeys /\ k \notin DOMAIN Least
    BY <1>2 DEF ServiceKeys, DurationKeys, UnsignedKeys, Least
  <2> QED
    BY <2>1 DEF Decode, Bounds
<1> QED
  BY <1>1, <1>2

LEMMA MiscasedByOneMore ==
    ASSUME NEW cs \in Seq(Contents), NEW c \in Contents, NEW n
    PROVE  Miscased(Append(cs, c), n) <=> Miscased(cs, n) \/ (c.oddBlocks /\ n \in Named(c))
<1> DEFINE more == Append(cs, c)
<1>1. /\ DOMAIN cs = 1 .. Len(cs) /\ DOMAIN more = 1 .. Len(cs) + 1 /\ Len(cs) \in Nat
      /\ more[Len(cs) + 1] = c
      /\ \A i \in 1 .. Len(cs) : more[i] = cs[i]
  OBVIOUS
<1> HIDE DEF more
<1>2. \A i \in DOMAIN more : i \in DOMAIN cs \/ i = Len(cs) + 1
  BY <1>1
<1>3. Miscased(more, n) <=> Miscased(cs, n) \/ (c.oddBlocks /\ n \in Named(c))
  BY <1>1, <1>2 DEF Miscased
<1> QED
  BY <1>3 DEF more

\* Layering such settings over such values leaves every value in bounds.
LEMMA OverlayKeepsBounds ==
    ASSUME NEW K, K \subseteq PolicyKeys \cup ServiceKeys, NEW old, DOMAIN old = K,
           NEW keys, IsSetting(keys, K), \A k \in DOMAIN keys : ~OutOfBounds(k, keys[k])
    PROVE  /\ Overlay(old, keys) = [k \in K |-> Overlay(old, keys)[k]]
           /\ \A k \in K : Overlay(old, keys)[k] =
                 IF k \in DOMAIN keys THEN keys[k] ELSE old[k]
           /\ \A k \in DOMAIN keys : keys[k] \in Bounds(k)
<1>1. \A k \in DOMAIN keys : Decode(k, keys[k]) = keys[k] /\ keys[k] \in Bounds(k)
  BY DecodesToItself DEF IsSetting
<1> QED
  BY <1>1 DEF Overlay

LEMMA NewServiceInBounds ==
    /\ NewService = [k \in ServiceKeys |-> NewService[k]]
    /\ \A k \in ServiceKeys : NewService[k] \in LooseBounds(k)
<1>1. NewService = [k \in ServiceKeys |-> NewService[k]]
  BY DEF NewService, ServiceKeys
<1>2. \A k \in {"adapter", "endpoint", "unit"} : NewService[k] = Empty /\ Empty \in Bounds(k)
  <2>1. \A k \in {"adapter", "endpoint", "unit"} : NewService[k] = Empty
    BY DEF NewService
  <2>2. \A k \in {"adapter", "endpoint", "unit"} : Bounds(k) = Texts
    BY DEF Bounds, RawValues, Least, DurationKeys, UnsignedKeys, NameKeys
  <2> QED
    BY <2>1, <2>2, ConfigAssumption DEF ConfigAssumption
<1>3. \A k \in {"user_unit", "allow_stop"} : NewService[k] = FALSE /\ FALSE \in Bounds(k)
  <2>1. NewService.user_unit = FALSE /\ NewService.allow_stop = FALSE
    BY Zenon DEF NewService
  <2>2. \A k \in {"user_unit", "allow_stop"} : Bounds(k) = BOOLEAN
    BY DEF Bounds, RawValues, Least, DurationKeys, UnsignedKeys, NameKeys
  <2> QED
    BY <2>1, <2>2
<1>4. NewService.priority \in Int /\ Bounds("priority") = Int
  BY DEF NewService, Bounds, RawValues, Least, DurationKeys, UnsignedKeys, NameKeys
<1>5. \A k \in {"timeout", "drain_timeout"} : NewService[k] = 0
  BY DEF NewService
<1> QED
  BY <1>1, <1>2, <1>3, <1>4, <1>5 DEF LooseBounds, ServiceKeys

LEMMA DefaultsInBounds == PolicyInBounds(DefaultPolicy)
<1>1. DefaultPolicy = [k \in PolicyKeys |-> DefaultPolicy[k]]
  BY DEF DefaultPolicy, PolicyKeys
<1>2. DefaultPolicy.default_workload = Empty /\ Empty \in Bounds("default_workload")
  <2>1. DefaultPolicy.default_workload = Empty
    BY DEF DefaultPolicy
  <2>2. Bounds("default_workload") = Texts
    BY DEF Bounds, RawValues, Least, DurationKeys, UnsignedKeys, NameKeys
  <2> QED
    BY <2>1, <2>2, ConfigAssumption DEF ConfigAssumption
<1>3. DefaultPolicy.reactive = FALSE /\ FALSE \in Bounds("reactive")
  <2>1. DefaultPolicy.reactive = FALSE
    BY DEF DefaultPolicy
  <2>2. Bounds("reactive") = BOOLEAN
    BY DEF Bounds, RawValues, Least, DurationKeys, UnsignedKeys, NameKeys
  <2> QED
    BY <2>1, <2>2
<1>4. \A k \in PolicyKeys \ {"default_workload", "reactive"} : DefaultPolicy[k] \in Bounds(k)
  BY DEF DefaultPolicy, PolicyKeys, Bounds, Least, Most, MinPollInterval
<1> QED
  BY <1>1, <1>2, <1>3, <1>4 DEF PolicyInBounds

LEMMA MergeKeepsBounds ==
    ASSUME NEW cs \in Seq(Contents), NEW c \in Contents, ~Refused(c),
           NEW services, ServicesInBounds(services, cs)
    PROVE  ServicesInBounds(MergeServices(services, c), Append(cs, c))
<1> DEFINE merged == MergeServices(services, c)
           more == Append(cs, c)
           Old(n) == IF n \in DOMAIN services THEN services[n] ELSE NewService
<1> SUFFICES ASSUME NEW n \in DOMAIN merged
             PROVE  /\ merged[n] = [k \in ServiceKeys |-> merged[n][k]]
                    /\ \A k \in ServiceKeys : Mergeable(more, n, k, merged[n][k])
  BY DEF ServicesInBounds
<1>1. /\ Old(n) = [k \in ServiceKeys |-> Old(n)[k]]
      /\ \A k \in ServiceKeys : Mergeable(cs, n, k, Old(n)[k])
  BY NewServiceInBounds DEF ServicesInBounds, Mergeable
<1>2. merged[n] = IF n \in Named(c) /\ (n \notin DOMAIN services \/ ~c.oddBlocks)
                  THEN Overlay(Old(n), BlockOf(c, n)) ELSE Old(n)
  BY DEF MergeServices
<1>3. Miscased(more, n) <=> Miscased(cs, n) \/ (c.oddBlocks /\ n \in Named(c))
  BY MiscasedByOneMore
<1> HIDE DEF Old, merged, more
<1>4. \A k \in ServiceKeys : Mergeable(more, n, k, Old(n)[k])
  BY <1>1, <1>3 DEF Mergeable
<1>5. CASE n \in Named(c) /\ (n \notin DOMAIN services \/ ~c.oddBlocks)
  <2> DEFINE keys == BlockOf(c, n)
  <2>1. DOMAIN Old(n) = ServiceKeys
    BY <1>1
  <2>2. /\ IsSetting(keys, ServiceKeys)
        /\ ~c.oddBlocks => \A k \in DOMAIN keys : ~OutOfBounds(k, keys[k])
    BY <1>5, AcceptedSettings
  <2>3. CASE ~c.oddBlocks
    <3> HIDE DEF keys
    <3>1. /\ Overlay(Old(n), keys) = [k \in ServiceKeys |-> Overlay(Old(n), keys)[k]]
          /\ \A k \in ServiceKeys : Overlay(Old(n), keys)[k] =
                IF k \in DOMAIN keys THEN keys[k] ELSE Old(n)[k]
          /\ \A k \in DOMAIN keys : keys[k] \in Bounds(k)
      BY <2>1, <2>2, <2>3, OverlayKeepsBounds
    <3>2. merged[n] = Overlay(Old(n), keys)
      BY <1>2, <1>5 DEF keys
    <3> QED
      BY <1>4, <3>1, <3>2 DEF Mergeable, LooseBounds
  <2>4. CASE c.oddBlocks
    <3> HIDE DEF keys
    <3>1. merged[n] = Overlay(Old(n), keys) /\ Miscased(more, n)
      BY <1>2, <1>3, <1>5, <2>4 DEF keys
    <3>2. /\ merged[n] = [k \in ServiceKeys |-> merged[n][k]]
          /\ \A k \in ServiceKeys : merged[n][k] =
                IF k \in DOMAIN keys THEN Decode(k, keys[k]) ELSE Old(n)[k]
      BY <2>1, <3>1 DEF Overlay
    <3>3. \A k \in DOMAIN keys : k \in ServiceKeys /\ keys[k] \in RawValues(k)
      BY <2>2 DEF IsSetting
    <3>4. \A k \in DOMAIN keys :
            Decode(k, keys[k]) \in Bounds(k) \/ (k \in DOMAIN Most /\ Decode(k, keys[k]) \in Int)
      BY <3>3, UncheckedDecodes
    <3> QED
      BY <1>4, <3>1, <3>2, <3>4 DEF Mergeable, LooseBounds
  <2> QED
    BY <2>3, <2>4, <2>2, ConfigAssumption DEF ConfigAssumption, IsContent
<1>6. CASE ~(n \in Named(c) /\ (n \notin DOMAIN services \/ ~c.oddBlocks))
  BY <1>1, <1>2, <1>4, <1>6
<1> QED
  BY <1>5, <1>6
-----------------------------------------------------------------------------
\* Filling in defaults changes nothing that is set, and completes the rest.
LEMMA PolicyDefaultsChangeNothing ==
    ASSUME NEW policy, PolicyInBounds(policy)
    PROVE  WithPolicyDefaults(policy) = policy
<1>1. policy.poll_interval \in Bounds("poll_interval")
      /\ policy.action_cooldown \in Bounds("action_cooldown")
  BY DEF PolicyInBounds, PolicyKeys
<1>2. policy.poll_interval \in Int /\ policy.poll_interval > 0
      /\ policy.action_cooldown \in Int /\ policy.action_cooldown > 0
  BY <1>1 DEF Bounds, Least, MinPollInterval
<1>3. /\ OrDefault(policy.poll_interval, DefaultPolicy.poll_interval) = policy.poll_interval
      /\ OrDefault(policy.action_cooldown, DefaultPolicy.action_cooldown) = policy.action_cooldown
  BY <1>2 DEF OrDefault
<1> QED
  BY <1>3 DEF WithPolicyDefaults, PolicyInBounds, PolicyKeys

\* What may stand for the key k of the service n in the end.
Final(cs, n, k, v) ==
    v \in Bounds(k) \/ (Miscased(cs, n) /\ k \in DOMAIN Most /\ v \in Int /\ v > Most[k])

Completes(full, services, cs) ==
    /\ DOMAIN full = DOMAIN services
    /\ \A n \in DOMAIN services :
         /\ full[n] = [k \in ServiceKeys |-> full[n][k]]
         /\ \A k \in ServiceKeys : Final(cs, n, k, full[n][k])
         /\ \A k \in ServiceKeys \ {"timeout", "drain_timeout"} : full[n][k] = services[n][k]

\* A limit in a file nobody looked at comes out positive all the same.
LEMMA LimitsComplete ==
    ASSUME NEW cs, NEW n, NEW k \in {"timeout", "drain_timeout"}, NEW v, Mergeable(cs, n, k, v),
           NEW default \in {DefaultServiceTimeout, DefaultDrainTimeout}
    PROVE  Final(cs, n, k, OrDefault(v, default))
<1>1. v \in Int
  BY DEF Mergeable, LooseBounds, Bounds, Least
<1>2. default \in Bounds(k)
  BY DEF Bounds, Least, Most, DefaultServiceTimeout, DefaultDrainTimeout,
         MaxServiceTimeout, MaxDrainTimeout
<1>3. ASSUME v > 0, v \notin Bounds(k)
      PROVE  v > Most[k] /\ Miscased(cs, n) /\ k \in DOMAIN Most
  <2>1. Least[k] = 1 /\ Most[k] \in Int /\ k \in DOMAIN Least
    BY DEF Least, Most, MaxServiceTimeout, MaxDrainTimeout
  <2>2. v > Most[k]
    BY <1>1, <1>3, <2>1 DEF Bounds
  <2> QED
    BY <1>1, <1>3, <2>1, <2>2 DEF Mergeable, LooseBounds
<1> QED
  BY <1>1, <1>2, <1>3 DEF OrDefault, Final

LEMMA ServiceDefaultsComplete ==
    ASSUME NEW cs, NEW services, ServicesInBounds(services, cs)
    PROVE  Completes(WithServiceDefaults(services), services, cs)
<1> DEFINE full == WithServiceDefaults(services)
<1>1. DOMAIN full = DOMAIN services
  BY DEF WithServiceDefaults
<1>2. ASSUME NEW n \in DOMAIN services
      PROVE  /\ full[n] = [k \in ServiceKeys |-> full[n][k]]
             /\ \A k \in ServiceKeys : Final(cs, n, k, full[n][k])
             /\ \A k \in ServiceKeys \ {"timeout", "drain_timeout"} : full[n][k] = services[n][k]
  <2> DEFINE s == services[n]
  <2>1. /\ s = [k \in ServiceKeys |-> s[k]]
        /\ \A k \in ServiceKeys : Mergeable(cs, n, k, s[k])
    BY DEF ServicesInBounds
  <2>2. full[n] = [s EXCEPT !.timeout = OrDefault(@, DefaultServiceTimeout),
                            !.drain_timeout = OrDefault(@, DefaultDrainTimeout)]
    BY DEF WithServiceDefaults
  <2>3. /\ Mergeable(cs, n, "timeout", s.timeout)
        /\ Mergeable(cs, n, "drain_timeout", s.drain_timeout)
    BY <2>1 DEF ServiceKeys
  <2> HIDE DEF s, full
  <2>4. /\ Final(cs, n, "timeout", OrDefault(s.timeout, DefaultServiceTimeout))
        /\ Final(cs, n, "drain_timeout", OrDefault(s.drain_timeout, DefaultDrainTimeout))
    BY <2>3, LimitsComplete
  <2>5. \A k \in ServiceKeys \ {"timeout", "drain_timeout"} : s[k] \in Bounds(k)
    BY <2>1 DEF Mergeable, LooseBounds, Most
  <2> DEFINE F(k) == IF k = "drain_timeout" THEN OrDefault(s.drain_timeout, DefaultDrainTimeout)
                     ELSE IF k = "timeout" THEN OrDefault(s.timeout, DefaultServiceTimeout)
                     ELSE s[k]
  <2>6. full[n] = [k \in ServiceKeys |-> full[n][k]]
    <3>1. DOMAIN s = ServiceKeys
      BY <2>1
    <3>2. full[n] = [k \in ServiceKeys |-> F(k)]
      BY <2>2, <3>1
    <3> QED
      BY <3>2
  <2>7. \A k \in ServiceKeys \ {"timeout", "drain_timeout"} : full[n][k] = s[k]
    BY <2>1, <2>2
  <2>8. /\ full[n].timeout = OrDefault(s.timeout, DefaultServiceTimeout)
        /\ full[n].drain_timeout = OrDefault(s.drain_timeout, DefaultDrainTimeout)
    BY <2>1, <2>2 DEF ServiceKeys
  <2>9. \A k \in ServiceKeys : Final(cs, n, k, full[n][k])
    <3>1. \A k \in ServiceKeys \ {"timeout", "drain_timeout"} : Final(cs, n, k, full[n][k])
      BY <2>5, <2>7 DEF Final
    <3> QED
      BY <2>4, <2>8, <3>1
  <2> QED
    BY <2>6, <2>7, <2>9 DEF s
<1> HIDE DEF full
<1>3. Completes(full, services, cs)
  BY <1>1, <1>2 DEF Completes
<1> QED
  BY <1>3 DEF full

\* A daemon that refuses, or starts, runs on nothing.
LEMMA NothingIsUsable ==
    /\ PolicyInBounds(DefaultPolicy) /\ ServicesInBounds(NoServices, <<>>)
    /\ <<>> \in Seq(Contents)
BY DefaultsInBounds DEF ServicesInBounds, NoServices

\* What Validate lets through is usable.
LEMMA ValidatedIsUsable ==
    ASSUME UsableInv, Finish, ~Invalid(daemon.policy, daemon.services)
    PROVE  UsableInv'
<1> DEFINE full == WithServiceDefaults(daemon.services)
           cs == daemon.digest
<1>1. /\ daemon'.policy = daemon.policy
      /\ daemon'.services = full
      /\ daemon'.digest = cs
      /\ DOMAIN daemon' = DOMAIN daemon
  BY PolicyDefaultsChangeNothing DEF Finish, UsableInv, DigestOf
<1>0. Completes(full, daemon.services, cs)
  BY ServiceDefaultsComplete DEF UsableInv
<1> HIDE DEF full, cs
<1>2. /\ DOMAIN full = DOMAIN daemon.services
      /\ \A n \in DOMAIN full :
           /\ full[n] = [k \in ServiceKeys |-> full[n][k]]
           /\ \A k \in ServiceKeys : Final(cs, n, k, full[n][k])
           /\ \A k \in ServiceKeys \ {"timeout", "drain_timeout"} :
                full[n][k] = daemon.services[n][k]
  BY <1>0 DEF Completes
<1>3. PolicyInBounds(daemon'.policy) /\ ServicesInBounds(full, cs)
  <2>1. PolicyInBounds(daemon'.policy)
    BY <1>1 DEF UsableInv
  <2>2. ServicesInBounds(full, cs)
    BY <1>2 DEF ServicesInBounds, Mergeable, LooseBounds, Final
  <2> QED
    BY <2>1, <2>2
<1>4. ASSUME NEW n \in DOMAIN full
      PROVE  /\ n \in ValidNames
             /\ \A k \in ServiceKeys :
                   \/ full[n][k] \in Bounds(k)
                   \/ Miscased(cs, n) /\ k \in DOMAIN Most /\ full[n][k] > Most[k]
             /\ full[n].adapter \in KnownAdapters
             /\ IF full[n].adapter = "systemd-unit"
                THEN full[n].unit \in ValidUnits /\ full[n].endpoint = Empty
                ELSE full[n].endpoint \in ValidEndpoints /\ full[n].unit = Empty
  <2>1. /\ full[n].adapter = daemon.services[n].adapter
        /\ full[n].unit = daemon.services[n].unit
        /\ full[n].endpoint = daemon.services[n].endpoint
    BY <1>2 DEF ServiceKeys
  <2>2. n \in ValidNames /\ ~ServiceInvalid(daemon.services[n])
    BY <1>2 DEF Invalid
  <2>3. \A k \in ServiceKeys :
            \/ full[n][k] \in Bounds(k)
            \/ Miscased(cs, n) /\ k \in DOMAIN Most /\ full[n][k] > Most[k]
    BY <1>2 DEF Final
  <2> QED
    BY <2>1, <2>2, <2>3 DEF ServiceInvalid, KnownAdapters, HTTPAdapters
<1>5. daemon'.policy.default_workload \in DOMAIN full \cup {Empty}
  BY <1>1, <1>2 DEF Invalid
<1>6. AcceptedIsUsable'
  BY <1>1, <1>3, <1>4, <1>5 DEF AcceptedIsUsable, PolicyInBounds
<1>7. cs \in Seq(Contents)
  BY DEF UsableInv, cs
<1> QED
  BY <1>1, <1>3, <1>6, <1>7 DEF UsableInv

LEMMA RefusingIsUsable ==
    ASSUME UsableInv, Refuse
    PROVE  UsableInv'
<1>1. /\ daemon'.state = "refused" /\ daemon'.digest = <<>>
      /\ daemon'.policy = DefaultPolicy /\ daemon'.services = NoServices
      /\ DOMAIN daemon' = DOMAIN daemon
  BY DEF Refuse, UsableInv
<1> QED
  BY <1>1, NothingIsUsable DEF UsableInv, AcceptedIsUsable, Running

LEMMA ReadingIsUsable ==
    ASSUME UsableInv, ReadNext
    PROVE  UsableInv'
<1> DEFINE c == files[SearchPaths[daemon.env][daemon.next]]
<1>1. CASE Refuse
  BY <1>1, RefusingIsUsable
<1>2. CASE daemon' = [daemon EXCEPT !.next = @ + 1]
  BY <1>2 DEF ReadNext, UsableInv, AcceptedIsUsable, Running
<1>3. CASE /\ c \in Contents /\ ~Refused(c)
           /\ daemon' = [daemon EXCEPT !.next = @ + 1,
                                       !.policy = Overlay(@, RawPolicy(c)),
                                       !.services = MergeServices(@, c),
                                       !.sources = Append(@, SearchPaths[daemon.env][daemon.next]),
                                       !.digest = Append(@, c)]
  <2>1. /\ daemon'.state = "loading"
        /\ daemon'.policy = Overlay(daemon.policy, RawPolicy(c))
        /\ daemon'.services = MergeServices(daemon.services, c)
        /\ daemon'.digest = Append(daemon.digest, c)
        /\ DOMAIN daemon' = DOMAIN daemon
    BY <1>3 DEF ReadNext, UsableInv
  <2> HIDE DEF c
  <2>2. daemon'.digest \in Seq(Contents) /\ ServicesInBounds(daemon'.services, daemon'.digest)
    <3>1. daemon.digest \in Seq(Contents) /\ ServicesInBounds(daemon.services, daemon.digest)
      BY DEF UsableInv
    <3>2. ServicesInBounds(MergeServices(daemon.services, c), Append(daemon.digest, c))
      BY <1>3, <3>1, MergeKeepsBounds
    <3>3. Append(daemon.digest, c) \in Seq(Contents)
      BY <1>3, <3>1
    <3> QED
      BY <2>1, <3>2, <3>3
  <2>3. PolicyInBounds(daemon'.policy)
    <3> DEFINE keys == RawPolicy(c)
    <3>1. /\ IsSetting(keys, PolicyKeys)
          /\ \A k \in DOMAIN keys : ~OutOfBounds(k, keys[k])
      BY <1>3, AcceptedSettings
    <3>2. DOMAIN daemon.policy = PolicyKeys
      BY DEF UsableInv, PolicyInBounds
    <3>3. daemon'.policy = Overlay(daemon.policy, keys)
      BY <2>1
    <3> HIDE DEF keys
    <3>4. /\ daemon'.policy = [k \in PolicyKeys |-> daemon'.policy[k]]
          /\ \A k \in PolicyKeys : daemon'.policy[k] =
                IF k \in DOMAIN keys THEN keys[k] ELSE daemon.policy[k]
          /\ \A k \in DOMAIN keys : keys[k] \in Bounds(k)
      BY <3>1, <3>2, <3>3, OverlayKeepsBounds
    <3> QED
      BY <3>4 DEF UsableInv, PolicyInBounds
  <2> QED
    BY <2>1, <2>2, <2>3 DEF UsableInv, AcceptedIsUsable, Running
<1> QED
  BY <1>1, <1>2, <1>3 DEF ReadNext

LEMMA UsableInit == Init => UsableInv
BY NothingIsUsable DEF Init, UsableInv, AcceptedIsUsable, Running

LEMMA UsableNext == UsableInv /\ [Next]_vars => UsableInv'
<1> SUFFICES ASSUME UsableInv, [Next]_vars
             PROVE  UsableInv'
  OBVIOUS
<1>1. CASE UNCHANGED daemon
  BY <1>1 DEF UsableInv, AcceptedIsUsable, Running
<1>2. ASSUME NEW env \in Environments, NEW recipe \in Recipes, Start(env, recipe)
      PROVE  UsableInv'
  BY <1>2, NothingIsUsable DEF Start, UsableInv, AcceptedIsUsable, Running
<1>3. CASE ReadNext
  BY <1>3, ReadingIsUsable
<1>4. CASE Finish
  BY <1>4, ValidatedIsUsable, RefusingIsUsable DEF Finish
<1> QED
  BY <1>1, <1>2, <1>3, <1>4 DEF Next, vars, Edit, Ask, Reread, Compare

\* Whatever its files hold and whenever they are edited, a daemon only ever runs under
\* a configuration the rest of the program can work with; the one way past the upper
\* bounds of a service's limits is another spelling of [[service]] (LoadFrom, Validate).
THEOREM ConfigurationsAreUsable == Spec => []AcceptedIsUsable
<1>1. UsableInv => AcceptedIsUsable
  BY DEF UsableInv
<1> QED
  BY <1>1, UsableInit, UsableNext, PTL DEF Spec
-----------------------------------------------------------------------------
(* What a client is told.                                                  *)

\* The digest is of the sources, file for file, and all of them were accepted.
Digested(d) ==
    /\ d.sources \in Seq(Paths) /\ d.digest \in Seq(Contents)
    /\ Len(d.sources) = Len(d.digest)
    /\ \A i \in 1 .. Len(d.digest) : ~Refused(d.digest[i])

Records ==
    /\ DOMAIN daemon = {"state", "env", "recipe", "next", "policy", "services", "sources", "digest"}
    /\ daemon.env \in {"override", "home", "homeless"}
    /\ daemon.next \in Nat \ {0}
    /\ DOMAIN client = {"state", "report", "read", "answer"}

\* Where nobody has edited a file since the daemon began to read, the files still are
\* what it has read.
StillAsRead ==
    ~edited => \A i \in 1 .. Len(daemon.sources) : daemon.digest[i] = files[daemon.sources[i]]

\* While nothing happens to the daemon or its files, a client compares what the
\* daemon runs on with what the files hold.
ClientSees ==
    undisturbed /\ client.state # "idle" =>
        /\ daemon.state = "running"
        /\ client.report = [sources |-> daemon.sources, digest |-> daemon.digest,
                            recipe |-> daemon.recipe]
        /\ client.state = "reading" =>
             /\ daemon.recipe = DigestRecipe
             /\ client.read \in Seq(Contents) /\ Len(client.read) <= Len(daemon.sources)
             /\ \A i \in 1 .. Len(client.read) : client.read[i] = files[daemon.sources[i]]

FilesOK == files \in [Paths -> Contents \cup {Absent, Unreadable}]

ReportInv == Records /\ FilesOK /\ Digested(daemon) /\ StillAsRead /\ ClientSees

LEMMA SearchedPaths ==
    \A env \in {"override", "home", "homeless"} :
        SearchPaths[env] \in Seq(Paths)
<1>1. SearchPaths["override"] \in Seq(Paths) /\ SearchPaths["homeless"] \in Seq(Paths)
  <2>1. <<"user">> \in Seq(Paths) /\ <<"system">> \in Seq(Paths)
    BY DEF Paths
  <2> QED
    BY <2>1 DEF SearchPaths
<1>2. SearchPaths["home"] \in Seq(Paths)
  <2>1. <<"system", "user">> \in Seq(Paths)
    BY DEF Paths
  <2> QED
    BY <2>1 DEF SearchPaths
<1> QED
  BY <1>1, <1>2

LEMMA ReportsInit == Init => ReportInv
<1> SUFFICES ASSUME Init PROVE ReportInv
  OBVIOUS
<1>1. Digested(daemon)
  BY DEF Init, Digested
<1>2. Records /\ FilesOK /\ StillAsRead /\ ClientSees
  BY DEF Init, Records, FilesOK, StillAsRead, ClientSees
<1> QED
  BY <1>1, <1>2 DEF ReportInv

\* A step of the daemon alone, while it loads.
LEMMA LoadingIsUnseen ==
    ASSUME ReportInv, daemon.state = "loading", UNCHANGED <<files, client, edited, undisturbed>>
    PROVE  FilesOK' /\ ClientSees'
BY DEF ReportInv, FilesOK, ClientSees

LEMMA RefusingReports ==
    ASSUME ReportInv, Refuse, UNCHANGED client
    PROVE  Records' /\ Digested(daemon)' /\ (UNCHANGED <<files, edited>> => StillAsRead')
           /\ DOMAIN daemon' = DOMAIN daemon
<1>1. /\ daemon'.sources = <<>> /\ daemon'.digest = <<>>
      /\ DOMAIN daemon' = DOMAIN daemon
      /\ daemon'.env = daemon.env /\ daemon'.next = daemon.next
  BY DEF Refuse, ReportInv, Records
<1>2. Digested(daemon)'
  BY <1>1 DEF Digested
<1>3. Records'
  BY <1>1 DEF ReportInv, Records
<1>4. StillAsRead'
  BY <1>1 DEF StillAsRead
<1> QED
  BY <1>1, <1>2, <1>3, <1>4

LEMMA ReadingReports ==
    ASSUME ReportInv, ReadNext
    PROVE  ReportInv'
<1> DEFINE path == SearchPaths[daemon.env][daemon.next]
           c == files[path]
<1>1. FilesOK' /\ ClientSees'
  BY LoadingIsUnseen DEF ReadNext
<1>2. CASE Refuse
  BY <1>1, <1>2, RefusingReports DEF ReadNext, ReportInv
<1>3. CASE daemon' = [daemon EXCEPT !.next = @ + 1]
  <2>1. Records' /\ Digested(daemon)' /\ StillAsRead'
    BY <1>3 DEF ReadNext, ReportInv, Records, Digested, StillAsRead
  <2> QED
    BY <1>1, <2>1 DEF ReportInv
<1>4. CASE /\ c \in Contents /\ ~Refused(c)
           /\ daemon' = [daemon EXCEPT !.next = @ + 1,
                                       !.policy = Overlay(@, RawPolicy(c)),
                                       !.services = MergeServices(@, c),
                                       !.sources = Append(@, path),
                                       !.digest = Append(@, c)]
  <2>1. /\ daemon'.sources = Append(daemon.sources, path)
        /\ daemon'.digest = Append(daemon.digest, c)
        /\ Records'
    <3>1. DOMAIN daemon = {"state", "env", "recipe", "next", "policy", "services",
                           "sources", "digest"}
      BY DEF ReportInv, Records
    <3> HIDE DEF path, c
    <3>2. /\ daemon'.sources = Append(daemon.sources, path)
          /\ daemon'.digest = Append(daemon.digest, c)
          /\ daemon'.env = daemon.env /\ daemon'.next = daemon.next + 1
          /\ DOMAIN daemon' = DOMAIN daemon
      BY <1>4, <3>1
    <3> QED
      BY <3>2 DEF ReadNext, ReportInv, Records
  <2>2. path \in Paths
    <3>1. SearchPaths[daemon.env] \in Seq(Paths)
      BY SearchedPaths DEF ReportInv, Records
    <3>2. daemon.next \in 1 .. Len(SearchPaths[daemon.env])
      <4>1. daemon.next <= Len(SearchPaths[daemon.env])
        BY DEF ReadNext
      <4>2. daemon.next \in Nat \ {0} /\ Len(SearchPaths[daemon.env]) \in Nat
        BY <3>1 DEF ReportInv, Records
      <4> QED
        BY <4>1, <4>2
    <3> QED
      BY <3>1, <3>2
  <2>3. Digested(daemon)'
    BY <1>4, <2>1, <2>2 DEF ReportInv, Digested
  <2>4. StillAsRead'
    <3> SUFFICES ASSUME ~edited', NEW i \in 1 .. Len(daemon'.sources)
                 PROVE  daemon'.digest[i] = files'[daemon'.sources[i]]
      BY DEF StillAsRead
    <3>1. files' = files /\ ~edited
      BY DEF ReadNext
    <3>2. /\ daemon.sources \in Seq(Paths) /\ daemon.digest \in Seq(Contents)
          /\ Len(daemon.sources) = Len(daemon.digest)
      BY DEF ReportInv, Digested
    <3>3. \A j \in 1 .. Len(daemon.sources) : daemon.digest[j] = files[daemon.sources[j]]
      BY <3>1 DEF ReportInv, StillAsRead
    <3>4. c \in Contents
      BY <1>4
    <3> HIDE DEF path
    <3>5. c = files[path]
      OBVIOUS
    <3> HIDE DEF c
    <3>6. CASE i = Len(daemon.sources) + 1
      BY <2>1, <2>2, <3>1, <3>2, <3>4, <3>5, <3>6
    <3>7. CASE i # Len(daemon.sources) + 1
      BY <2>1, <2>2, <3>1, <3>2, <3>3, <3>4, <3>7
    <3> QED
      BY <3>6, <3>7
  <2> QED
    BY <1>1, <2>1, <2>3, <2>4 DEF ReportInv
<1> QED
  BY <1>2, <1>3, <1>4 DEF ReadNext

LEMMA FinishingReports ==
    ASSUME ReportInv, Finish
    PROVE  ReportInv'
<1>1. FilesOK' /\ ClientSees'
  BY LoadingIsUnseen DEF Finish
<1>2. CASE Refuse
  BY <1>1, <1>2, RefusingReports DEF Finish, ReportInv
<1>3. CASE daemon' = [daemon EXCEPT !.state = "running",
                                    !.policy = WithPolicyDefaults(@),
                                    !.services = WithServiceDefaults(@),
                                    !.digest = DigestOf(daemon)]
  <2>1. /\ daemon'.sources = daemon.sources /\ daemon'.digest = daemon.digest
        /\ Records'
    <3>1. DOMAIN daemon = {"state", "env", "recipe", "next", "policy", "services",
                           "sources", "digest"}
      BY DEF ReportInv, Records
    <3>2. /\ daemon'.sources = daemon.sources /\ daemon'.digest = daemon.digest
          /\ daemon'.env = daemon.env /\ daemon'.next = daemon.next
          /\ DOMAIN daemon' = DOMAIN daemon
      BY <1>3, <3>1 DEF DigestOf
    <3> QED
      BY <3>2 DEF Finish, ReportInv, Records
  <2>2. Digested(daemon)' /\ StillAsRead'
    BY <2>1 DEF Finish, ReportInv, Digested, StillAsRead
  <2> QED
    BY <1>1, <2>1, <2>2 DEF ReportInv
<1> QED
  BY <1>2, <1>3 DEF Finish

LEMMA ClientReports ==
    ASSUME ReportInv, Ask \/ Reread \/ Compare
    PROVE  ReportInv'
<1>1. FilesOK' /\ Digested(daemon)' /\ StillAsRead'
  BY DEF Ask, Reread, Compare, ReportInv, FilesOK, Digested, StillAsRead
<1>2. CASE Ask
  <2>1. Records'
    BY <1>2 DEF Ask, ReportInv, Records
  <2>2. /\ client'.report = [sources |-> daemon.sources, digest |-> daemon.digest,
                             recipe |-> daemon.recipe]
        /\ client'.state = "reading" => daemon.recipe = DigestRecipe
        /\ client'.read = <<>>
    BY <1>2 DEF Ask, Comparable
  <2>3. ClientSees'
    BY <1>2, <2>2 DEF Ask, ClientSees, ReportInv, Digested
  <2> QED
    BY <1>1, <2>1, <2>3 DEF ReportInv
<1>3. CASE Reread
  <2> DEFINE c == files[PathsOf(client.report)[Len(client.read) + 1]]
  <2>1. CASE client' = [client EXCEPT !.state = "done", !.answer = "unknown"]
    BY <1>1, <1>3, <2>1 DEF Reread, ReportInv, Records, ClientSees
  <2>2. CASE c \notin {Absent, Unreadable} /\ client' = [client EXCEPT !.read = Append(@, c)]
    <3>1. /\ client'.state = "reading" /\ client'.report = client.report
          /\ client'.read = Append(client.read, c)
          /\ Records'
      BY <1>3, <2>2 DEF Reread, ReportInv, Records
    <3>2. ASSUME undisturbed
          PROVE  /\ daemon.state = "running" /\ daemon.recipe = DigestRecipe
                 /\ client.report = [sources |-> daemon.sources, digest |-> daemon.digest,
                                     recipe |-> daemon.recipe]
                 /\ client'.read \in Seq(Contents) /\ Len(client'.read) <= Len(daemon.sources)
                 /\ \A i \in 1 .. Len(client'.read) : client'.read[i] = files[daemon.sources[i]]
      <4>1. /\ daemon.state = "running" /\ daemon.recipe = DigestRecipe
            /\ client.report = [sources |-> daemon.sources, digest |-> daemon.digest,
                                recipe |-> daemon.recipe]
            /\ client.read \in Seq(Contents)
            /\ \A i \in 1 .. Len(client.read) : client.read[i] = files[daemon.sources[i]]
        BY <1>3, <3>2 DEF Reread, ReportInv, ClientSees
      <4>2. /\ Len(client.read) < Len(daemon.sources)
            /\ c = files[daemon.sources[Len(client.read) + 1]]
        BY <1>3, <4>1 DEF Reread, PathsOf
      <4>3. c \in Contents
        BY <2>2, <4>1, <4>2 DEF ReportInv, FilesOK, Digested
      <4> HIDE DEF c
      <4> QED
        BY <3>1, <4>1, <4>2, <4>3 DEF ReportInv, Digested
    <3>3. ClientSees'
      BY <1>3, <3>1, <3>2 DEF Reread, ClientSees
    <3> QED
      BY <1>1, <3>1, <3>3 DEF ReportInv
  <2> QED
    BY <1>3, <2>1, <2>2 DEF Reread
<1>4. CASE Compare
  BY <1>1, <1>4 DEF Compare, ReportInv, Records, ClientSees
<1> QED
  BY <1>2, <1>3, <1>4

LEMMA ReportsNext == ReportInv /\ [Next]_vars => ReportInv'
<1> SUFFICES ASSUME ReportInv, [Next]_vars
             PROVE  ReportInv'
  OBVIOUS
<1>1. ASSUME NEW p \in Paths, Edit(p)
      PROVE  ReportInv'
  <2>1. FilesOK'
    BY <1>1, ConfigAssumption DEF Edit, ReportInv, FilesOK, ConfigAssumption
  <2> QED
    BY <1>1, <2>1 DEF Edit, ReportInv, Records, Digested, StillAsRead, ClientSees
<1>2. ASSUME NEW env \in Environments, NEW recipe \in Recipes, Start(env, recipe)
      PROVE  ReportInv'
  <2>1. daemon'.sources = <<>> /\ daemon'.digest = <<>>
    BY <1>2 DEF Start
  <2>2. Digested(daemon)'
    BY <2>1 DEF Digested
  <2>3. Records'
    BY <1>2, ConfigAssumption DEF Start, ReportInv, Records, ConfigAssumption
  <2>4. FilesOK' /\ StillAsRead' /\ ClientSees'
    BY <1>2, <2>1 DEF Start, ReportInv, FilesOK, StillAsRead, ClientSees
  <2> QED
    BY <2>2, <2>3, <2>4 DEF ReportInv
<1>3. CASE UNCHANGED vars
  BY <1>3 DEF vars, ReportInv, Records, FilesOK, Digested, StillAsRead, ClientSees
<1> QED
  BY <1>1, <1>2, <1>3, ReadingReports, FinishingReports, ClientReports DEF Next

\* A client never sends anybody to restart a daemon whose files are as it read them,
\* however the daemon found them and whatever the client would load (configDrift).
THEOREM UntouchedFilesAreFresh == Spec => []UntouchedIsFresh
<1>1. Init => UntouchedIsFresh
  BY DEF Init, UntouchedIsFresh
<1>2. ReportInv /\ UntouchedIsFresh /\ [Next]_vars => UntouchedIsFresh'
  <2> SUFFICES ASSUME ReportInv, UntouchedIsFresh, [Next]_vars,
                      client'.state = "done", undisturbed', ~edited',
                      daemon'.recipe = DigestRecipe
               PROVE  client'.answer = "fresh"
    BY DEF UntouchedIsFresh
  <2>1. CASE Ask
    BY <2>1 DEF Ask, Comparable
  <2>2. CASE Reread
    <3> DEFINE i == Len(client.read) + 1
    <3>1. CASE client' = [client EXCEPT !.read = Append(@, files[PathsOf(client.report)[i]])]
      BY <2>2, <3>1 DEF Reread, ReportInv, Records
    <3>2. CASE files[PathsOf(client.report)[i]] \in {Absent, Unreadable}
      <4>1. /\ PathsOf(client.report) = daemon.sources /\ client.read \in Seq(Contents)
            /\ ~edited
        BY <2>2 DEF Reread, ReportInv, ClientSees, PathsOf
      <4>2. i \in 1 .. Len(daemon.sources)
        BY <2>2, <4>1 DEF Reread, ReportInv, Digested
      <4>3. files[daemon.sources[i]] \in Contents
        BY <4>1, <4>2 DEF ReportInv, Digested, StillAsRead
      <4> QED
        BY <3>2, <4>1, <4>3, ConfigAssumption DEF ConfigAssumption
    <3> QED
      BY <2>2, <3>1, <3>2 DEF Reread
  <2>3. CASE Compare
    <3>1. /\ client.report = [sources |-> daemon.sources, digest |-> daemon.digest,
                              recipe |-> daemon.recipe]
          /\ client.read \in Seq(Contents) /\ Len(client.read) = Len(daemon.sources)
          /\ \A i \in 1 .. Len(client.read) : client.read[i] = files[daemon.sources[i]]
          /\ daemon.recipe = DigestRecipe /\ ~edited
      BY <2>3 DEF Compare, ReportInv, ClientSees, PathsOf
    <3>2. client.read = daemon.digest
      BY <3>1 DEF ReportInv, Digested, StillAsRead
    <3> QED
      BY <2>3, <3>1, <3>2 DEF Compare, ReportInv, Records
  <2>4. CASE UNCHANGED <<client, edited, undisturbed>>
    <3>1. CASE UNCHANGED daemon
      BY <2>4, <3>1 DEF UntouchedIsFresh
    <3>2. CASE ReadNext \/ Finish
      BY <2>4, <3>2 DEF ReadNext, Finish, ReportInv, ClientSees
    <3>3. CASE UNCHANGED vars
      BY <3>1, <3>3 DEF vars
    <3> QED
      BY <2>4, <3>1, <3>2, <3>3 DEF Next, Edit, Start, Ask, Reread, Compare
  <2> QED
    BY <2>1, <2>2, <2>3, <2>4 DEF Next, vars, Edit, Start, ReadNext, Finish
<1> QED
  BY <1>1, <1>2, ReportsInit, ReportsNext, PTL DEF Spec
-----------------------------------------------------------------------------
(* Types.                                                                  *)

\* The daemon has gone past every file it digested, and past those that are absent.
DaemonTypes ==
    /\ daemon.state \in {"down", "loading", "running", "refused"}
    /\ Len(daemon.sources) < daemon.next

\* A client reads no further than its report goes, whatever became of the daemon.
ClientTypes ==
    /\ client.state \in {"idle", "reading", "done"}
    /\ client.answer \in {"none", "fresh", "stale", "unknown"}
    /\ client.report.sources \in Seq(Paths)
    /\ client.read \in Seq(Contents)
    /\ Len(client.read) <= Len(client.report.sources)

History ==
    /\ edits \in 0..MaxEdits
    /\ edited \in BOOLEAN
    /\ undisturbed \in BOOLEAN

TypeInv == UsableInv /\ ReportInv /\ DaemonTypes /\ ClientTypes /\ History

\* Bounds are types: within them no duration is anything but a number, and no number
\* of an unsigned field is negative.
LEMMA BoundsAreFields ==
    \A k \in PolicyKeys \cup ServiceKeys : LooseBounds(k) \subseteq Fields(k)
<1> SUFFICES ASSUME NEW k \in PolicyKeys \cup ServiceKeys
             PROVE  LooseBounds(k) \subseteq Fields(k)
  OBVIOUS
<1>1. CASE k \in DurationKeys
  <2>1. k \in DOMAIN Least
    BY <1>1 DEF Least, DurationKeys
  <2>2. \A n \in Bounds(k) : n \in Int
    BY <2>1 DEF Bounds
  <2> QED
    BY <1>1, <2>2 DEF LooseBounds, Fields
<1>2. CASE k \in UnsignedKeys
  <2>1. k \in DOMAIN Least /\ Least[k] = 0 /\ k \notin DurationKeys
    BY <1>2 DEF Least, UnsignedKeys, DurationKeys
  <2>2. \A n \in Bounds(k) : n \in Nat
    BY <2>1 DEF Bounds
  <2> QED
    BY <1>2, <2>1, <2>2 DEF LooseBounds, Fields, UnsignedKeys
<1>3. CASE k = "gpu_index"
  BY <1>3 DEF LooseBounds, Bounds, Fields, Least, DurationKeys, UnsignedKeys, RawValues
<1>4. CASE k \notin DOMAIN Least
  BY <1>4 DEF LooseBounds, Bounds, Fields, Least, DurationKeys, UnsignedKeys
<1> QED
  BY <1>1, <1>2, <1>3, <1>4 DEF Least, UnsignedKeys, DurationKeys

LEMMA TypesInit == Init => TypeInv
<1> SUFFICES ASSUME Init PROVE TypeInv
  OBVIOUS
<1>1. DaemonTypes
  <2>1. daemon.state = "down" /\ daemon.sources = <<>> /\ daemon.next = 1
    BY Zenon DEF Init
  <2> QED
    BY <2>1 DEF DaemonTypes
<1>2. ClientTypes
  <2>1. client.state = "idle" /\ client.report = NoReport /\ client.read = <<>> /\ client.answer = "none"
    BY Zenon DEF Init
  <2>2. NoReport.sources = <<>>
    BY DEF NoReport
  <2>3. client.report.sources = <<>>
    BY <2>1, <2>2, Zenon
  <2>4. <<>> \in Seq(Paths) /\ <<>> \in Seq(Contents) /\ Len(<<>>) <= Len(<<>>)
    OBVIOUS
  <2>5. client.read \in Seq(Contents) /\ client.report.sources \in Seq(Paths)
        /\ Len(client.read) <= Len(client.report.sources)
    BY <2>1, <2>3, <2>4, Zenon
  <2> QED
    BY <2>1, <2>5 DEF ClientTypes
<1>3. History
  <2>1. edits = 0 /\ edited \in BOOLEAN /\ undisturbed \in BOOLEAN
    BY Zenon DEF Init
  <2>2. MaxEdits \in Nat
    BY ConfigAssumption DEF ConfigAssumption
  <2> QED
    BY <2>1, <2>2 DEF History
<1> QED
  BY <1>1, <1>2, <1>3, UsableInit, ReportsInit DEF TypeInv

LEMMA DaemonTypesNext ==
    ASSUME TypeInv, [Next]_vars
    PROVE  DaemonTypes'
<1>1. /\ DOMAIN daemon = {"state", "env", "recipe", "next", "policy", "services", "sources", "digest"}
      /\ daemon.next \in Nat \ {0} /\ daemon.sources \in Seq(Paths)
      /\ Len(daemon.sources) < daemon.next
  BY DEF TypeInv, ReportInv, Records, Digested, DaemonTypes
<1>2. CASE UNCHANGED daemon
  BY <1>2 DEF TypeInv, DaemonTypes
<1>3. ASSUME NEW env \in Environments, NEW recipe \in Recipes, Start(env, recipe)
      PROVE  DaemonTypes'
  BY <1>3 DEF Start, DaemonTypes
<1>4. CASE Refuse
  <2>1. daemon'.state = "refused" /\ daemon'.sources = <<>> /\ daemon'.next = daemon.next
    BY <1>1, <1>4 DEF Refuse
  <2> QED
    BY <1>1, <2>1 DEF DaemonTypes
<1>5. CASE ReadNext /\ ~Refuse
  <2>1. daemon.state = "loading" /\ daemon'.state = daemon.state /\ daemon'.next = daemon.next + 1
    BY <1>1, <1>5 DEF ReadNext
  <2>2. daemon'.sources = daemon.sources
        \/ daemon'.sources = Append(daemon.sources, SearchPaths[daemon.env][daemon.next])
    BY <1>1, <1>5 DEF ReadNext
  <2>3. Len(daemon'.sources) <= Len(daemon.sources) + 1 /\ Len(daemon'.sources) \in Nat
    BY <1>1, <2>2
  <2> QED
    BY <1>1, <2>1, <2>3 DEF DaemonTypes
<1>6. CASE Finish /\ ~Refuse
  <2>1. daemon'.state = "running" /\ daemon'.sources = daemon.sources /\ daemon'.next = daemon.next
    BY <1>1, <1>6 DEF Finish
  <2> QED
    BY <1>1, <2>1 DEF DaemonTypes
<1> QED
  BY <1>2, <1>3, <1>4, <1>5, <1>6 DEF Next, vars, Edit, Ask, Reread, Compare

LEMMA ClientTypesNext ==
    ASSUME TypeInv, [Next]_vars
    PROVE  ClientTypes'
<1>1. DOMAIN client = {"state", "report", "read", "answer"} /\ ClientTypes
  BY DEF TypeInv, ReportInv, Records
<1>2. CASE UNCHANGED client
  BY <1>1, <1>2 DEF ClientTypes
<1>3. CASE Ask
  <2>1. daemon.sources \in Seq(Paths)
    BY DEF TypeInv, ReportInv, Digested
  <2>2. /\ client'.report.sources = daemon.sources /\ client'.read = <<>>
        /\ client'.state \in {"reading", "done"} /\ client'.answer \in {"none", "fresh", "unknown"}
    BY <1>3 DEF Ask
  <2> QED
    BY <2>1, <2>2 DEF ClientTypes
<1>4. CASE Reread
  <2> DEFINE next == client.report.sources[Len(client.read) + 1]
  <2>1. CASE client' = [client EXCEPT !.state = "done", !.answer = "unknown"]
    BY <1>1, <2>1 DEF ClientTypes
  <2>2. CASE files[next] \notin {Absent, Unreadable} /\ client' = [client EXCEPT !.read = Append(@, files[next])]
    <3>1. /\ client.read \in Seq(Contents) /\ client.report.sources \in Seq(Paths)
          /\ Len(client.read) < Len(client.report.sources)
      BY <1>1, <1>4 DEF Reread, ClientTypes, PathsOf
    <3>2. next \in Paths
      BY <3>1
    <3>3. files[next] \in Contents
      BY <2>2, <3>2 DEF TypeInv, ReportInv, FilesOK
    <3> HIDE DEF next
    <3>4. /\ client'.read = Append(client.read, files[next])
          /\ client'.report = client.report /\ client'.state = client.state
          /\ client'.answer = client.answer
      BY <1>1, <2>2
    <3> QED
      BY <1>1, <3>1, <3>3, <3>4 DEF ClientTypes
  <2> QED
    BY <1>4, <2>1, <2>2 DEF Reread, PathsOf
<1>5. CASE Compare
  <2>1. /\ client'.state = "done" /\ client'.answer \in {"fresh", "stale"}
        /\ client'.report = client.report /\ client'.read = client.read
    BY <1>1, <1>5 DEF Compare
  <2> QED
    BY <1>1, <2>1 DEF ClientTypes
<1> QED
  BY <1>2, <1>3, <1>4, <1>5 DEF Next, vars, Edit, Start, ReadNext, Finish

LEMMA TypesNext == TypeInv /\ [Next]_vars => TypeInv'
<1> SUFFICES ASSUME TypeInv, [Next]_vars PROVE TypeInv'
  OBVIOUS
<1>1. edits \in Nat /\ edits <= MaxEdits /\ MaxEdits \in Nat /\ History
  BY ConfigAssumption DEF TypeInv, History, ConfigAssumption
<1>2. edits' \in 0..MaxEdits
  <2>1. edits' = edits \/ (edits < MaxEdits /\ edits' = edits + 1)
    BY DEF Next, vars, Edit, Start, ReadNext, Finish, Ask, Reread, Compare
  <2> QED
    BY <1>1, <2>1
<1>3. edited' \in BOOLEAN /\ undisturbed' \in BOOLEAN
  BY <1>1 DEF History, Next, vars, Edit, Start, ReadNext, Finish, Ask, Reread, Compare
<1> QED
  BY <1>2, <1>3, UsableNext, ReportsNext, DaemonTypesNext, ClientTypesNext DEF TypeInv, History

\* Every configuration the program builds, whatever the files hold, has a value of
\* the right type for every key, and a digest with one entry for each file that
\* contributed; a client never reads past the files it was told of.
THEOREM ConfigurationsAreTyped == Spec => []TypeOK
<1>1. TypeInv => TypeOK
  <2> SUFFICES ASSUME TypeInv PROVE TypeOK
    OBVIOUS
  <2>1. DOMAIN daemon.policy = PolicyKeys /\ \A k \in PolicyKeys : daemon.policy[k] \in Fields(k)
    <3>1. \A k \in PolicyKeys : daemon.policy[k] \in LooseBounds(k)
      BY DEF TypeInv, UsableInv, PolicyInBounds, LooseBounds
    <3> QED
      BY <3>1, BoundsAreFields DEF TypeInv, UsableInv, PolicyInBounds
  <2>2. \A n \in DOMAIN daemon.services :
          /\ DOMAIN daemon.services[n] = ServiceKeys
          /\ \A k \in ServiceKeys : daemon.services[n][k] \in Fields(k)
    <3>1. \A k \in DOMAIN Most : Int \subseteq Fields(k)
      BY DEF Most, Fields, DurationKeys
    <3> QED
      BY <3>1, BoundsAreFields DEF TypeInv, UsableInv, ServicesInBounds, Mergeable
  <2> QED
    BY <2>1, <2>2 DEF TypeInv, ReportInv, FilesOK, Digested, DaemonTypes, ClientTypes, History, TypeOK, PathsOf
<1>2. Init => TypeInv
  BY TypesInit
<1> QED
  BY <1>1, <1>2, TypesNext, PTL DEF Spec
-----------------------------------------------------------------------------
(* Layers.                                                                 *)

Speakers(cs, n, k) == {i \in DOMAIN cs : k \in DOMAIN Said(cs[i], n)}

\* The last of the files that set a key exists: what LastWord chooses is there.
HasLast(cs) ==
    \A n, k : Speakers(cs, n, k) # {} =>
        \E i \in Speakers(cs, n, k) : \A j \in Speakers(cs, n, k) : j <= i

\* One more file has the last word on what it sets, and changes nothing else.
LEMMA LastWordOfOneMore ==
    ASSUME NEW cs \in Seq(Contents), NEW c \in Contents, HasLast(cs), NEW n, NEW k, NEW default
    PROVE  LastWord(Append(cs, c), n, k, default) =
               IF k \in DOMAIN Said(c, n) THEN Said(c, n)[k] ELSE LastWord(cs, n, k, default)
<1> DEFINE more == Append(cs, c)
           old == Speakers(cs, n, k)
           new == Speakers(more, n, k)
           Last(S) == CHOOSE i \in S : \A j \in S : j <= i
<1>1. /\ DOMAIN cs = 1 .. Len(cs) /\ DOMAIN more = 1 .. Len(cs) + 1 /\ Len(cs) \in Nat
      /\ more[Len(cs) + 1] = c
      /\ \A i \in 1 .. Len(cs) : more[i] = cs[i]
  OBVIOUS
<1>2. LastWord(more, n, k, default) = IF new = {} THEN default ELSE Said(more[Last(new)], n)[k]
  BY DEF LastWord, Speakers
<1>3. LastWord(cs, n, k, default) = IF old = {} THEN default ELSE Said(cs[Last(old)], n)[k]
  BY DEF LastWord, Speakers
<1>4. ASSUME k \in DOMAIN Said(c, n)
      PROVE  LastWord(more, n, k, default) = Said(c, n)[k]
  <2>1. Len(cs) + 1 \in new
    BY <1>1, <1>4 DEF Speakers
  <2>2. \A j \in new : j \in Nat /\ j <= Len(cs) + 1
    BY <1>1 DEF Speakers
  <2>3. Last(new) = Len(cs) + 1
    <3>1. Last(new) \in new /\ Len(cs) + 1 <= Last(new)
      BY <2>1, <2>2
    <3> QED
      BY <1>1, <2>2, <3>1
  <2> HIDE DEF new, Last, more
  <2> QED
    BY <1>1, <1>2, <1>4, <2>1, <2>3
<1>5. ASSUME k \notin DOMAIN Said(c, n)
      PROVE  LastWord(more, n, k, default) = LastWord(cs, n, k, default)
  <2>1. new = old
    BY <1>1, <1>5 DEF Speakers
  <2>2. CASE old = {}
    BY <1>2, <1>3, <1>5, <2>1, <2>2
  <2>3. CASE old # {}
    <3>1. Last(old) \in old
      BY <2>3 DEF HasLast
    <3>2. Last(old) \in 1 .. Len(cs)
      BY <1>1, <3>1 DEF Speakers
    <3> HIDE DEF new, old, Last, more
    <3> QED
      BY <1>1, <1>2, <1>3, <1>5, <2>1, <2>3, <3>2
  <2> QED
    BY <2>2, <2>3
<1> QED
  BY <1>4, <1>5

LEMMA OneMoreHasLast ==
    ASSUME NEW cs \in Seq(Contents), NEW c \in Contents, HasLast(cs)
    PROVE  HasLast(Append(cs, c))
<1> DEFINE more == Append(cs, c)
<1> SUFFICES ASSUME NEW n, NEW k, Speakers(more, n, k) # {}
             PROVE  \E i \in Speakers(more, n, k) : \A j \in Speakers(more, n, k) : j <= i
  BY DEF HasLast
<1>1. /\ DOMAIN cs = 1 .. Len(cs) /\ DOMAIN more = 1 .. Len(cs) + 1 /\ Len(cs) \in Nat
      /\ more[Len(cs) + 1] = c
      /\ \A i \in 1 .. Len(cs) : more[i] = cs[i]
  OBVIOUS
<1>2. CASE k \in DOMAIN Said(c, n)
  <2>1. Len(cs) + 1 \in Speakers(more, n, k)
    BY <1>1, <1>2 DEF Speakers
  <2>2. \A j \in Speakers(more, n, k) : j <= Len(cs) + 1
    BY <1>1 DEF Speakers
  <2> QED
    BY <2>1, <2>2
<1>3. CASE k \notin DOMAIN Said(c, n)
  <2>1. Speakers(more, n, k) = Speakers(cs, n, k)
    BY <1>1, <1>3 DEF Speakers
  <2> QED
    BY <2>1 DEF HasLast
<1> QED
  BY <1>2, <1>3

\* The layers while they are merged: as IsLayered, with timeouts still open.
RawLayered(policy, services, cs) ==
    /\ \A k \in PolicyKeys : policy[k] = LastWord(cs, Empty, k, DefaultPolicy[k])
    /\ DOMAIN services = UNION {Named(cs[i]) : i \in DOMAIN cs}
    /\ \A n \in DOMAIN services, k \in ServiceKeys :
          ~Miscased(cs, n) => services[n][k] = LastWord(cs, n, k, NewService[k])

LayeredInv ==
    /\ HasLast(daemon.digest)
    /\ daemon.state = "loading" => RawLayered(daemon.policy, daemon.services, daemon.digest)
    /\ LastWordWins

\* The empty name is the policy's: no service of an accepted file has it.
LEMMA NamesAreNotEmpty ==
    ASSUME NEW c \in Contents, ~Refused(c), NEW n \in Named(c)
    PROVE  n # Empty
BY DEF Named, Refused

LEMMA NothingIsLayered ==
    HasLast(<<>>) /\ RawLayered(DefaultPolicy, NoServices, <<>>)
<1>1. \A n, k, default : Speakers(<<>>, n, k) = {} /\ LastWord(<<>>, n, k, default) = default
  BY DEF Speakers, LastWord
<1>2. HasLast(<<>>)
  BY <1>1 DEF HasLast
<1>3. DOMAIN NoServices = {}
  BY DEF NoServices
<1>4. UNION {Named(<<>>[i]) : i \in DOMAIN <<>>} = {}
  OBVIOUS
<1> QED
  BY <1>1, <1>2, <1>3, <1>4 DEF RawLayered

LEMMA OneMoreIsLayered ==
    ASSUME NEW cs \in Seq(Contents), \A i \in 1 .. Len(cs) : ~Refused(cs[i]),
           NEW c \in Contents, ~Refused(c), HasLast(cs),
           NEW policy, PolicyInBounds(policy), NEW services, ServicesInBounds(services, cs),
           RawLayered(policy, services, cs)
    PROVE  RawLayered(Overlay(policy, RawPolicy(c)), MergeServices(services, c), Append(cs, c))
<1> DEFINE more == Append(cs, c)
           merged == MergeServices(services, c)
           Old(n) == IF n \in DOMAIN services THEN services[n] ELSE NewService
           keys == RawPolicy(c)
<1>1. /\ DOMAIN cs = 1 .. Len(cs) /\ DOMAIN more = 1 .. Len(cs) + 1 /\ Len(cs) \in Nat
      /\ more[Len(cs) + 1] = c
      /\ \A i \in 1 .. Len(cs) : more[i] = cs[i]
  OBVIOUS
<1>2. ASSUME NEW k \in PolicyKeys
      PROVE  Overlay(policy, keys)[k] = LastWord(more, Empty, k, DefaultPolicy[k])
  <2> HIDE DEF more, merged, Old
  <2>1. /\ IsSetting(keys, PolicyKeys)
        /\ \A j \in DOMAIN keys : ~OutOfBounds(j, keys[j])
    BY AcceptedSettings
  <2>2. DOMAIN policy = PolicyKeys
    BY DEF PolicyInBounds
  <2>3. Said(c, Empty) = keys
    BY DEF Said
  <2>4. LastWord(more, Empty, k, DefaultPolicy[k]) =
            IF k \in DOMAIN Said(c, Empty) THEN Said(c, Empty)[k]
            ELSE LastWord(cs, Empty, k, DefaultPolicy[k])
    BY LastWordOfOneMore DEF more
  <2> HIDE DEF keys
  <2>5. Overlay(policy, keys)[k] = IF k \in DOMAIN keys THEN keys[k] ELSE policy[k]
    <3>1. \A j \in PolicyKeys : Overlay(policy, keys)[j] =
              IF j \in DOMAIN keys THEN keys[j] ELSE policy[j]
      <4> DEFINE K == PolicyKeys
      <4>1. /\ K \subseteq PolicyKeys \cup ServiceKeys /\ DOMAIN policy = K
            /\ IsSetting(keys, K) /\ \A j \in DOMAIN keys : ~OutOfBounds(j, keys[j])
        BY <2>1, <2>2
      <4> HIDE DEF K
      <4>2. \A j \in K : Overlay(policy, keys)[j] = IF j \in DOMAIN keys THEN keys[j] ELSE policy[j]
        BY <4>1, OverlayKeepsBounds
      <4> QED
        BY <4>2 DEF K
    <3> QED
      BY <3>1
  <2>6. policy[k] = LastWord(cs, Empty, k, DefaultPolicy[k])
    BY DEF RawLayered
  <2> QED
    BY <2>3, <2>4, <2>5, <2>6
<1>3. DOMAIN merged = UNION {Named(more[i]) : i \in DOMAIN more}
  <2>1. DOMAIN merged = DOMAIN services \cup Named(c)
    BY DEF MergeServices
  <2>2. DOMAIN services = UNION {Named(cs[i]) : i \in DOMAIN cs}
    BY DEF RawLayered
  <2> HIDE DEF more, merged
  <2> QED
    BY <1>1, <2>1, <2>2
<1>4. ASSUME NEW n \in DOMAIN merged, NEW k \in ServiceKeys, ~Miscased(more, n)
      PROVE  merged[n][k] = LastWord(more, n, k, NewService[k])
  <2>0. ~Miscased(cs, n) /\ ~(c.oddBlocks /\ n \in Named(c))
    BY <1>4, MiscasedByOneMore
  <2>1. n # Empty
    BY <1>1, <1>3, NamesAreNotEmpty
  <2>2. Old(n)[k] = LastWord(cs, n, k, NewService[k])
    <3>1. CASE n \in DOMAIN services
      BY <2>0, <3>1 DEF RawLayered
    <3>2. CASE n \notin DOMAIN services
      <4>1. \A i \in DOMAIN cs : n \notin Named(cs[i])
        BY <3>2 DEF RawLayered
      <4>2. \A i \in DOMAIN cs : k \notin DOMAIN Said(cs[i], n)
        BY <2>1, <4>1 DEF Said
      <4> QED
        BY <3>2, <4>2 DEF LastWord
    <3> QED
      BY <3>1, <3>2
  <2>3. LastWord(more, n, k, NewService[k]) =
            IF k \in DOMAIN Said(c, n) THEN Said(c, n)[k] ELSE LastWord(cs, n, k, NewService[k])
    BY LastWordOfOneMore
  <2>4. merged[n] = IF n \in Named(c) THEN Overlay(Old(n), BlockOf(c, n)) ELSE Old(n)
    BY <2>0 DEF MergeServices
  <2>5. DOMAIN Old(n) = ServiceKeys
    BY NewServiceInBounds DEF ServicesInBounds
  <2>6. CASE n \in Named(c)
    <3>1. /\ IsSetting(BlockOf(c, n), ServiceKeys)
          /\ \A j \in DOMAIN BlockOf(c, n) : ~OutOfBounds(j, BlockOf(c, n)[j])
      BY <2>0, <2>6, AcceptedSettings
    <3> HIDE DEF Old, merged, more
    <3>2. merged[n][k] = IF k \in DOMAIN BlockOf(c, n) THEN BlockOf(c, n)[k] ELSE Old(n)[k]
      BY <2>4, <2>5, <2>6, <3>1, OverlayKeepsBounds
    <3> QED
      BY <2>1, <2>2, <2>3, <2>6, <3>2 DEF Said
  <2>7. CASE n \notin Named(c)
    <3>1. DOMAIN Said(c, n) = {}
      BY <2>1, <2>7 DEF Said
    <3> HIDE DEF Old, merged, more
    <3> QED
      BY <2>2, <2>3, <2>4, <2>7, <3>1
  <2> QED
    BY <2>6, <2>7
<1> HIDE DEF more, merged, keys
<1>5. RawLayered(Overlay(policy, keys), merged, more)
  BY <1>2, <1>3, <1>4 DEF RawLayered
<1> QED
  BY <1>5 DEF more, merged, keys

\* A timeout that some file sets is never replaced by the default, if it could be
\* looked at.
LEMMA DefaultOnlyIfUnset ==
    ASSUME NEW cs \in Seq(Contents), \A i \in 1 .. Len(cs) : ~Refused(cs[i]), HasLast(cs),
           NEW n, n # Empty, ~Miscased(cs, n), NEW k \in {"timeout", "drain_timeout"}, NEW default
    PROVE  OrDefault(LastWord(cs, n, k, 0), default) = LastWord(cs, n, k, default)
<1> DEFINE who == Speakers(cs, n, k)
           last == CHOOSE i \in who : \A j \in who : j <= i
<1>1. \A d : LastWord(cs, n, k, d) = IF who = {} THEN d ELSE Said(cs[last], n)[k]
  BY DEF LastWord, Speakers
<1>2. CASE who = {}
  BY <1>1, <1>2 DEF OrDefault
<1>3. CASE who # {}
  <2>1. last \in who
    BY <1>3 DEF HasLast
  <2>2. /\ last \in 1 .. Len(cs) /\ cs[last] \in Contents /\ ~Refused(cs[last])
        /\ k \in DOMAIN Said(cs[last], n)
    BY <2>1 DEF Speakers
  <2> HIDE DEF last, who
  <2>3. n \in Named(cs[last]) /\ Said(cs[last], n) = BlockOf(cs[last], n)
    BY <2>2 DEF Said
  <2>0. ~cs[last].oddBlocks
    BY <2>2, <2>3 DEF Miscased
  <2>4. /\ IsSetting(Said(cs[last], n), ServiceKeys)
        /\ ~OutOfBounds(k, Said(cs[last], n)[k])
    BY <2>0, <2>2, <2>3, AcceptedSettings
  <2>5. Said(cs[last], n)[k] \in Bounds(k)
    BY <2>4 DEF OutOfBounds
  <2>6. Said(cs[last], n)[k] \in Int /\ Said(cs[last], n)[k] > 0
    BY <2>5 DEF Bounds, Least
  <2> QED
    BY <1>1, <1>3, <2>6 DEF OrDefault
<1> QED
  BY <1>2, <1>3

LEMMA FinishedIsLayered ==
    ASSUME NEW cs \in Seq(Contents), \A i \in 1 .. Len(cs) : ~Refused(cs[i]), HasLast(cs),
           NEW policy, PolicyInBounds(policy), NEW services, ServicesInBounds(services, cs),
           RawLayered(policy, services, cs)
    PROVE  IsLayered(WithPolicyDefaults(policy), WithServiceDefaults(services), cs)
<1> DEFINE full == WithServiceDefaults(services)
<1>0. Completes(full, services, cs)
  BY ServiceDefaultsComplete
<1>1. \A k \in PolicyKeys :
        WithPolicyDefaults(policy)[k] = LastWord(cs, Empty, k, DefaultPolicy[k])
  BY PolicyDefaultsChangeNothing DEF RawLayered
<1>2. DOMAIN full = UNION {Named(cs[i]) : i \in DOMAIN cs}
  BY <1>0 DEF RawLayered, Completes
<1>3. ASSUME NEW n \in DOMAIN full, NEW k \in ServiceKeys, ~Miscased(cs, n)
      PROVE  full[n][k] = LastWord(cs, n, k, ServiceDefaults[k])
  <2>1. n # Empty
    BY <1>2, NamesAreNotEmpty
  <2>2. /\ n \in DOMAIN services
        /\ services[n] = [j \in ServiceKeys |-> services[n][j]]
        /\ \A j \in ServiceKeys : services[n][j] = LastWord(cs, n, j, NewService[j])
    BY <1>0, <1>3 DEF ServicesInBounds, RawLayered, Completes
  <2>3. CASE k \notin {"timeout", "drain_timeout"}
    <3>1. full[n][k] = services[n][k]
      BY <1>0, <2>2, <2>3 DEF Completes
    <3>2. ServiceDefaults[k] = NewService[k]
      BY <2>3 DEF ServiceDefaults, NewService, ServiceKeys
    <3> QED
      BY <2>2, <3>1, <3>2
  <2>4. CASE k = "timeout"
    <3>1. full[n][k] = OrDefault(services[n][k], DefaultServiceTimeout)
      BY <2>2, <2>4 DEF WithServiceDefaults, ServiceKeys
    <3>2. NewService[k] = 0 /\ ServiceDefaults[k] = DefaultServiceTimeout
      BY <2>4 DEF ServiceDefaults, NewService
    <3> HIDE DEF full
    <3> QED
      BY <1>3, <2>1, <2>2, <2>4, <3>1, <3>2, DefaultOnlyIfUnset
  <2>5. CASE k = "drain_timeout"
    <3>1. full[n][k] = OrDefault(services[n][k], DefaultDrainTimeout)
      BY <2>2, <2>5 DEF WithServiceDefaults, ServiceKeys
    <3>2. NewService[k] = 0 /\ ServiceDefaults[k] = DefaultDrainTimeout
      BY <2>5 DEF ServiceDefaults, NewService
    <3> HIDE DEF full
    <3> QED
      BY <1>3, <2>1, <2>2, <2>5, <3>1, <3>2, DefaultOnlyIfUnset
  <2> QED
    BY <2>3, <2>4, <2>5
<1> HIDE DEF full
<1> QED
  BY <1>1, <1>2, <1>3 DEF IsLayered, full

LEMMA LayersNext ==
    ASSUME ReportInv, UsableInv, LayeredInv, [Next]_vars
    PROVE  LayeredInv'
<1>1. CASE Refuse
  <2>1. daemon'.digest = <<>> /\ daemon'.state = "refused"
    BY <1>1 DEF Refuse, ReportInv, Records
  <2> QED
    BY <2>1, NothingIsLayered DEF LayeredInv, LastWordWins, Running
<1>2. ASSUME NEW env \in Environments, NEW recipe \in Recipes, Start(env, recipe)
      PROVE  LayeredInv'
  <2>1. /\ daemon'.digest = <<>> /\ daemon'.state = "loading"
        /\ daemon'.policy = DefaultPolicy /\ daemon'.services = NoServices
    BY <1>2 DEF Start
  <2> QED
    BY <2>1, NothingIsLayered DEF LayeredInv, LastWordWins, Running
<1>3. CASE ReadNext
  <2> DEFINE c == files[SearchPaths[daemon.env][daemon.next]]
  <2>1. CASE daemon' = [daemon EXCEPT !.next = @ + 1]
    BY <1>3, <2>1 DEF ReadNext, ReportInv, Records, LayeredInv, LastWordWins, Running
  <2>2. CASE /\ c \in Contents /\ ~Refused(c)
             /\ daemon' = [daemon EXCEPT !.next = @ + 1,
                                         !.policy = Overlay(@, RawPolicy(c)),
                                         !.services = MergeServices(@, c),
                                         !.sources = Append(@, SearchPaths[daemon.env][daemon.next]),
                                         !.digest = Append(@, c)]
    <3>1. /\ daemon'.state = "loading"
          /\ daemon'.policy = Overlay(daemon.policy, RawPolicy(c))
          /\ daemon'.services = MergeServices(daemon.services, c)
          /\ daemon'.digest = Append(daemon.digest, c)
      BY <1>3, <2>2 DEF ReadNext, ReportInv, Records
    <3>2. /\ daemon.digest \in Seq(Contents) /\ HasLast(daemon.digest)
          /\ \A i \in 1 .. Len(daemon.digest) : ~Refused(daemon.digest[i])
          /\ PolicyInBounds(daemon.policy) /\ ServicesInBounds(daemon.services, daemon.digest)
          /\ RawLayered(daemon.policy, daemon.services, daemon.digest)
      BY <1>3 DEF ReadNext, ReportInv, Digested, UsableInv, LayeredInv
    <3> HIDE DEF c
    <3>3. /\ HasLast(Append(daemon.digest, c))
          /\ RawLayered(Overlay(daemon.policy, RawPolicy(c)), MergeServices(daemon.services, c),
                        Append(daemon.digest, c))
      BY <2>2, <3>2, OneMoreHasLast, OneMoreIsLayered
    <3> QED
      BY <3>1, <3>3 DEF LayeredInv, LastWordWins, Running
  <2> QED
    BY <1>1, <1>3, <2>1, <2>2 DEF ReadNext
<1>4. CASE Finish
  <2>1. CASE daemon' = [daemon EXCEPT !.state = "running",
                                      !.policy = WithPolicyDefaults(@),
                                      !.services = WithServiceDefaults(@),
                                      !.digest = DigestOf(daemon)]
    <3>1. /\ daemon'.state = "running" /\ daemon'.digest = daemon.digest
          /\ daemon'.policy = WithPolicyDefaults(daemon.policy)
          /\ daemon'.services = WithServiceDefaults(daemon.services)
      BY <2>1 DEF ReportInv, Records, DigestOf
    <3>2. /\ daemon.digest \in Seq(Contents) /\ HasLast(daemon.digest)
          /\ \A i \in 1 .. Len(daemon.digest) : ~Refused(daemon.digest[i])
          /\ PolicyInBounds(daemon.policy) /\ ServicesInBounds(daemon.services, daemon.digest)
          /\ RawLayered(daemon.policy, daemon.services, daemon.digest)
      BY <1>4 DEF Finish, ReportInv, Digested, UsableInv, LayeredInv
    <3>3. IsLayered(WithPolicyDefaults(daemon.policy), WithServiceDefaults(daemon.services),
                    daemon.digest)
      BY <3>2, FinishedIsLayered
    <3> QED
      BY <3>1, <3>2, <3>3 DEF LayeredInv, LastWordWins
  <2> QED
    BY <1>1, <1>4, <2>1 DEF Finish
<1>5. CASE UNCHANGED daemon
  BY <1>5 DEF LayeredInv, LastWordWins, Running
<1> QED
  BY <1>2, <1>3, <1>4, <1>5 DEF Next, vars, Edit, Ask, Reread, Compare

LEMMA LayersInit == Init => LayeredInv
BY NothingIsLayered DEF Init, LayeredInv, LastWordWins, Running

\* A daemon runs on the last word of the files its digest vouches for, key for key, as
\* far as they spell it as they should, however many there are and whatever was edited
\* while it read them (mergeFile).
THEOREM LastWordsWin == Spec => []LastWordWins
<1>1. LayeredInv => LastWordWins
  BY DEF LayeredInv
<1> QED
  BY <1>1, ReportsInit, ReportsNext, UsableInit, UsableNext, LayersInit, LayersNext, PTL DEF Spec

\* What a client compares when it has read every file: what they hold now.
LEMMA FreshMeansSame ==
    ASSUME ReportInv, Compare, undisturbed, client.read = client.report.digest
    PROVE  [i \in DOMAIN daemon.sources |-> files[daemon.sources[i]]] = daemon.digest
<1>1. /\ client.report = [sources |-> daemon.sources, digest |-> daemon.digest,
                          recipe |-> daemon.recipe]
      /\ Len(client.read) = Len(daemon.sources)
      /\ \A i \in 1 .. Len(client.read) : client.read[i] = files[daemon.sources[i]]
  BY DEF Compare, ReportInv, ClientSees, PathsOf
<1>2. /\ client.read = daemon.digest /\ daemon.digest \in Seq(Contents)
      /\ daemon.sources \in Seq(Paths)
  BY <1>1 DEF ReportInv, Digested
<1> QED
  BY <1>1, <1>2

\* An answer of status is true of the files as they are and of what the daemon runs
\* on, until somebody edits one or restarts the daemon (configDrift).
THEOREM AnswersAreRight == Spec => []AnswerIsRight
<1>1. Init => AnswerIsRight
  BY DEF Init, AnswerIsRight
<1>2. (/\ ReportInv /\ ReportInv' /\ LastWordWins' /\ UntouchedIsFresh'
       /\ AnswerIsRight /\ [Next]_vars)
        => AnswerIsRight'
  <2> SUFFICES ASSUME ReportInv, ReportInv', LastWordWins', UntouchedIsFresh', AnswerIsRight,
                      [Next]_vars, client'.state = "done", undisturbed'
               PROVE  AnswerIsRight'
    BY DEF AnswerIsRight
  <2>1. CASE Ask
    <3>1. /\ UNCHANGED <<files, daemon, edited>> /\ daemon.state = "running"
          /\ client'.answer # "stale"
          /\ client'.answer = "unknown" => daemon.recipe # DigestRecipe
          /\ client'.answer = "fresh" => daemon.sources = <<>>
      BY <2>1 DEF Ask, Comparable, PathsOf
    <3>2. ASSUME daemon.sources = <<>>
          PROVE  Legible /\ Now = daemon.digest
      BY <3>2 DEF ReportInv, Digested, Now, Legible
    <3>3. IsLayered(daemon.policy, daemon.services, daemon.digest)
      BY <3>1 DEF LastWordWins, Running
    <3> QED
      BY <3>1, <3>2, <3>3 DEF Now, Legible, AnswerIsRight
  <2>2. CASE Reread
    <3> DEFINE i == Len(client.read) + 1
    <3>1. /\ client' = [client EXCEPT !.state = "done", !.answer = "unknown"]
          /\ files[PathsOf(client.report)[i]] \in {Absent, Unreadable}
      BY <2>2 DEF Reread, ReportInv, Records
    <3>2. /\ PathsOf(client.report) = daemon.sources /\ client.read \in Seq(Contents)
          /\ UNCHANGED <<files, daemon>>
      BY <2>2 DEF Reread, ReportInv, ClientSees, PathsOf
    <3>3. i \in DOMAIN daemon.sources
      BY <2>2, <3>2 DEF Reread, ReportInv, Digested
    <3>4. ~Legible
      BY <3>1, <3>2, <3>3, ConfigAssumption DEF ConfigAssumption, Now, Legible
    <3>5. client'.answer = "unknown"
      BY <3>1 DEF ReportInv, Records
    <3> QED
      BY <3>2, <3>4, <3>5 DEF Now, Legible, AnswerIsRight
  <2>3. CASE Compare
    <3>1. /\ UNCHANGED <<files, daemon, edited, undisturbed>>
          /\ daemon.state = "running" /\ daemon.recipe = DigestRecipe
          /\ client'.answer \in {"fresh", "stale"}
          /\ client'.answer = "fresh" => client.read = client.report.digest
      BY <2>3 DEF Compare, ReportInv, ClientSees, Records
    <3>2. client'.answer = "stale" => edited
      BY <3>1 DEF UntouchedIsFresh
    <3>3. ASSUME client'.answer = "fresh"
          PROVE  Legible /\ IsLayered(daemon.policy, daemon.services, Now)
      <4>1. Now = daemon.digest
        BY <2>3, <3>1, <3>3, FreshMeansSame DEF Now
      <4>2. IsLayered(daemon.policy, daemon.services, daemon.digest)
        BY <3>1 DEF LastWordWins, Running
      <4>3. daemon.digest \in Seq(Contents)
        BY DEF ReportInv, Digested
      <4> QED
        BY <4>1, <4>2, <4>3 DEF Legible
    <3> QED
      BY <3>1, <3>2, <3>3 DEF Now, Legible, AnswerIsRight
  <2>4. CASE UNCHANGED <<files, daemon, client, edited, undisturbed>>
    BY <2>4 DEF AnswerIsRight, Now, Legible
  <2>5. CASE ReadNext \/ Finish
    BY <2>5 DEF ReadNext, Finish, ReportInv, ClientSees
  <2> QED
    BY <2>1, <2>2, <2>3, <2>4, <2>5 DEF Next, vars, Edit, Start
<1> QED
  BY <1>1, <1>2, ReportsInit, ReportsNext, LastWordsWin, UntouchedFilesAreFresh, PTL DEF Spec
=============================================================================
