--------------------------------- MODULE Card ---------------------------------
(***************************************************************************)
(* Which card the daemon arbitrates: internal/gpu, with the observer's     *)
(* choice of one device (internal/observe/observe.go) and the daemon's     *)
(* refusal to start without it.                                            *)
(*                                                                         *)
(* policy.gpu_index is a position in a list, and the list is made anew     *)
(* each time a source is opened: by NVML when it loads, which lists the    *)
(* NVIDIA cards by bus address, and otherwise from /sys/class/drm, which   *)
(* lists whatever looks like a real card in the kernel's order.  Entries   *)
(* of sysfs become unreadable and readable again at any time, also between *)
(* two of the system calls that classify a card.                           *)
(***************************************************************************)
EXTENDS Integers, FiniteSets

CONSTANTS Cards,      \* the cards of the machine, by kernel number
          Kind,       \* what each is
          BusRank,    \* the order of their bus addresses, which is NVML's
          NameRank,   \* the order of their directory names: card10 before card2
          Indexes,    \* gpu_index, as it may be configured
          Breakable,  \* the cards whose entries may become unreadable
          MaxChanges  \* changes to the machine: a bound of the model

Kinds == {"bare",      \* no device entry: nothing is behind it
          "virtual",   \* a device directory without a PCI vendor: simpledrm, vkms
          "nvidia", "amd", "intel"}

(***************************************************************************)
(* How an entry can fail: lstat of the device entry is refused; the entry  *)
(* is a link to nowhere; it is no directory; it is one whose files cannot  *)
(* be reached; or only the card's memory cannot be read.                   *)
(***************************************************************************)
Faults == {"refused", "dangling", "not a directory", "sealed", "blind"}

ASSUME CardAssumption ==
  /\ Cards \subseteq Nat
  /\ IsFiniteSet(Cards)
  /\ Kind \in [Cards -> Kinds]
  /\ BusRank \in [Cards -> Nat]
  /\ NameRank \in [Cards -> Nat]
  /\ Indexes \subseteq Nat
  /\ Breakable \subseteq {c \in Cards : Kind[c] # "bare"}
  /\ MaxChanges \in Nat

VARIABLES index,      \* policy.gpu_index
          fault,      \* card -> what is wrong with its entries, "none" when nothing is
          driver,     \* NVML loads and finds its cards
          changes,    \* changes made to the machine so far
          pc,         \* how far the daemon's start got
          looking,    \* the card being classified and the call that comes next
          todo,       \* cards the scan has not come to
          source,     \* the open source
          listed,     \* the cards it lists
          unreached,  \* those it found it could not classify
          reading,    \* whose memory was read last, NoCard when that failed
          vanished    \* history: directories lost between two calls of one classification

machine == <<index, fault, driver, changes>>
vars == <<machine, pc, looking, todo, source, listed, unreached, reading, vanished>>

NoCard == -1
Nothing == [card |-> NoCard, call |-> "none"]

Nvidia == {c \in Cards : Kind[c] = "nvidia"}
Real == {c \in Cards : Kind[c] \notin {"bare", "virtual"}}

Init ==
  /\ index \in Indexes
  /\ fault = [c \in Cards |-> "none"]
  /\ driver \in BOOLEAN
  /\ changes = 0
  /\ pc = "down"
  /\ looking = Nothing
  /\ todo = {}
  /\ source = "none"
  /\ listed = {}
  /\ unreached = {}
  /\ reading = NoCard
  /\ vanished = {}

-----------------------------------------------------------------------------
(* The machine. *)

Change ==
  /\ changes < MaxChanges
  /\ changes' = changes + 1
  /\ UNCHANGED <<index, pc, looking, todo, source, listed, unreached, reading>>

(***************************************************************************)
(* A directory that is lost after it was found to be one and before its    *)
(* vendor file is looked for looks like a directory without that file.     *)
(***************************************************************************)
Break(c, f) ==
  /\ Change
  /\ fault' = [fault EXCEPT ![c] = f]
  /\ vanished' = IF f = "dangling" /\ looking = [card |-> c, call |-> "vendor"]
                 THEN vanished \cup {c} ELSE vanished
  /\ UNCHANGED driver

Mend(c) ==
  /\ Change
  /\ fault[c] # "none"
  /\ fault' = [fault EXCEPT ![c] = "none"]
  /\ UNCHANGED <<driver, vanished>>

(* An upgrade takes the driver away until the next boot, or brings it. *)
SwapDriver ==
  /\ Change
  /\ driver' = ~driver
  /\ UNCHANGED <<fault, vanished>>

-----------------------------------------------------------------------------
(* Open: NVML, failing that sysfs. *)

OpenNVML ==
  /\ pc = "down"
  /\ driver /\ Nvidia # {}
  /\ pc' = "opened"
  /\ source' = "nvml"
  /\ listed' = Nvidia
  /\ vanished' = {}
  /\ UNCHANGED <<machine, looking, todo, unreached, reading>>

ReadDir ==
  /\ pc = "down"
  /\ ~(driver /\ Nvidia # {})
  /\ pc' = "scanning"
  /\ todo' = Cards
  /\ vanished' = {}
  /\ UNCHANGED <<machine, looking, source, listed, unreached, reading>>

Scanning == UNCHANGED <<machine, pc, source, reading, vanished>>

Keep(c, reached) ==
  /\ listed' = listed \cup {c}
  /\ unreached' = IF reached THEN unreached ELSE unreached \cup {c}
  /\ looking' = Nothing

LeaveOut ==
  /\ looking' = Nothing
  /\ UNCHANGED <<listed, unreached>>

GoOn(c, call) ==
  /\ looking' = [card |-> c, call |-> call]
  /\ UNCHANGED <<listed, unreached>>

(***************************************************************************)
(* classifyCard, three calls.  The entry itself, so that a dangling link   *)
(* is seen as one: only an entry that is not there makes a card virtual.   *)
(***************************************************************************)
Lstat(c) ==
  /\ pc = "scanning" /\ looking = Nothing
  /\ c \in todo
  /\ todo' = todo \ {c}
  /\ IF Kind[c] = "bare" THEN LeaveOut
     ELSE IF fault[c] = "refused" THEN Keep(c, FALSE)
     ELSE GoOn(c, "stat")
  /\ Scanning

(* Mutant of Stat: a link to nowhere counts as no entry at all. *)
StatFollows(c) ==
  /\ looking = [card |-> c, call |-> "stat"]
  /\ IF fault[c] = "dangling" THEN LeaveOut
     ELSE IF fault[c] \in {"refused", "not a directory"} THEN Keep(c, FALSE)
     ELSE GoOn(c, "vendor")
  /\ UNCHANGED todo
  /\ Scanning

(***************************************************************************)
(* The target: a card behind a link to nowhere, or behind something that   *)
(* is no directory, is real for all anyone can tell.                       *)
(***************************************************************************)
Stat(c) ==
  /\ looking = [card |-> c, call |-> "stat"]
  /\ IF fault[c] \in {"refused", "dangling", "not a directory"} THEN Keep(c, FALSE)
     ELSE GoOn(c, "vendor")
  /\ UNCHANGED todo
  /\ Scanning

(***************************************************************************)
(* The vendor file: the directory can be reached, so a missing one is      *)
(* taken to say the card is virtual.                                       *)
(***************************************************************************)
StatVendor(c) ==
  /\ looking = [card |-> c, call |-> "vendor"]
  /\ IF fault[c] \in {"refused", "sealed", "not a directory"} THEN Keep(c, FALSE)
     ELSE IF Kind[c] = "virtual" \/ fault[c] = "dangling" THEN LeaveOut
     ELSE Keep(c, TRUE)
  /\ UNCHANGED todo
  /\ Scanning

EndScan ==
  /\ pc = "scanning" /\ todo = {} /\ looking = Nothing
  /\ IF listed = {} THEN pc' = "down" /\ UNCHANGED source
     ELSE pc' = "opened" /\ source' = "sysfs"
  /\ UNCHANGED <<machine, looking, todo, listed, unreached, reading, vanished>>

-----------------------------------------------------------------------------
(* Reading the arbitrated device. *)

(* Mutant of Order: the order the directory was read in. *)
OrderByName(c) == IF source = "nvml" THEN BusRank[c] ELSE NameRank[c]

Order(c) == IF source = "nvml" THEN BusRank[c] ELSE c

(***************************************************************************)
(* DeviceByIndex: the cards that have the index.                           *)
(***************************************************************************)
At(i) == {c \in listed : Cardinality({d \in listed : Order(d) < Order(c)}) = i}

(***************************************************************************)
(* Devices: NVML lists all its cards or, when one fails, none.  sysfs      *)
(* records each failure on its own card, and only amdgpu has counters.     *)
(***************************************************************************)
CanRead(c) ==
  IF source = "nvml" THEN driver /\ \A d \in listed : fault[d] # "blind"
  ELSE c \notin unreached /\ fault[c] = "none" /\ Kind[c] = "amd"

Device == {c \in At(index) : CanRead(c)}

ReadDevice == reading' = IF Device = {} THEN NoCard ELSE CHOOSE c \in Device : TRUE

(* Mutant of Close: what could not be classified is remembered. *)
CloseRemembering ==
  /\ pc' = "down"
  /\ source' = "none"
  /\ listed' = {}
  /\ UNCHANGED unreached

Close ==
  /\ pc' = "down"
  /\ source' = "none"
  /\ listed' = {}
  /\ unreached' = {}

(* Mutant of Start: the daemon starts whatever the first reading says. *)
StartAnyway ==
  /\ pc = "opened"
  /\ ReadDevice
  /\ pc' = "up"
  /\ UNCHANGED <<machine, looking, todo, source, listed, unreached, vanished>>

(***************************************************************************)
(* Run refuses to start when the arbitrated card cannot be read.           *)
(***************************************************************************)
Start ==
  /\ pc = "opened"
  /\ ReadDevice
  /\ IF Device = {} THEN Close
     ELSE pc' = "up" /\ UNCHANGED <<source, listed, unreached>>
  /\ UNCHANGED <<machine, looking, todo, vanished>>

Read ==
  /\ pc = "up"
  /\ ReadDevice
  /\ UNCHANGED <<machine, pc, looking, todo, source, listed, unreached, vanished>>

Stop ==
  /\ pc = "up"
  /\ Close
  /\ reading' = NoCard
  /\ UNCHANGED <<machine, looking, todo, vanished>>

-----------------------------------------------------------------------------
Next ==
  \/ \E c \in Breakable : Mend(c) \/ \E f \in Faults : Break(c, f)
  \/ SwapDriver
  \/ OpenNVML
  \/ ReadDir
  \/ \E c \in Cards : Lstat(c) \/ Stat(c) \/ StatVendor(c)
  \/ EndScan
  \/ Start
  \/ Read
  \/ Stop

Spec == Init /\ [][Next]_vars

-----------------------------------------------------------------------------
(* Properties. *)

(***************************************************************************)
(* The type invariant; a source that is closed leaves nothing behind for   *)
(* the next one, so what could not be classified is always listed.         *)
(***************************************************************************)
TypeOK ==
  /\ index \in Indexes
  /\ fault \in [Cards -> Faults \cup {"none"}]
  /\ driver \in BOOLEAN
  /\ changes \in 0..MaxChanges
  /\ pc \in {"down", "scanning", "opened", "up"}
  /\ looking \in [card : Cards, call : {"stat", "vendor"}] \cup {Nothing}
  /\ todo \in SUBSET Cards
  /\ source \in {"none", "nvml", "sysfs"}
  /\ listed \in SUBSET Cards
  /\ unreached \in SUBSET listed
  /\ reading \in Cards \cup {NoCard}
  /\ vanished \in SUBSET Cards

(***************************************************************************)
(* No fault drops a card: once the scan is over every real card is listed, *)
(* whatever could not be read during it, so none moves up to the index of  *)
(* another.  The one exception is a directory lost between the call that   *)
(* found it and the call that looks for its vendor file.                   *)
(***************************************************************************)
NoFaultDropsACard == source = "sysfs" => Real \ vanished \subseteq listed

NvidiaAt(i) == {c \in Nvidia : Cardinality({d \in Nvidia : BusRank[d] < BusRank[c]}) = i}

RealAt(i) == {c \in Real : Cardinality({d \in Real : d < c}) = i}

(***************************************************************************)
(* sysfs.go:58, "dropping a card renumbers every card after it": on a      *)
(* source the memory the daemon decides by is always that of the one card  *)
(* which has the index when nothing is wrong with any card, whatever could *)
(* not be read when the source was opened or since.  The exceptions are a  *)
(* directory that vanished, and a virtual card that could not be           *)
(* classified: it is real for all anyone can tell, and is counted.         *)
(***************************************************************************)
FaultsDoNotShiftTheIndex ==
  reading # NoCard /\ vanished = {} /\ unreached \subseteq Real =>
    reading \in (IF source = "nvml" THEN NvidiaAt(index) ELSE RealAt(index))

(***************************************************************************)
(* sysfs.go:22-24, "that order is the same one NVML uses on a machine with *)
(* a single NVIDIA card, and on a hybrid machine it keeps the NVIDIA card  *)
(* at the index a user would expect rather than silently promoting the     *)
(* integrated GPU": the memory of another card is never read for an index  *)
(* that is an NVIDIA card's.                                               *)
(***************************************************************************)
NvidiaKeepsItsIndex ==
  reading # NoCard /\ NvidiaAt(index) # {} => reading \in NvidiaAt(index)

(***************************************************************************)
(* A running daemon is never blind for longer than its card is: on sysfs   *)
(* the reading succeeds whenever nothing is wrong with the card itself,    *)
(* whatever is wrong with the others and whatever was wrong when the       *)
(* source was opened.                                                      *)
(***************************************************************************)
BlindOnlyWithItsCard ==
  pc = "up" /\ source = "sysfs" =>
    \E c \in At(index) : fault[c] = "none" => CanRead(c)
=============================================================================
