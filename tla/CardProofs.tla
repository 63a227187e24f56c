------------------------------ MODULE CardProofs ------------------------------
(***************************************************************************)
(* What opening a source keeps, for every machine, every fault at every    *)
(* moment of the scan, and any number of changes and restarts.             *)
(***************************************************************************)
EXTENDS Card, TLAPS

(***************************************************************************)
(* While the scan runs every real card is listed, still to come or being   *)
(* looked at; a card whose vendor file is looked for is behind a directory *)
(* that was there, so when it is a link to nowhere by now it has vanished. *)
(***************************************************************************)
ScanLosesNobody ==
  /\ pc = "scanning" => Real \ vanished \subseteq listed \cup todo \cup {looking.card}
  /\ pc \in {"down", "scanning"} => source = "none"
  /\ pc = "down" => listed = {}
  /\ looking # Nothing => pc = "scanning"
  /\ \A c \in Cards : looking = [card |-> c, call |-> "vendor"] /\ fault[c] = "dangling" => c \in vanished

(***************************************************************************)
(* What a running daemon on sysfs arbitrates is a card it reached, with    *)
(* counters.                                                               *)
(***************************************************************************)
RunsOnAReachedCard ==
  pc = "up" /\ source = "sysfs" => \E c \in At(index) : c \notin unreached /\ Kind[c] = "amd"

CardInv == TypeOK /\ ScanLosesNobody /\ NoFaultDropsACard /\ RunsOnAReachedCard

LEMMA RealAreCards == Real \subseteq Cards /\ Nvidia \subseteq Cards
  BY DEF Real, Nvidia

LEMMA InitCard == Init => CardInv
<1> SUFFICES ASSUME Init PROVE CardInv
  OBVIOUS
<1>1. TypeOK
  BY CardAssumption DEF Init, TypeOK
<1>2. ScanLosesNobody /\ NoFaultDropsACard /\ RunsOnAReachedCard
  BY DEF Init, ScanLosesNobody, NoFaultDropsACard, RunsOnAReachedCard, Nothing
<1> QED
  BY <1>1, <1>2 DEF CardInv

(***************************************************************************)
(* What one call of a classification can lead to.                          *)
(***************************************************************************)
LEMMA CallsLeadOn ==
  ASSUME NEW c \in Cards, Lstat(c) \/ Stat(c) \/ StatVendor(c)
  PROVE  \/ looking' = Nothing /\ listed' = listed /\ unreached' = unreached
         \/ looking' = Nothing /\ listed' = listed \cup {c} /\ unreached' = unreached
         \/ looking' = Nothing /\ listed' = listed \cup {c} /\ unreached' = unreached \cup {c}
         \/ /\ looking' \in {[card |-> c, call |-> "stat"], [card |-> c, call |-> "vendor"]}
            /\ listed' = listed /\ unreached' = unreached
<1>1. CASE Lstat(c)
  BY <1>1, Zenon DEF Lstat, Keep, LeaveOut, GoOn
<1>2. CASE Stat(c)
  BY <1>2, Zenon DEF Stat, Keep, GoOn
<1>3. CASE StatVendor(c)
  BY <1>3, Zenon DEF StatVendor, Keep, LeaveOut
<1> QED
  BY <1>1, <1>2, <1>3

(***************************************************************************)
(* Types.                                                                  *)
(***************************************************************************)
LEMMA NextCardTypes == CardInv /\ [Next]_vars => TypeOK'
<1> SUFFICES ASSUME CardInv, [Next]_vars PROVE TypeOK'
  OBVIOUS
<1>0. TypeOK /\ (pc = "down" => listed = {})
  BY DEF CardInv, ScanLosesNobody
<1> USE DEF machine
<1>1. ASSUME NEW c \in Breakable, NEW f \in Faults, Break(c, f) PROVE TypeOK'
  <2>1. c \in Cards
    BY <1>0, CardAssumption
  <2>2. fault' \in [Cards -> Faults \cup {"none"}]
    BY <1>0, <1>1, <2>1 DEF Break, TypeOK
  <2>3. vanished' \in SUBSET Cards
    BY <1>0, <1>1, <2>1 DEF Break, TypeOK
  <2>4. changes' \in 0..MaxChanges
    BY <1>0, <1>1, CardAssumption DEF Break, Change, TypeOK
  <2> QED
    BY <1>0, <1>1, <2>2, <2>3, <2>4 DEF Break, Change, TypeOK
<1>2. ASSUME NEW c \in Breakable, Mend(c) PROVE TypeOK'
  <2>1. fault' \in [Cards -> Faults \cup {"none"}]
    BY <1>0, <1>2, CardAssumption DEF Mend, TypeOK
  <2>2. changes' \in 0..MaxChanges
    BY <1>0, <1>2, CardAssumption DEF Mend, Change, TypeOK
  <2> QED
    BY <1>0, <1>2, <2>1, <2>2 DEF Mend, Change, TypeOK
<1>3. CASE SwapDriver
  <2>1. changes' \in 0..MaxChanges /\ driver' \in BOOLEAN
    BY <1>0, <1>3, CardAssumption DEF SwapDriver, Change, TypeOK
  <2> QED
    BY <1>0, <1>3, <2>1 DEF SwapDriver, Change, TypeOK
<1>4. CASE OpenNVML \/ ReadDir \/ EndScan
  <2>1. CASE OpenNVML
    BY <1>0, <2>1, RealAreCards DEF OpenNVML, TypeOK
  <2>2. CASE ReadDir
    BY <1>0, <2>2 DEF ReadDir, TypeOK
  <2>3. CASE EndScan
    BY <1>0, <2>3 DEF EndScan, TypeOK
  <2> QED
    BY <1>0, <1>4, <2>1, <2>2, <2>3
<1>5. ASSUME NEW c \in Cards, Lstat(c) \/ Stat(c) \/ StatVendor(c) PROVE TypeOK'
  <2>1. looking' \in [card : Cards, call : {"stat", "vendor"}] \cup {Nothing}
    BY <1>0, <1>5, CallsLeadOn
  <2>2. listed' \in SUBSET Cards /\ unreached' \in SUBSET listed'
    BY <1>0, <1>5, CallsLeadOn DEF TypeOK
  <2>3. todo' \in SUBSET Cards
    BY <1>0, <1>5 DEF Lstat, Stat, StatVendor, TypeOK
  <2> QED
    BY <1>0, <1>5, <2>1, <2>2, <2>3 DEF Lstat, Stat, StatVendor, Scanning, TypeOK
<1>6. ASSUME ReadDevice PROVE reading' \in Cards \cup {NoCard}
  <2>1. CASE Device = {}
    BY <1>0, <1>6, <2>1 DEF ReadDevice
  <2>2. CASE Device # {}
    <3>1. reading' \in Device
      BY <1>0, <1>6, <2>2 DEF ReadDevice
    <3> QED
      BY <1>0, <3>1 DEF Device, At, TypeOK
  <2> QED
    BY <1>0, <2>1, <2>2
<1>7. CASE Start \/ Read \/ Stop
  BY <1>0, <1>6, <1>7 DEF Start, Read, Stop, Close, TypeOK
<1>8. CASE UNCHANGED vars
  BY <1>0, <1>8 DEF vars, TypeOK
<1> QED
  BY <1>1, <1>2, <1>3, <1>4, <1>5, <1>7, <1>8 DEF Next

LEMMA NextScan == CardInv /\ [Next]_vars => ScanLosesNobody' /\ NoFaultDropsACard'
<1> SUFFICES ASSUME CardInv, [Next]_vars PROVE ScanLosesNobody' /\ NoFaultDropsACard'
  OBVIOUS
<1> USE DEF machine
<1>0. TypeOK /\ ScanLosesNobody /\ NoFaultDropsACard /\ Nothing.card = NoCard
  BY DEF CardInv, Nothing
<1>1. ASSUME NEW c \in Breakable, NEW f \in Faults, Break(c, f)
      PROVE  ScanLosesNobody' /\ NoFaultDropsACard'
  <2>1. vanished \subseteq vanished' /\ UNCHANGED <<pc, source, listed, todo, looking>>
    BY <1>1 DEF Break, Change
  <2>2. ASSUME NEW d \in Cards, looking = [card |-> d, call |-> "vendor"], fault'[d] = "dangling"
        PROVE  d \in vanished'
    <3>1. CASE d = c
      BY <1>0, <1>1, <2>2, <3>1 DEF Break, TypeOK
    <3>2. CASE d # c
      BY <1>0, <1>1, <2>1, <2>2, <3>2 DEF Break, TypeOK, ScanLosesNobody
    <3> QED
      BY <3>1, <3>2
  <2> QED
    BY <1>0, <2>1, <2>2 DEF ScanLosesNobody, NoFaultDropsACard
<1>2. ASSUME NEW c \in Breakable, Mend(c) PROVE ScanLosesNobody' /\ NoFaultDropsACard'
  <2>1. \A d \in Cards : fault'[d] = "dangling" => fault[d] = "dangling"
    BY <1>0, <1>2 DEF Mend, TypeOK
  <2> QED
    BY <1>0, <1>2, <2>1 DEF Mend, Change, ScanLosesNobody, NoFaultDropsACard
<1>3. CASE SwapDriver
  BY <1>0, <1>3 DEF SwapDriver, Change, ScanLosesNobody, NoFaultDropsACard
<1>4. CASE OpenNVML
  BY <1>0, <1>4 DEF OpenNVML, ScanLosesNobody, NoFaultDropsACard, Nothing
<1>5. CASE ReadDir
  BY <1>0, <1>5, RealAreCards DEF ReadDir, ScanLosesNobody, NoFaultDropsACard, Nothing
<1>6. ASSUME NEW c \in Cards, Lstat(c) PROVE ScanLosesNobody' /\ NoFaultDropsACard'
  <2>1. UNCHANGED <<pc, source, vanished, fault>> /\ pc = "scanning" /\ looking = Nothing
    BY <1>6 DEF Lstat, Scanning
  <2>2. todo' = todo \ {c} /\ listed \subseteq listed'
    BY <1>6 DEF Lstat, Keep, LeaveOut, GoOn
  <2>3. c \in Real => c \in listed' \/ looking'.card = c
    BY <1>6 DEF Lstat, Keep, LeaveOut, GoOn, Real
  <2>4. Real \ vanished \subseteq listed \cup todo
    BY <1>0, <2>1, RealAreCards, CardAssumption DEF ScanLosesNobody, NoCard
  <2>5. \A d \in Cards : looking' # [card |-> d, call |-> "vendor"]
    BY <1>6 DEF Lstat, Keep, LeaveOut, GoOn, Nothing
  <2>6. source = "none"
    BY <1>0, <2>1 DEF ScanLosesNobody
  <2> QED
    BY <2>1, <2>2, <2>3, <2>4, <2>5, <2>6 DEF ScanLosesNobody, NoFaultDropsACard
<1>7. ASSUME NEW c \in Cards, Stat(c) \/ StatVendor(c) PROVE ScanLosesNobody' /\ NoFaultDropsACard'
  <2>1. UNCHANGED <<pc, source, vanished, fault, todo>> /\ looking.card = c /\ looking # Nothing
    <3>1. looking \in {[card |-> c, call |-> "stat"], [card |-> c, call |-> "vendor"]}
      BY <1>7 DEF Stat, StatVendor
    <3>2. looking.card = c /\ c # NoCard
      BY <3>1, CardAssumption DEF NoCard
    <3>3. UNCHANGED <<pc, source, vanished, fault, todo>>
      BY <1>7 DEF Stat, StatVendor, Scanning
    <3> QED
      BY <1>0, <3>2, <3>3
  <2>2. pc = "scanning" /\ source = "none"
    BY <1>0, <2>1 DEF ScanLosesNobody
  <2>3. c \in Real \ vanished => c \in listed' \/ looking'.card = c
    <3>1. CASE Stat(c)
      <4>1. listed' = listed \cup {c} \/ looking' = [card |-> c, call |-> "vendor"]
        BY <3>1, Zenon DEF Stat, Keep, GoOn
      <4> QED
        BY <4>1
    <3>2. CASE StatVendor(c)
      BY <1>0, <3>2 DEF StatVendor, Keep, LeaveOut, ScanLosesNobody, Real
    <3> QED
      BY <1>7, <3>1, <3>2
  <2>4. listed \subseteq listed'
    BY <1>7 DEF Stat, StatVendor, Keep, LeaveOut, GoOn
  <2>5. \A d \in Cards : looking' = [card |-> d, call |-> "vendor"] => fault[d] # "dangling"
    <3>1. looking' = Nothing \/ (looking' = [card |-> c, call |-> "vendor"] /\ fault[c] # "dangling")
      BY <1>7 DEF Stat, StatVendor, Keep, LeaveOut, GoOn
    <3> QED
      BY <3>1 DEF Nothing
  <2> QED
    BY <1>0, <2>1, <2>2, <2>3, <2>4, <2>5 DEF ScanLosesNobody, NoFaultDropsACard
<1>8. CASE EndScan
  <2>1. Real \ vanished \subseteq listed
    BY <1>0, <1>8, RealAreCards, CardAssumption DEF EndScan, ScanLosesNobody, NoCard
  <2>2. UNCHANGED <<fault, looking, todo, listed, vanished>> /\ looking = Nothing
    BY <1>8 DEF EndScan
  <2>3. pc' # "scanning" /\ (pc' = "down" => source' = source)
    BY <1>8 DEF EndScan
  <2>4. source = "none"
    BY <1>0, <1>8 DEF EndScan, ScanLosesNobody
  <2>5. NoFaultDropsACard'
    BY <2>1, <2>2 DEF NoFaultDropsACard
  <2>6. pc' = "down" => source' = "none" /\ listed = {}
    BY <1>8, <2>4 DEF EndScan
  <2> QED
    BY <1>0, <2>2, <2>3, <2>5, <2>6 DEF ScanLosesNobody, Nothing
<1>9. CASE Start \/ Read \/ Stop
  <2>1. looking = Nothing /\ looking' = Nothing
    BY <1>0, <1>9 DEF Start, Read, Stop, ScanLosesNobody
  <2>2. pc' # "scanning" /\ ((source' = source /\ listed' = listed) \/ source' = "none")
    BY <1>9 DEF Start, Read, Stop, Close
  <2>3. vanished' = vanished
    BY <1>9 DEF Start, Read, Stop
  <2>4. pc' = "down" => source' = "none" /\ listed' = {}
    BY <1>9 DEF Start, Read, Stop, Close
  <2> QED
    BY <1>0, <2>1, <2>2, <2>3, <2>4 DEF ScanLosesNobody, NoFaultDropsACard, Nothing
<1>10. CASE UNCHANGED vars
  BY <1>0, <1>10 DEF vars, ScanLosesNobody, NoFaultDropsACard
<1> QED
  BY <1>1, <1>2, <1>3, <1>4, <1>5, <1>6, <1>7, <1>8, <1>9, <1>10 DEF Next

LEMMA NextRuns == CardInv /\ [Next]_vars => RunsOnAReachedCard'
<1> SUFFICES ASSUME CardInv, [Next]_vars, pc' = "up", source' = "sysfs"
             PROVE  \E c \in At(index)' : c \notin unreached' /\ Kind[c] = "amd"
  BY DEF RunsOnAReachedCard
<1> USE DEF machine
<1>1. CASE Start
  <2>1. Device # {} /\ UNCHANGED <<index, source, listed, unreached>>
    BY <1>1 DEF Start, Close
  <2>2. PICK c \in At(index) : CanRead(c)
    BY <2>1 DEF Device
  <2>3. c \notin unreached /\ Kind[c] = "amd"
    BY <2>1, <2>2 DEF CanRead
  <2>4. At(index)' = At(index)
    BY <2>1 DEF At, Order
  <2> QED
    BY <2>1, <2>3, <2>4
<1>2. CASE pc = "up" /\ UNCHANGED <<index, source, listed, unreached>>
  <2>1. At(index)' = At(index)
    BY <1>2 DEF At, Order
  <2> QED
    BY <1>2, <2>1 DEF CardInv, RunsOnAReachedCard
<1>3. \/ Start
      \/ pc = "up" /\ UNCHANGED <<index, source, listed, unreached>>
  <2>1. ASSUME NEW c \in Cards, Lstat(c) \/ Stat(c) \/ StatVendor(c) PROVE FALSE
    <3>1. pc = "scanning"
      <4>1. CASE Lstat(c)
        BY <4>1 DEF Lstat
      <4>2. CASE Stat(c) \/ StatVendor(c)
        <5>1. looking \in {[card |-> c, call |-> "stat"], [card |-> c, call |-> "vendor"]}
          BY <4>2 DEF Stat, StatVendor
        <5>2. looking.card = c /\ Nothing.card = NoCard /\ c # NoCard
          BY <5>1, CardAssumption DEF Nothing, NoCard
        <5> QED
          BY <5>2 DEF CardInv, ScanLosesNobody
      <4> QED
        BY <2>1, <4>1, <4>2
    <3> QED
      BY <2>1, <3>1 DEF Lstat, Stat, StatVendor, Scanning
  <2>2. CASE OpenNVML \/ ReadDir \/ EndScan \/ Stop
    BY <2>2 DEF OpenNVML, ReadDir, EndScan, Stop, Close
  <2>3. CASE Read \/ SwapDriver \/ UNCHANGED vars
    BY <2>3 DEF Read, SwapDriver, Change, vars
  <2>4. ASSUME NEW c \in Breakable, Mend(c) \/ \E f \in Faults : Break(c, f)
        PROVE  pc = "up" /\ UNCHANGED <<index, source, listed, unreached>>
    BY <2>4 DEF Mend, Break, Change
  <2> QED
    BY <2>1, <2>2, <2>3, <2>4 DEF Next
<1> QED
  BY <1>1, <1>2, <1>3

LEMMA CardIsInductive == Spec => []CardInv
<1>1. Init => CardInv
  BY InitCard
<1>2. CardInv /\ [Next]_vars => CardInv'
  BY NextCardTypes, NextScan, NextRuns DEF CardInv
<1> QED
  BY <1>1, <1>2, PTL DEF Spec

(***************************************************************************)
(* Types, and that what could not be classified is listed: neither what a  *)
(* scan leaves half done nor what Close clears outlives the source.        *)
(***************************************************************************)
THEOREM WhatIsUnreachedIsListed == Spec => []TypeOK
<1>1. CardInv => TypeOK
  BY DEF CardInv
<1> QED
  BY <1>1, CardIsInductive, PTL

(***************************************************************************)
(* Whatever fails and whenever, opening sysfs lists every real card whose  *)
(* directory did not vanish under the classification.                      *)
(***************************************************************************)
THEOREM EveryRealCardIsListed == Spec => []NoFaultDropsACard
<1>1. CardInv => NoFaultDropsACard
  BY DEF CardInv
<1> QED
  BY <1>1, CardIsInductive, PTL

(***************************************************************************)
(* A daemon running on sysfs reads its card whenever nothing is wrong with *)
(* that card: it refused to start with a card it could not classify, and   *)
(* no other card's fault reaches it.                                       *)
(***************************************************************************)
THEOREM SightReturnsWithTheCard == Spec => []BlindOnlyWithItsCard
<1>1. CardInv => BlindOnlyWithItsCard
  BY DEF CardInv, RunsOnAReachedCard, BlindOnlyWithItsCard, CanRead
<1> QED
  BY <1>1, CardIsInductive, PTL

-----------------------------------------------------------------------------
(* What the card read has to do with the index. *)

(***************************************************************************)
(* What is listed is a real card or one that could not be classified, and  *)
(* what was read has the index among the listed.                           *)
(***************************************************************************)
IndexInv ==
  /\ looking.card \in Cards => Kind[looking.card] # "bare"
  /\ listed \subseteq Real \cup unreached
  /\ source = "nvml" => listed = Nvidia
  /\ pc \in {"opened", "up"} => source \in {"nvml", "sysfs"}
  /\ reading # NoCard => pc = "up" /\ reading \in At(index)

LEMMA NothingIsNoCard == Nothing.card \notin Cards
BY CardAssumption DEF Nothing, NoCard

(***************************************************************************)
(* A card that is found to have a vendor is a real one.                    *)
(***************************************************************************)
LEMMA OnlyRealAreReached ==
  ASSUME IndexInv, NEW c \in Cards, Lstat(c) \/ Stat(c) \/ StatVendor(c)
  PROVE  listed' \subseteq Real \cup unreached'
<1>1. CASE c \in Real
  BY <1>1, CallsLeadOn DEF IndexInv
<1>2. CASE c \notin Real
  <2>1. Kind[c] \in {"bare", "virtual"}
    BY <1>2 DEF Real
  <2>2. CASE Lstat(c)
    BY <2>2 DEF Lstat, Keep, LeaveOut, GoOn, IndexInv
  <2>3. CASE Stat(c)
    BY <2>3 DEF Stat, Keep, GoOn, IndexInv
  <2>4. CASE StatVendor(c)
    <3>1. Kind[c] = "virtual"
      BY <2>1, <2>4 DEF StatVendor, IndexInv
    <3> QED
      BY <2>4, <3>1 DEF StatVendor, Keep, LeaveOut, IndexInv
  <2> QED
    BY <2>2, <2>3, <2>4
<1> QED
  BY <1>1, <1>2

LEMMA ReadsTheIndexed ==
  ASSUME ReadDevice, reading' # NoCard
  PROVE  reading' \in At(index)
<1>1. Device # {} /\ reading' \in Device
  BY DEF ReadDevice
<1> QED
  BY <1>1 DEF Device

LEMMA NextIndex ==
  ASSUME CardInv, IndexInv, [Next]_vars
  PROVE  IndexInv'
<1> USE DEF machine
<1>0. Nvidia \subseteq Real /\ TypeOK /\ ScanLosesNobody
  BY DEF Nvidia, Real, CardInv
<1>1. ASSUME NEW c \in Breakable, Mend(c) \/ \E f \in Faults : Break(c, f) PROVE IndexInv'
  <2>1. UNCHANGED <<index, pc, looking, source, listed, unreached, reading>>
    BY <1>1 DEF Mend, Break, Change
  <2> QED
    BY <2>1 DEF IndexInv, At, Order
<1>2. CASE SwapDriver
  BY <1>2 DEF SwapDriver, Change, IndexInv, At, Order
<1>3. CASE OpenNVML \/ ReadDir \/ EndScan
  <2>1. UNCHANGED <<looking, unreached, reading>> /\ reading = NoCard
    BY <1>3 DEF OpenNVML, ReadDir, EndScan, IndexInv
  <2>2. CASE OpenNVML
    BY <1>0, <2>1, <2>2 DEF OpenNVML, IndexInv
  <2>3. CASE ReadDir
    BY <2>1, <2>3 DEF ReadDir, IndexInv
  <2>4. CASE EndScan
    <3>1. source = "none" /\ listed' = listed
      BY <1>0, <2>4 DEF EndScan, ScanLosesNobody
    <3>2. source' = "none" \/ source' = "sysfs"
      BY <2>4, <3>1 DEF EndScan
    <3>3. pc' = "opened" => source' = "sysfs"
      BY <2>4 DEF EndScan
    <3>4. pc' # "up"
      BY <2>4 DEF EndScan
    <3> QED
      BY <2>1, <3>1, <3>2, <3>3, <3>4 DEF IndexInv
  <2> QED
    BY <1>3, <2>2, <2>3, <2>4
<1>4. ASSUME NEW c \in Cards, Lstat(c) \/ Stat(c) \/ StatVendor(c) PROVE IndexInv'
  <2>1. UNCHANGED <<index, pc, source, reading>>
    BY <1>4 DEF Lstat, Stat, StatVendor, Scanning
  <2>2. pc = "scanning" /\ source = "none"
    <3>1. CASE Lstat(c)
      BY <1>0, <3>1 DEF Lstat, ScanLosesNobody
    <3>2. CASE Stat(c) \/ StatVendor(c)
      <4>1. looking \in {[card |-> c, call |-> "stat"], [card |-> c, call |-> "vendor"]}
        BY <3>2 DEF Stat, StatVendor
      <4>2. looking.card = c /\ Nothing.card = NoCard /\ c # NoCard
        BY <4>1, CardAssumption DEF Nothing, NoCard
      <4> QED
        BY <1>0, <4>2 DEF ScanLosesNobody
    <3> QED
      BY <1>4, <3>1, <3>2
  <2>3. listed' \subseteq Real \cup unreached'
    BY <1>4, OnlyRealAreReached
  <2>4. looking'.card \in Cards => Kind[looking'.card] # "bare"
    <3>1. CASE Lstat(c)
      <4>1. looking' = Nothing \/ (Kind[c] # "bare" /\ looking'.card = c)
        BY <3>1 DEF Lstat, Keep, LeaveOut, GoOn
      <4> QED
        BY <4>1, NothingIsNoCard
    <3>2. CASE Stat(c)
      <4>1. looking' = Nothing \/ (looking.card = c /\ looking'.card = c)
        <5>1. looking = [card |-> c, call |-> "stat"]
          BY <3>2 DEF Stat
        <5>2. looking' = Nothing \/ looking' = [card |-> c, call |-> "vendor"]
          BY <3>2 DEF Stat, Keep, GoOn
        <5> QED
          BY <5>1, <5>2
      <4> QED
        BY <4>1, NothingIsNoCard DEF IndexInv
    <3>3. CASE StatVendor(c)
      BY <3>3, NothingIsNoCard DEF StatVendor, Keep, LeaveOut
    <3> QED
      BY <1>4, <3>1, <3>2, <3>3
  <2> QED
    BY <2>1, <2>2, <2>3, <2>4 DEF IndexInv
<1>5. CASE Start \/ Read
  <2>1. UNCHANGED <<index, looking>> /\ ReadDevice /\ pc \in {"opened", "up"}
    BY <1>5 DEF Start, Read
  <2>2. CASE pc' = "up" /\ UNCHANGED <<source, listed, unreached>>
    <3>1. reading' # NoCard => reading' \in At(index)
      BY <2>1, ReadsTheIndexed
    <3>2. At(index)' = At(index)
      BY <2>1, <2>2 DEF At, Order
    <3> QED
      BY <2>1, <2>2, <3>1, <3>2 DEF IndexInv
  <2>3. CASE Start /\ Device = {} /\ Close
    <3>1. reading' = NoCard
      BY <2>1, <2>3 DEF ReadDevice
    <3> QED
      BY <2>1, <2>3, <3>1 DEF Close, IndexInv
  <2> QED
    BY <1>5, <2>2, <2>3 DEF Start, Read
<1>6. CASE Stop
  BY <1>6 DEF Stop, Close, IndexInv
<1>7. CASE UNCHANGED vars
  BY <1>7 DEF vars, IndexInv, At, Order
<1> QED
  BY <1>1, <1>2, <1>3, <1>4, <1>5, <1>6, <1>7 DEF Next

LEMMA IndexMeansItsCard ==
  ASSUME CardInv, IndexInv
  PROVE  FaultsDoNotShiftTheIndex
<1> SUFFICES ASSUME reading # NoCard, vanished = {}, unreached \subseteq Real
             PROVE  reading \in (IF source = "nvml" THEN NvidiaAt(index) ELSE RealAt(index))
  BY DEF FaultsDoNotShiftTheIndex
<1>1. reading \in At(index) /\ source \in {"nvml", "sysfs"}
  BY DEF IndexInv
<1>2. CASE source = "nvml"
  BY <1>1, <1>2 DEF IndexInv, At, Order, NvidiaAt
<1>3. CASE source = "sysfs"
  <2>1. listed = Real
    BY <1>3 DEF IndexInv, CardInv, NoFaultDropsACard
  <2> QED
    BY <1>1, <1>3, <2>1 DEF At, Order, RealAt
<1> QED
  BY <1>1, <1>2, <1>3

(***************************************************************************)
(* On every machine, through any faults and restarts, a source gives an    *)
(* index the one card that has it when nothing is wrong with any: the      *)
(* order is that of all real cards, those that cannot be read included.    *)
(***************************************************************************)
THEOREM FaultsLeaveTheIndexAlone == Spec => []FaultsDoNotShiftTheIndex
<1>1. Init => IndexInv
  BY NothingIsNoCard DEF Init, IndexInv, At, Nvidia
<1>2. CardInv /\ IndexInv /\ [Next]_vars => IndexInv'
  BY NextIndex
<1>3. CardInv /\ IndexInv => FaultsDoNotShiftTheIndex
  BY IndexMeansItsCard
<1> QED
  BY <1>1, <1>2, <1>3, CardIsInductive, PTL DEF Spec
=============================================================================
