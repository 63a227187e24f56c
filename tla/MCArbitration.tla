----------------------------- MODULE MCArbitration -----------------------------
(***************************************************************************)
(* Three services above one another; the lowest never lets go.             *)
(***************************************************************************)
EXTENDS Arbitration, TLC

MCNameRank == ("hi" :> 1) @@ ("mid" :> 2) @@ ("lo" :> 3)

Svc(priority, canRelease) ==
  [priority |-> priority, canRelease |-> canRelease, stopUnit |-> TRUE, allowStop |-> ~canRelease]

MCConfig == ("hi" :> Svc(3, TRUE)) @@ ("mid" :> Svc(2, FALSE)) @@ ("lo" :> Svc(1, TRUE))

MCPolicy == [floor |-> 1, reactive |-> TRUE, workload |-> "mid", minEffect |-> 1]

Holding(hi, mid, lo) == ("hi" :> hi) @@ ("mid" :> mid) @@ ("lo" :> lo)

MCStart == {Holding(0, 1, 1), Holding(0, 2, 0)}

MCAsks == {<<"hi", 1>>}
=============================================================================
