-------------------------------- MODULE MCCard --------------------------------
(***************************************************************************)
(* A machine of five cards, three of them real, and a hybrid one of two.   *)
(***************************************************************************)
EXTENDS Card, TLC

(* card0 is the framebuffer the firmware left and card1 has no device; the NVIDIA *)
(* card comes before the AMD ones, and card10 sorts by name before card2.         *)
MCMixed == (0 :> "virtual") @@ (1 :> "bare") @@ (2 :> "nvidia") @@ (3 :> "amd") @@ (10 :> "amd")

(* The integrated GPU is card0 and the NVIDIA card is card1. *)
MCHybrid == (0 :> "amd") @@ (1 :> "nvidia")

MCBusRank == [c \in Cards |-> c]

MCNameRank == [c \in Cards |-> IF c = 10 THEN 2 ELSE IF c < 2 THEN c ELSE c + 1]

=============================================================================
