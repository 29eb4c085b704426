--------------------------- MODULE MCAccountPool ---------------------------
(* Instances of AccountPool for TLC. *)
EXTENDS AccountPool, TLC

UnequalCaps == <<2, 1>>
OneCap == <<2>>

CallerSymmetry == Permutations(Callers)
=============================================================================
