--------------------------- MODULE MCLoginSession ---------------------------
(* Instances of LoginSession for TLC. *)
EXTENDS LoginSession, TLC

Symmetry == Permutations(Callers) \cup Permutations(Contexts)
=============================================================================
