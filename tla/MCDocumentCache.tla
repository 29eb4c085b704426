--------------------------- MODULE MCDocumentCache ---------------------------
(* Instances of DocumentCache for TLC. *)
EXTENDS DocumentCache, TLC

CallerSymmetry == Permutations(Callers)
=============================================================================
