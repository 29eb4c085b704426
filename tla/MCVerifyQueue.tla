--------------------------- MODULE MCVerifyQueue ---------------------------
(* Instances of VerifyQueue for TLC. *)
EXTENDS VerifyQueue, TLC
=============================================================================
