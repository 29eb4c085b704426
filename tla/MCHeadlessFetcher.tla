--------------------------- MODULE MCHeadlessFetcher ---------------------------
(* Instances of HeadlessFetcher for TLC. *)
EXTENDS HeadlessFetcher
=============================================================================
