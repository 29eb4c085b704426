-------------------------- MODULE MCVoyagerFetcher --------------------------
(* Instances of VoyagerFetcher for TLC. *)
EXTENDS VoyagerFetcher

(* One status of every class, and of every clause of classify_error. *)
OneOfEach == {200, 302, 401, 404, 429, 503, 999}
=============================================================================
