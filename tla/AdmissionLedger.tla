--------------------------- MODULE AdmissionLedger ---------------------------
(***************************************************************************)
(* What the fetcher's per-account daily cap really promises.               *)
(*                                                                         *)
(* Every acquisition strategy compares the request counter with the cap    *)
(* ONCE, when a call is admitted, and charges the counter later, after     *)
(* one or more awaits.  A call that was admitted may therefore charge up   *)
(* to PerCall requests whatever the other admitted calls did meanwhile.    *)
(* This module states that contract alone: `permits' holds the charges     *)
(* the admitted calls may still make.  AccountPool, VoyagerFetcher and     *)
(* HeadlessFetcher are shown to implement it; that it keeps the counter    *)
(* below its ceiling, for every number of callers, is proved in            *)
(* VoyagerFetcherProofs.                                                   *)
(***************************************************************************)
EXTENDS Integers, FiniteSets

CONSTANTS Callers,   \* the concurrent calls a fetcher process serves
          PerCall,   \* most charges one admitted call may make
          Cap        \* the account's daily_cap

VARIABLES used,      \* the account's daily_used
          permits    \* the charges that may still come: <<caller, i>>

vars == <<used, permits>>

Permit == Callers \X (1 .. PerCall)

PermitsOf(c) == {p \in permits : p[1] = c}

Init ==
  /\ used = 0
  /\ permits = {}

(* A call is admitted below the cap; s charges are made at once and n may *)
(* follow, at most PerCall together.                                       *)
Admit(c) ==
  /\ used < Cap
  /\ PermitsOf(c) = {}
  /\ \E s \in 0 .. 1, n \in 0 .. PerCall :
       /\ s + n <= PerCall
       /\ used' = used + s
       /\ permits' = permits \cup ({c} \X (1 .. n))

(* An admitted call charges s (at most one at a time) and gives up at      *)
(* least as many permits.                                                  *)
Spend ==
  \E s \in 0 .. 1, kept \in SUBSET permits :
    /\ s = 1 => kept # permits
    /\ used' = used + s
    /\ permits' = kept

NewDay ==
  /\ used' = 0
  /\ UNCHANGED permits

Next ==
  \/ \E c \in Callers : Admit(c)
  \/ Spend
  \/ NewDay

Spec == Init /\ [][Next]_vars

-----------------------------------------------------------------------------
TypeOK ==
  /\ used \in Nat
  /\ permits \subseteq Permit

(* The most the counter can reach: the last admission happens below the   *)
(* cap, and at that moment every caller may hold a full set of permits.    *)
Ceiling == IF Cap = 0 THEN 0 ELSE Cap - 1 + Cardinality(Callers) * PerCall

(* The counter together with the charges still to come stays below the    *)
(* ceiling: the guarantee that replaces "hard daily cap" (pool/            *)
(* account_pool.py:80, fetchers/voyager.py:113).                           *)
WithinCeiling == used + Cardinality(permits) <= Ceiling
=============================================================================
