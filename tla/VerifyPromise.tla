----------------------------- MODULE VerifyPromise -----------------------------
(***************************************************************************)
(* What POST /verify/async promises of a job, whoever runs it: it is       *)
(* accepted once; verifications of it are written to the audit log, at     *)
(* most Runs of them; and it ends at most once, with one of the audited    *)
(* results, as failed, or lost with what Redis lost.                       *)
(***************************************************************************)
EXTENDS Integers

CONSTANTS Jobs,
          Runs    \* how often a job may be verified, at most

VARIABLES outcome,   \* of each job
          audited,   \* the runs whose results are in the audit log
          result     \* the run whose result is the job's; 0 without

vars == <<outcome, audited, result>>

Init ==
  /\ outcome = [j \in Jobs |-> "none"]
  /\ audited = [j \in Jobs |-> {}]
  /\ result = [j \in Jobs |-> 0]

Accept(batch) ==
  /\ \A j \in batch : outcome[j] = "none"
  /\ outcome' = [j \in Jobs |-> IF j \in batch THEN "pending" ELSE outcome[j]]
  /\ UNCHANGED <<audited, result>>

(* A run that goes on after its job has ended, or is lost, still writes,   *)
(* and one that fails may have written.                                    *)
Audit(j, r) ==
  /\ outcome[j] # "none"
  /\ audited' = [audited EXCEPT ![j] = @ \cup {r}]
  /\ \/ UNCHANGED outcome
     \/ outcome[j] = "pending" /\ outcome' = [outcome EXCEPT ![j] = "failed"]
  /\ UNCHANGED result

Complete(j) ==
  /\ outcome[j] = "pending"
  /\ \E r \in audited[j] : result' = [result EXCEPT ![j] = r]
  /\ outcome' = [outcome EXCEPT ![j] = "completed"]
  /\ UNCHANGED audited

GiveUp(j) ==
  /\ outcome[j] = "pending"
  /\ outcome' = [outcome EXCEPT ![j] = "failed"]
  /\ UNCHANGED <<audited, result>>

Lose(batch) ==
  /\ \A j \in batch : outcome[j] # "none"
  /\ outcome' = [j \in Jobs |-> IF j \in batch THEN "lost" ELSE outcome[j]]
  /\ UNCHANGED <<audited, result>>

Next ==
  \/ \E batch \in SUBSET Jobs : Accept(batch) \/ Lose(batch)
  \/ \E j \in Jobs : Complete(j) \/ GiveUp(j) \/ \E r \in 1..Runs : Audit(j, r)

Spec == Init /\ [][Next]_vars
=============================================================================
