----------------------------- MODULE VerifyQueue -----------------------------
(***************************************************************************)
(* Asynchronous verification: jobs in BullMQ, the slots of the worker that *)
(* run the pipeline for them (verifier/src/queue/verifyWorker.ts), the     *)
(* audit record at the end of each run (pipeline/verify.ts), and the       *)
(* clients that poll (routes/verify.ts).                                   *)
(*                                                                         *)
(* What BullMQ does with its default options is external: one attempt per  *)
(* job; only the holder of its lock can end a job; a lock that is not      *)
(* renewed expires, and an active job that a later check finds without its *)
(* lock has stalled: it goes back to waiting the first time and fails the  *)
(* second.  Redis may evict every key.  The n-th run of a job has the      *)
(* result n.                                                               *)
(***************************************************************************)
EXTENDS Integers, FiniteSets

CONSTANTS Jobs,
          Polled,         \* the jobs whose clients poll
          Slots,          \* concurrency of the worker
          MaxStalls,      \* BullMQ's maxStalledCount
          Nobody, NoJob

ASSUME QueueAssumption ==
  /\ Polled \subseteq Jobs
  /\ Nobody \notin Slots /\ NoJob \notin Jobs
  /\ MaxStalls \in Nat

VARIABLES state,    \* the list or set of BullMQ that has each job
          lost,     \* the jobs whose own key Redis has evicted
          lock,     \* the slot that holds its lock
          stalls,   \* how often it has stalled
          runs,     \* how often it was started
          value,    \* its returnvalue: a run, 0 when there is none
          step, job, run,   \* each slot: its step, its job and which run it is
          records,  \* audit log: the runs of each job that were recorded
          seen,     \* the returnvalue a poll in progress has read
          last      \* the last reply to the client of each job

slots == <<step, job, run>>
polls == <<seen, last>>
vars == <<state, lost, lock, stalls, runs, value, slots, records, polls>>

NotPolling == -1
NoReply == [status |-> "none", result |-> 0]

Init ==
  /\ state = [j \in Jobs |-> "none"]
  /\ lost = {}
  /\ lock = [j \in Jobs |-> Nobody]
  /\ stalls = [j \in Jobs |-> 0]
  /\ runs = [j \in Jobs |-> 0]
  /\ value = [j \in Jobs |-> 0]
  /\ step = [s \in Slots |-> "idle"]
  /\ job = [s \in Slots |-> NoJob]
  /\ run = [s \in Slots |-> 0]
  /\ records = [j \in Jobs |-> {}]
  /\ seen = [j \in Polled |-> NotPolling]
  /\ last = [j \in Polled |-> NoReply]

(* POST /verify/async, and /verify/batch: all jobs in one transaction.     *)
Submit(batch) ==
  /\ batch # {}
  /\ \A j \in batch : state[j] = "none"
  /\ state' = [j \in Jobs |-> IF j \in batch THEN "waiting" ELSE state[j]]
  /\ UNCHANGED <<lost, lock, stalls, runs, value, slots, records, polls>>

-----------------------------------------------------------------------------
(* The worker: async (job) => pipeline(job.data) *)

Take(s, j) ==
  /\ step[s] = "idle"
  /\ state[j] = "waiting" /\ j \notin lost
  /\ state' = [state EXCEPT ![j] = "active"]
  /\ lock' = [lock EXCEPT ![j] = s]
  /\ runs' = [runs EXCEPT ![j] = @ + 1]
  /\ step' = [step EXCEPT ![s] = "verifying"]
  /\ job' = [job EXCEPT ![s] = j]
  /\ run' = [run EXCEPT ![s] = runs[j] + 1]
  /\ UNCHANGED <<lost, stalls, value, records, polls>>

Release(s) ==
  /\ step' = [step EXCEPT ![s] = "idle"]
  /\ job' = [job EXCEPT ![s] = NoJob]
  /\ run' = [run EXCEPT ![s] = 0]

(* The lock is not looked at.                                              *)
HoldsAny(s) == state[job[s]] \in {"waiting", "active", "completed", "failed"}

Holds(s) ==
  state[job[s]] = "active" /\ job[s] \notin lost /\ lock[job[s]] = s

(* The job ends as the slot says if the slot still has its lock, and Redis *)
(* the job; otherwise BullMQ refuses.                                      *)
End(s, outcome, result) ==
  /\ Release(s)
  /\ IF Holds(s)
       THEN /\ state' = [state EXCEPT ![job[s]] = outcome]
            /\ lock' = [lock EXCEPT ![job[s]] = Nobody]
            /\ value' = [value EXCEPT ![job[s]] = result]
       ELSE UNCHANGED <<state, lock, value>>
  /\ UNCHANGED <<lost, stalls, runs, polls>>

(* The pipeline has its result and is about to record it.                  *)
Verified(s) ==
  /\ step[s] = "verifying"
  /\ step' = [step EXCEPT ![s] = "recording"]
  /\ UNCHANGED <<state, lost, lock, stalls, runs, value, job, run, records, polls>>

Recorded(s) == [records EXCEPT ![job[s]] = @ \cup {run[s]}]

Record(s) ==
  /\ step[s] = "recording"
  /\ records' = Recorded(s)
  /\ step' = [step EXCEPT ![s] = "completing"]
  /\ UNCHANGED <<state, lost, lock, stalls, runs, value, job, run, polls>>

(* The fetcher, or MongoDB, has failed: MongoDB perhaps after it wrote.    *)
Throw(s) ==
  /\ step[s] \in {"verifying", "recording"}
  /\ End(s, "failed", 0)
  /\ \/ UNCHANGED records
     \/ step[s] = "recording" /\ records' = Recorded(s)

(* The job is ended without its returnvalue.                               *)
CompleteVoid(s) ==
  /\ step[s] = "completing"
  /\ End(s, "completed", 0)
  /\ UNCHANGED records

Complete(s) ==
  /\ step[s] = "completing"
  /\ End(s, "completed", run[s])
  /\ UNCHANGED records

(* The process stops and is started again: what it ran is forgotten, the   *)
(* locks are not.                                                          *)
Crash ==
  /\ \E s \in Slots : step[s] # "idle"
  /\ step' = [s \in Slots |-> "idle"]
  /\ job' = [s \in Slots |-> NoJob]
  /\ run' = [s \in Slots |-> 0]
  /\ UNCHANGED <<state, lost, lock, stalls, runs, value, records, polls>>

(* The lock of a job was not renewed in time: the holder is gone, its      *)
(* event loop was blocked, or Redis could not be reached; or its key was   *)
(* evicted.  The job is still active, and a holder runs on.                *)
Expire(j) ==
  /\ lock[j] # Nobody
  /\ lock' = [lock EXCEPT ![j] = Nobody]
  /\ UNCHANGED <<state, lost, stalls, runs, value, slots, records, polls>>

(* Nothing becomes of a job that stalls too often.                         *)
StalledOnce(j) ==
  /\ state[j] = "active" /\ j \notin lost /\ lock[j] = Nobody
  /\ stalls[j] < MaxStalls
  /\ state' = [state EXCEPT ![j] = "waiting"]
  /\ stalls' = [stalls EXCEPT ![j] = @ + 1]
  /\ UNCHANGED <<lost, lock, runs, value, slots, records, polls>>

(* The check for stalled jobs finds an active one without its lock.        *)
Stalled(j) ==
  /\ state[j] = "active" /\ j \notin lost /\ lock[j] = Nobody
  /\ IF stalls[j] < MaxStalls
       THEN /\ state' = [state EXCEPT ![j] = "waiting"]
            /\ stalls' = [stalls EXCEPT ![j] = @ + 1]
       ELSE state' = [state EXCEPT ![j] = "failed"] /\ UNCHANGED stalls
  /\ UNCHANGED <<lost, lock, runs, value, slots, records, polls>>

-----------------------------------------------------------------------------
(* Redis with allkeys-lru: a job's own key goes, and its id stays where it *)
(* was; or one of BullMQ's lists and sets of jobs goes.  A lock is of no   *)
(* use to a job without either.                                            *)

Evict(j) ==
  /\ state[j] # "none" /\ j \notin lost
  /\ lost' = lost \cup {j}
  /\ lock' = [lock EXCEPT ![j] = Nobody]
  /\ UNCHANGED <<state, stalls, runs, value, slots, records, polls>>

Lists == {"waiting", "active", "completed", "failed"}

JobsOf(list) == {j \in Jobs : state[j] = list}

EvictList(list) ==
  /\ JobsOf(list) # {}
  /\ state' = [j \in Jobs |-> IF j \in JobsOf(list) THEN "unknown" ELSE state[j]]
  /\ lock' = [j \in Jobs |-> IF j \in JobsOf(list) THEN Nobody ELSE lock[j]]
  /\ UNCHANGED <<lost, stalls, runs, value, slots, records, polls>>

-----------------------------------------------------------------------------
(* GET /verify/job/:jobId: the job is read, and then its state. *)

Unfinished(j) == state[j] \in {"waiting", "active"}

(* BullMQ may have written fields of a lost job again, that has no data:   *)
(* it is found when it is not at its end.                                  *)
PollGet(j) ==
  /\ state[j] # "none"
  /\ seen[j] = NotPolling
  /\ \/ /\ j \in lost
        /\ last' = [last EXCEPT ![j] = [status |-> "not_found", result |-> 0]]
        /\ UNCHANGED seen
     \/ /\ j \notin lost \/ Unfinished(j)
        /\ seen' = [seen EXCEPT ![j] = value[j]]
        /\ UNCHANGED last
  /\ UNCHANGED <<state, lost, lock, stalls, runs, value, slots, records>>

(* The state is that of the lists and sets, also for a lost job: one that  *)
(* was not at its end is handed out, found stalled, or fails for want of   *)
(* its data.                                                               *)
Told(j) ==
  IF j \in lost /\ Unfinished(j) THEN {"waiting", "active", "failed"} ELSE {state[j]}

(* The result is the one of the first read.                                *)
Reply(j, st) ==
  [status |-> st, result |-> IF st = "completed" THEN seen[j] ELSE 0]

PollState(j) ==
  /\ seen[j] # NotPolling
  /\ \E st \in Told(j) : last' = [last EXCEPT ![j] = Reply(j, st)]
  /\ seen' = [seen EXCEPT ![j] = NotPolling]
  /\ UNCHANGED <<state, lost, lock, stalls, runs, value, slots, records>>

-----------------------------------------------------------------------------
Proceed(s) == Verified(s) \/ Record(s) \/ Complete(s)

Next ==
  \/ \E batch \in SUBSET Jobs : Submit(batch)
  \/ \E s \in Slots :
       \/ \E j \in Jobs : Take(s, j)
       \/ Proceed(s)
       \/ Throw(s)
  \/ Crash
  \/ \E j \in Jobs : Expire(j) \/ Stalled(j) \/ Evict(j)
  \/ \E j \in Polled : PollGet(j) \/ PollState(j)
  \/ \E list \in Lists : EvictList(list)

(* A job that nobody runs.                                                 *)
Orphan(j) == \A s \in Slots : job[s] # j

(* Waiting jobs are taken, pipelines end, the lock of a job that nobody    *)
(* runs expires, and the check finds the stalled ones.  Nobody has to poll *)
(* and no lock that is renewed has to expire.                              *)
Fairness ==
  /\ \A j \in Jobs : WF_vars(\E s \in Slots : Take(s, j))
  /\ \A j \in Jobs : WF_vars(Orphan(j) /\ Expire(j)) /\ WF_vars(Stalled(j))
  /\ \A s \in Slots : WF_vars(Proceed(s))

Spec == Init /\ [][Next]_vars /\ Fairness

-----------------------------------------------------------------------------
States == Lists \cup {"none", "unknown"}

TypeOK ==
  /\ state \in [Jobs -> States]
  /\ lost \subseteq Jobs
  /\ lock \in [Jobs -> Slots \cup {Nobody}]
  /\ stalls \in [Jobs -> 0..MaxStalls]
  /\ runs \in [Jobs -> Nat]
  /\ value \in [Jobs -> Nat]
  /\ step \in [Slots -> {"idle", "verifying", "recording", "completing"}]
  /\ job \in [Slots -> Jobs \cup {NoJob}]
  /\ run \in [Slots -> Nat]
  /\ records \in [Jobs -> SUBSET Nat]
  /\ seen \in [Polled -> Nat \cup {NotPolling}]
  /\ last \in [Polled -> [status : States \cup {"not_found"}, result : Nat]]

(* A job may be verified by two slots at once, one of which no longer has  *)
(* its lock, but never by more than it may stall, and each run leaves at   *)
(* most one audit record (verifyWorker.ts:17, pipeline/verify.ts:138).     *)
RecordsBounded == \A j \in Jobs : Cardinality(records[j]) <= MaxStalls + 1

(* What a client is told is in the audit log, as it was told: not the      *)
(* record of the run that lost the job (pipeline/verify.ts:137-140).       *)
ReportedIsAudited ==
  \A j \in Polled : last[j].result # 0 => last[j].result \in records[j]

(* A poll may say completed and have no result, because the job is read    *)
(* before its state (routes/verify.ts:59-66); the next one has it, and     *)
(* later ones the same, as long as Redis keeps the set of completed jobs.  *)
NextPollHasResult ==
  [][\A j \in Polled :
       PollState(j) /\ last[j].status = "completed" =>
         \/ last'[j].status = "unknown"
         \/ /\ last'[j].status = "completed" /\ last'[j].result # 0
            /\ last[j].result \in {0, last'[j].result}]_vars

(* Every job ends or is lost with its keys, however often the process      *)
(* crashes (verifyWorker.ts:17-21).                                        *)
JobsEnd ==
  \A j \in Jobs :
    state[j] = "waiting" ~> state[j] \in {"completed", "failed", "unknown"} \/ j \in lost

(* The queue keeps the promise of POST /verify/async with MaxStalls + 1    *)
(* runs (routes/verify.ts:40-73).                                          *)
Outcome(st) ==
  CASE st = "none" -> "none"
    [] st \in {"waiting", "active"} -> "pending"
    [] st \in {"completed", "failed"} -> st
    [] OTHER -> "lost"

Promise == INSTANCE VerifyPromise WITH
  Runs <- MaxStalls + 1,
  outcome <- [j \in Jobs |-> IF j \in lost THEN "lost" ELSE Outcome(state[j])],
  audited <- records,
  result <- value

PromiseKept == Promise!Spec
=============================================================================
