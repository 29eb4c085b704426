--------------------------- MODULE VerifyQueueProofs ---------------------------
(* Safety of VerifyQueue, and that it keeps VerifyPromise, for any number  *)
(* of jobs, pollers and slots and any number of stalls.                    *)
EXTENDS VerifyQueue, FiniteSetTheorems, TLAPS

(* A job is started once more for each time it has stalled.                *)
StallInv ==
  \A j \in Jobs :
    /\ runs[j] <= stalls[j] + 1
    /\ state[j] = "waiting" => runs[j] <= stalls[j]
    /\ state[j] = "none" => runs[j] = 0 /\ j \notin lost

(* A slot that works does one of the runs of a job that was accepted, and  *)
(* has recorded it when it is about to end the job.                        *)
SlotInv ==
  \A s \in Slots :
    /\ step[s] = "idle" <=> job[s] = NoJob
    /\ job[s] \in Jobs => run[s] \in 1..runs[job[s]] /\ state[job[s]] # "none"
    /\ step[s] = "completing" => run[s] \in records[job[s]]

(* A job's result is a recorded run and comes with its completion.         *)
ValueInv ==
  \A j \in Jobs :
    /\ records[j] \subseteq 1..runs[j]
    /\ value[j] # 0 => value[j] \in records[j] /\ state[j] \in {"completed", "unknown"}
    /\ state[j] = "completed" => value[j] # 0

(* What a poll has read is not taken back, and one that follows a reply    *)
(* "completed" has read a result.                                          *)
PollInv ==
  \A j \in Polled :
    /\ seen[j] \notin {NotPolling, 0} => seen[j] = value[j]
    /\ last[j].result # 0 => last[j].result = value[j]
    /\ last[j].status = "completed" => seen[j] # 0 /\ value[j] # 0

IInv == TypeOK /\ StallInv /\ SlotInv /\ ValueInv /\ PollInv

(* The invariant holds at the start.                                       *)
LEMMA InitIInv == Init => IInv
  <1> SUFFICES ASSUME Init PROVE IInv
    OBVIOUS
  <1> USE QueueAssumption
  <1>1. TypeOK
    BY DEF Init, TypeOK, States, Lists, NoReply, NotPolling
  <1>2. StallInv /\ SlotInv
    BY DEF Init, StallInv, SlotInv
  <1>3. ValueInv /\ PollInv
    BY DEF Init, ValueInv, PollInv, NoReply, NotPolling
  <1> QED
    BY <1>1, <1>2, <1>3 DEF IInv

(* Every step keeps the types,                                             *)
LEMMA StepType == IInv /\ [Next]_vars => TypeOK'
  <1> SUFFICES ASSUME IInv, [Next]_vars
               PROVE  TypeOK'
    OBVIOUS
  <1> USE QueueAssumption
      DEF IInv, TypeOK, States, Lists, NotPolling, slots, polls
  <1>1. ASSUME NEW batch \in SUBSET Jobs, Submit(batch) PROVE TypeOK'
    BY <1>1 DEF Submit
  <1>2. ASSUME NEW s \in Slots, NEW j \in Jobs, Take(s, j) PROVE TypeOK'
    BY <1>2 DEF Take
  <1>3. ASSUME NEW s \in Slots, Verified(s) PROVE TypeOK'
    BY <1>3 DEF Verified
  <1>4. ASSUME NEW s \in Slots, Record(s) PROVE TypeOK'
    BY <1>4 DEF Record, Recorded
  <1>5. ASSUME NEW s \in Slots, Complete(s) PROVE TypeOK'
    <2>1. CASE Holds(s)
      BY <1>5, <2>1 DEF Complete, End, Release, Holds
    <2>2. CASE ~Holds(s)
      BY <1>5, <2>2 DEF Complete, End, Release
    <2> QED
      BY <2>1, <2>2
  <1>6. ASSUME NEW s \in Slots, Throw(s) PROVE TypeOK'
    BY <1>6 DEF Throw, End, Release, Holds, Recorded
  <1>7. CASE Crash
    BY <1>7 DEF Crash
  <1>8. ASSUME NEW j \in Jobs, Stalled(j) PROVE TypeOK'
    BY <1>8 DEF Stalled
  <1>9. ASSUME NEW j \in Jobs, Evict(j) PROVE TypeOK'
    BY <1>9 DEF Evict
  <1>10. ASSUME NEW j \in Polled, PollGet(j) PROVE TypeOK'
    <2>1. j \in Jobs /\ value[j] \in Nat
      OBVIOUS
    <2>2. seen' \in [Polled -> Nat \cup {NotPolling}]
      BY <1>10, <2>1 DEF PollGet
    <2>3. last' \in [Polled -> [status : States \cup {"not_found"}, result : Nat]]
      BY <1>10 DEF PollGet, Unfinished
    <2> QED
      BY <1>10, <2>2, <2>3 DEF PollGet
  <1>11. ASSUME NEW j \in Polled, PollState(j) PROVE TypeOK'
    BY <1>11 DEF PollState, Told, Unfinished, Reply
  <1>12. ASSUME NEW list \in Lists, EvictList(list) PROVE TypeOK'
    BY <1>12 DEF EvictList, JobsOf, Lists
  <1>13. ASSUME NEW j \in Jobs, Expire(j) PROVE TypeOK'
    BY <1>13 DEF Expire
  <1>14. CASE UNCHANGED vars
    BY <1>14 DEF vars, slots, polls
  <1> QED
    BY <1>1, <1>2, <1>3, <1>4, <1>5, <1>6, <1>7, <1>8, <1>9, <1>10, <1>11, <1>12, <1>13,
       <1>14 DEF Next, Proceed

(* runs against stalls,                                                    *)
LEMMA StepStall == IInv /\ [Next]_vars => StallInv'
  <1> SUFFICES ASSUME IInv, [Next]_vars
               PROVE  StallInv'
    OBVIOUS
  <1> USE QueueAssumption
      DEF IInv, TypeOK, StallInv, slots, polls
  <1>1. ASSUME NEW batch \in SUBSET Jobs, Submit(batch) PROVE StallInv'
    BY <1>1 DEF Submit
  <1>2. ASSUME NEW s \in Slots, NEW j \in Jobs, Take(s, j) PROVE StallInv'
    BY <1>2 DEF Take
  <1>3. ASSUME NEW s \in Slots, Verified(s) PROVE StallInv'
    BY <1>3 DEF Verified
  <1>4. ASSUME NEW s \in Slots, Record(s) PROVE StallInv'
    BY <1>4 DEF Record, Recorded
  <1>5. ASSUME NEW s \in Slots, Complete(s) PROVE StallInv'
    BY <1>5 DEF Complete, End, Release, Holds
  <1>6. ASSUME NEW s \in Slots, Throw(s) PROVE StallInv'
    BY <1>6 DEF Throw, End, Release, Holds, Recorded
  <1>7. CASE Crash
    BY <1>7 DEF Crash
  <1>8. ASSUME NEW j \in Jobs, Stalled(j) PROVE StallInv'
    BY <1>8 DEF Stalled
  <1>9. ASSUME NEW j \in Jobs, Evict(j) PROVE StallInv'
    BY <1>9 DEF Evict
  <1>10. ASSUME NEW j \in Polled, PollGet(j) PROVE StallInv'
    BY <1>10 DEF PollGet, Unfinished
  <1>11. ASSUME NEW j \in Polled, PollState(j) PROVE StallInv'
    BY <1>11 DEF PollState, Told, Unfinished, Reply
  <1>12. ASSUME NEW list \in Lists, EvictList(list) PROVE StallInv'
    BY <1>12 DEF EvictList, JobsOf, Lists
  <1>13. ASSUME NEW j \in Jobs, Expire(j) PROVE StallInv'
    BY <1>13 DEF Expire
  <1>14. CASE UNCHANGED vars
    BY <1>14 DEF vars, slots, polls
  <1> QED
    BY <1>1, <1>2, <1>3, <1>4, <1>5, <1>6, <1>7, <1>8, <1>9, <1>10, <1>11, <1>12, <1>13,
       <1>14 DEF Next, Proceed

(* what a slot is running,                                                 *)
LEMMA StepSlot == IInv /\ [Next]_vars => SlotInv'
  <1> SUFFICES ASSUME IInv, [Next]_vars
               PROVE  SlotInv'
    OBVIOUS
  <1> USE QueueAssumption
      DEF IInv, TypeOK, StallInv, SlotInv, slots, polls
  <1>1. ASSUME NEW batch \in SUBSET Jobs, Submit(batch) PROVE SlotInv'
    BY <1>1 DEF Submit
  <1>2. ASSUME NEW s \in Slots, NEW j \in Jobs, Take(s, j) PROVE SlotInv'
    BY <1>2 DEF Take
  <1>3. ASSUME NEW s \in Slots, Verified(s) PROVE SlotInv'
    BY <1>3 DEF Verified
  <1>4. ASSUME NEW s \in Slots, Record(s) PROVE SlotInv'
    BY <1>4 DEF Record, Recorded
  <1>5. ASSUME NEW s \in Slots, Complete(s) PROVE SlotInv'
    BY <1>5 DEF Complete, End, Release, Holds
  <1>6. ASSUME NEW s \in Slots, Throw(s) PROVE SlotInv'
    BY <1>6 DEF Throw, End, Release, Holds, Recorded
  <1>7. CASE Crash
    BY <1>7 DEF Crash
  <1>8. ASSUME NEW j \in Jobs, Stalled(j) PROVE SlotInv'
    BY <1>8 DEF Stalled
  <1>9. ASSUME NEW j \in Jobs, Evict(j) PROVE SlotInv'
    BY <1>9 DEF Evict
  <1>10. ASSUME NEW j \in Polled, PollGet(j) PROVE SlotInv'
    BY <1>10 DEF PollGet, Unfinished
  <1>11. ASSUME NEW j \in Polled, PollState(j) PROVE SlotInv'
    BY <1>11 DEF PollState, Told, Unfinished, Reply
  <1>12. ASSUME NEW list \in Lists, EvictList(list) PROVE SlotInv'
    BY <1>12 DEF EvictList, JobsOf, Lists
  <1>13. ASSUME NEW j \in Jobs, Expire(j) PROVE SlotInv'
    BY <1>13 DEF Expire
  <1>14. CASE UNCHANGED vars
    BY <1>14 DEF vars, slots, polls
  <1> QED
    BY <1>1, <1>2, <1>3, <1>4, <1>5, <1>6, <1>7, <1>8, <1>9, <1>10, <1>11, <1>12, <1>13,
       <1>14 DEF Next, Proceed

(* where a result comes from,                                              *)
LEMMA StepValue == IInv /\ [Next]_vars => ValueInv'
  <1> SUFFICES ASSUME IInv, [Next]_vars
               PROVE  ValueInv'
    OBVIOUS
  <1> USE QueueAssumption
      DEF IInv, TypeOK, StallInv, SlotInv, ValueInv, slots, polls
  <1>1. ASSUME NEW batch \in SUBSET Jobs, Submit(batch) PROVE ValueInv'
    BY <1>1 DEF Submit
  <1>2. ASSUME NEW s \in Slots, NEW j \in Jobs, Take(s, j) PROVE ValueInv'
    BY <1>2 DEF Take
  <1>3. ASSUME NEW s \in Slots, Verified(s) PROVE ValueInv'
    BY <1>3 DEF Verified
  <1>4. ASSUME NEW s \in Slots, Record(s) PROVE ValueInv'
    BY <1>4 DEF Record, Recorded
  <1>5. ASSUME NEW s \in Slots, Complete(s) PROVE ValueInv'
    BY <1>5 DEF Complete, End, Release, Holds
  <1>6. ASSUME NEW s \in Slots, Throw(s) PROVE ValueInv'
    BY <1>6 DEF Throw, End, Release, Holds, Recorded
  <1>7. CASE Crash
    BY <1>7 DEF Crash
  <1>8. ASSUME NEW j \in Jobs, Stalled(j) PROVE ValueInv'
    BY <1>8 DEF Stalled
  <1>9. ASSUME NEW j \in Jobs, Evict(j) PROVE ValueInv'
    BY <1>9 DEF Evict
  <1>10. ASSUME NEW j \in Polled, PollGet(j) PROVE ValueInv'
    BY <1>10 DEF PollGet, Unfinished
  <1>11. ASSUME NEW j \in Polled, PollState(j) PROVE ValueInv'
    BY <1>11 DEF PollState, Told, Unfinished, Reply
  <1>12. ASSUME NEW list \in Lists, EvictList(list) PROVE ValueInv'
    BY <1>12 DEF EvictList, JobsOf, Lists
  <1>13. ASSUME NEW j \in Jobs, Expire(j) PROVE ValueInv'
    BY <1>13 DEF Expire
  <1>14. CASE UNCHANGED vars
    BY <1>14 DEF vars, slots, polls
  <1> QED
    BY <1>1, <1>2, <1>3, <1>4, <1>5, <1>6, <1>7, <1>8, <1>9, <1>10, <1>11, <1>12, <1>13,
       <1>14 DEF Next, Proceed

(* and what a poll has read.                                               *)
LEMMA StepPoll == IInv /\ [Next]_vars => PollInv'
  <1> SUFFICES ASSUME IInv, [Next]_vars
               PROVE  PollInv'
    OBVIOUS
  <1> USE QueueAssumption
      DEF IInv, TypeOK, ValueInv, PollInv, NotPolling, slots, polls
  <1>1. ASSUME NEW batch \in SUBSET Jobs, Submit(batch) PROVE PollInv'
    BY <1>1 DEF Submit
  <1>2. ASSUME NEW s \in Slots, NEW j \in Jobs, Take(s, j) PROVE PollInv'
    BY <1>2 DEF Take
  <1>3. ASSUME NEW s \in Slots, Verified(s) PROVE PollInv'
    BY <1>3 DEF Verified
  <1>4. ASSUME NEW s \in Slots, Record(s) PROVE PollInv'
    BY <1>4 DEF Record, Recorded
  <1>5. ASSUME NEW s \in Slots, Complete(s) PROVE PollInv'
    BY <1>5 DEF Complete, End, Release, Holds
  <1>6. ASSUME NEW s \in Slots, Throw(s) PROVE PollInv'
    BY <1>6 DEF Throw, End, Release, Holds, Recorded
  <1>7. CASE Crash
    BY <1>7 DEF Crash
  <1>8. ASSUME NEW j \in Jobs, Stalled(j) PROVE PollInv'
    BY <1>8 DEF Stalled
  <1>9. ASSUME NEW j \in Jobs, Evict(j) PROVE PollInv'
    BY <1>9 DEF Evict
  <1>10. ASSUME NEW j \in Polled, PollGet(j) PROVE PollInv'
    BY <1>10 DEF PollGet, Unfinished
  <1>11. ASSUME NEW j \in Polled, PollState(j) PROVE PollInv'
    BY <1>11 DEF PollState, Told, Unfinished, Reply
  <1>12. ASSUME NEW list \in Lists, EvictList(list) PROVE PollInv'
    BY <1>12 DEF EvictList, JobsOf, Lists
  <1>13. ASSUME NEW j \in Jobs, Expire(j) PROVE PollInv'
    BY <1>13 DEF Expire
  <1>14. CASE UNCHANGED vars
    BY <1>14 DEF vars, slots, polls
  <1> QED
    BY <1>1, <1>2, <1>3, <1>4, <1>5, <1>6, <1>7, <1>8, <1>9, <1>10, <1>11, <1>12, <1>13,
       <1>14 DEF Next, Proceed

(* So every step keeps the invariant.                                      *)
LEMMA StepIInv == IInv /\ [Next]_vars => IInv'
  BY StepType, StepStall, StepSlot, StepValue, StepPoll DEF IInv

(* The types of jobs, slots and polls (verify.ts:50-72).                   *)
THEOREM QueueTypeOK == Spec => []TypeOK
  <1>1. IInv => TypeOK
    BY DEF IInv
  <1> QED
    BY InitIInv, StepIInv, <1>1, PTL DEF Spec

(* A run and its audit record come at most once more than a job may stall  *)
(* (verifyWorker.ts:17, pipeline/verify.ts:138).                           *)
THEOREM QueueRecordsBounded == Spec => []RecordsBounded
  <1>1. IInv => RecordsBounded
    <2> SUFFICES ASSUME IInv, NEW j \in Jobs
                 PROVE  Cardinality(records[j]) <= MaxStalls + 1
      BY DEF RecordsBounded
    <2>1. records[j] \subseteq 1..(MaxStalls + 1)
      BY QueueAssumption DEF IInv, TypeOK, StallInv, ValueInv
    <2>2. /\ IsFiniteSet(1..(MaxStalls + 1))
          /\ Cardinality(1..(MaxStalls + 1)) = MaxStalls + 1
      BY FS_Interval, QueueAssumption
    <2> QED
      BY <2>1, <2>2, FS_Subset
  <1> QED
    BY InitIInv, StepIInv, <1>1, PTL DEF Spec

(* A client is told only what the audit log has, whichever slot lost the   *)
(* job before or after it wrote (pipeline/verify.ts:137-140).              *)
THEOREM QueueReportedIsAudited == Spec => []ReportedIsAudited
  <1>1. IInv => ReportedIsAudited
    BY QueueAssumption DEF IInv, TypeOK, ValueInv, PollInv, ReportedIsAudited
  <1> QED
    BY InitIInv, StepIInv, <1>1, PTL DEF Spec

(* The poll after a "completed" has the result (routes/verify.ts:59-66).   *)
THEOREM QueueNextPollHasResult == Spec => NextPollHasResult
  <1> DEFINE HasResult ==
        \A j \in Polled :
          PollState(j) /\ last[j].status = "completed" =>
            \/ last'[j].status = "unknown"
            \/ /\ last'[j].status = "completed" /\ last'[j].result # 0
               /\ last[j].result \in {0, last'[j].result}
  <1>1. IInv => [HasResult]_vars
    <2> SUFFICES ASSUME IInv, NEW j \in Polled, PollState(j), last[j].status = "completed"
                 PROVE  \/ last'[j].status = "unknown"
                        \/ /\ last'[j].status = "completed" /\ last'[j].result # 0
                           /\ last[j].result \in {0, last'[j].result}
      OBVIOUS
    <2>1. PICK st \in Told(j) : last'[j] = Reply(j, st)
      BY DEF PollState, IInv, TypeOK
    <2>2. /\ state[j] \in {"completed", "unknown"} /\ seen[j] # 0
          /\ seen[j] = value[j] /\ last[j].result \in {0, value[j]}
      BY QueueAssumption DEF PollState, IInv, TypeOK, PollInv, ValueInv
    <2>3. st = state[j]
      BY <2>1, <2>2 DEF Told, Unfinished
    <2> QED
      BY <2>1, <2>2, <2>3 DEF Reply
  <1> QED
    BY InitIInv, StepIInv, <1>1, PTL DEF Spec, NextPollHasResult

-----------------------------------------------------------------------------
(* VerifyQueue implements VerifyPromise. *)

(* The start is that of the promise.                                       *)
LEMMA InitMaps == Init => Promise!Init
  BY QueueAssumption DEF Init, Promise!Init, Outcome

(* A change of one job's state is a change of its outcome and no other's.  *)
LEMMA OutcomeOf ==
  ASSUME TypeOK, NEW j \in Jobs, NEW st \in States,
         j \notin lost, state' = [state EXCEPT ![j] = st], UNCHANGED lost
  PROVE  [k \in Jobs |-> IF k \in lost THEN "lost" ELSE Outcome(state[k])]' =
           [[k \in Jobs |-> IF k \in lost THEN "lost" ELSE Outcome(state[k])]
              EXCEPT ![j] = Outcome(st)]
  BY DEF TypeOK

(* Every step is one of the promise or a stutter.                          *)
LEMMA StepMaps == IInv /\ [Next]_vars => [Promise!Next]_Promise!vars
  <1> SUFFICES ASSUME IInv, [Next]_vars
               PROVE  [Promise!Next]_Promise!vars
    OBVIOUS
  <1> USE QueueAssumption
  <1> DEFINE outcomes == [j \in Jobs |-> IF j \in lost THEN "lost" ELSE Outcome(state[j])]
  <1>0. TypeOK
    BY DEF IInv
  <1>1. ASSUME UNCHANGED <<state, lost, records, value>> PROVE UNCHANGED Promise!vars
    BY <1>1 DEF Promise!vars
  <1>2. ASSUME NEW batch \in SUBSET Jobs, Submit(batch) PROVE Promise!Accept(batch)
    <2>1. \A j \in batch : state[j] = "none" /\ j \notin lost
      BY <1>2 DEF Submit, IInv, StallInv
    <2>2. outcomes' = [j \in Jobs |-> IF j \in batch THEN "pending" ELSE outcomes[j]]
      BY <1>2, <2>1 DEF Submit, Outcome
    <2>3. UNCHANGED <<records, value>> /\ \A j \in batch : outcomes[j] = "none"
      BY <1>2, <2>1 DEF Submit, Outcome
    <2> QED
      BY <2>1, <2>2, <2>3 DEF Promise!Accept
  <1>3. ASSUME NEW s \in Slots, NEW j \in Jobs, Take(s, j) PROVE UNCHANGED Promise!vars
    <2>1. outcomes' = outcomes
      BY <1>0, <1>3, OutcomeOf DEF Take, TypeOK, States, Outcome
    <2> QED
      BY <1>3, <2>1 DEF Take, Promise!vars
  <1>4. ASSUME NEW s \in Slots, Record(s) PROVE \E j \in Jobs, r \in 1..(MaxStalls + 1) : Promise!Audit(j, r)
    <2>1. job[s] \in Jobs /\ run[s] \in 1..(MaxStalls + 1) /\ state[job[s]] # "none"
      BY <1>0, <1>4 DEF Record, IInv, TypeOK, SlotInv, StallInv
    <2>2. outcomes[job[s]] # "none"
      BY <1>0, <2>1 DEF Outcome, TypeOK, States
    <2>3. UNCHANGED outcomes
      BY <1>4 DEF Record
    <2> QED
      BY <1>4, <2>1, <2>2, <2>3 DEF Record, Recorded, Promise!Audit
  <1>5. ASSUME NEW s \in Slots, Complete(s)
        PROVE  (\E j \in Jobs : Promise!Complete(j)) \/ UNCHANGED Promise!vars
    <2>1. CASE Holds(s)
      <3>1. job[s] \in Jobs /\ run[s] \in records[job[s]] /\ state[job[s]] = "active"
            /\ job[s] \notin lost
        BY <1>0, <1>5, <2>1 DEF Complete, Holds, IInv, TypeOK, SlotInv
      <3>2. /\ state' = [state EXCEPT ![job[s]] = "completed"]
            /\ value' = [value EXCEPT ![job[s]] = run[s]] /\ UNCHANGED <<lost, records>>
        BY <1>5, <2>1 DEF Complete, End
      <3>3. outcomes' = [outcomes EXCEPT ![job[s]] = "completed"]
        BY <1>0, <3>1, <3>2, OutcomeOf DEF Outcome, States, Lists
      <3>4. outcomes[job[s]] = "pending"
        BY <3>1 DEF Outcome
      <3> QED
        BY <3>1, <3>2, <3>3, <3>4 DEF Promise!Complete
    <2>2. CASE ~Holds(s)
      BY <1>1, <1>5, <2>2 DEF Complete, End
    <2> QED
      BY <2>1, <2>2
  <1>6. ASSUME NEW s \in Slots, Throw(s)
        PROVE  \/ \E j \in Jobs, r \in 1..(MaxStalls + 1) : Promise!Audit(j, r)
               \/ \E j \in Jobs : Promise!GiveUp(j)
               \/ UNCHANGED Promise!vars
    <2>1. job[s] \in Jobs /\ run[s] \in 1..(MaxStalls + 1) /\ state[job[s]] # "none"
      BY <1>0, <1>6 DEF Throw, IInv, TypeOK, SlotInv, StallInv
    <2>2. outcomes[job[s]] # "none"
      BY <1>0, <2>1 DEF Outcome, TypeOK, States
    <2>3. CASE Holds(s)
      <3>1. /\ state' = [state EXCEPT ![job[s]] = "failed"]
            /\ value' = [value EXCEPT ![job[s]] = 0] /\ UNCHANGED lost
        BY <1>6, <2>3 DEF Throw, End
      <3>2. outcomes' = [outcomes EXCEPT ![job[s]] = "failed"] /\ outcomes[job[s]] = "pending"
        BY <1>0, <2>1, <2>3, <3>1, OutcomeOf DEF Outcome, States, Lists, Holds
      <3>3. value' = value
        BY <1>0, <2>1, <2>3, <3>1 DEF Holds, IInv, ValueInv, TypeOK
      <3>4. CASE UNCHANGED records
        BY <2>1, <3>2, <3>3, <3>4 DEF Promise!GiveUp
      <3>5. CASE records' = Recorded(s)
        BY <2>1, <2>2, <3>2, <3>3, <3>5 DEF Recorded, Promise!Audit
      <3> QED
        BY <1>6, <3>4, <3>5 DEF Throw
    <2>4. CASE ~Holds(s)
      <3>1. UNCHANGED <<state, lost, value>>
        BY <1>6, <2>4 DEF Throw, End
      <3>2. UNCHANGED outcomes
        BY <3>1
      <3>3. CASE UNCHANGED records
        BY <1>1, <3>1, <3>3
      <3>4. CASE records' = Recorded(s)
        BY <2>1, <2>2, <3>1, <3>2, <3>4 DEF Recorded, Promise!Audit
      <3> QED
        BY <1>6, <3>3, <3>4 DEF Throw
    <2> QED
      BY <2>3, <2>4
  <1>7. ASSUME NEW j \in Jobs, Stalled(j) PROVE Promise!GiveUp(j) \/ UNCHANGED Promise!vars
    <2>1. outcomes[j] = "pending" /\ j \notin lost /\ UNCHANGED <<lost, records, value>>
      BY <1>7 DEF Stalled, Outcome
    <2>2. CASE state' = [state EXCEPT ![j] = "waiting"]
      <3>1. outcomes' = [outcomes EXCEPT ![j] = "pending"]
        BY <1>0, <2>1, <2>2, OutcomeOf DEF Outcome, States, Lists
      <3>2. UNCHANGED outcomes
        BY <2>1, <3>1
      <3> QED
        BY <2>1, <3>2 DEF Promise!vars
    <2>3. CASE state' = [state EXCEPT ![j] = "failed"]
      <3>1. outcomes' = [outcomes EXCEPT ![j] = "failed"]
        BY <1>0, <2>1, <2>3, OutcomeOf DEF Outcome, States, Lists
      <3> QED
        BY <2>1, <3>1 DEF Promise!GiveUp
    <2> QED
      BY <1>7, <2>2, <2>3 DEF Stalled
  <1>8. ASSUME NEW j \in Jobs, Evict(j) PROVE Promise!Lose({j})
    <2>1. outcomes[j] # "none"
      BY <1>0, <1>8 DEF Evict, Outcome, TypeOK, States
    <2>2. outcomes' = [k \in Jobs |-> IF k \in {j} THEN "lost" ELSE outcomes[k]]
      BY <1>0, <1>8 DEF Evict, Outcome, TypeOK
    <2> QED
      BY <1>8, <2>1, <2>2 DEF Evict, Promise!Lose
  <1>9. ASSUME NEW list \in Lists, EvictList(list)
        PROVE  \E batch \in SUBSET Jobs : Promise!Lose(batch)
    <2>1. PICK batch \in SUBSET Jobs : batch = JobsOf(list)
      BY DEF JobsOf
    <2>2. \A j \in batch : outcomes[j] # "none"
      BY <2>1 DEF JobsOf, Lists, Outcome
    <2>3. outcomes' = [j \in Jobs |-> IF j \in batch THEN "lost" ELSE outcomes[j]]
      BY <1>9, <2>1 DEF EvictList, JobsOf, Outcome
    <2>4. Promise!Lose(batch)
      BY <1>9, <2>2, <2>3 DEF EvictList, Promise!Lose
    <2> QED
      BY <2>4
  <1>10. CASE \/ \E s \in Slots : Verified(s)
              \/ \E j \in Jobs : Expire(j)
              \/ Crash
              \/ \E j \in Polled : PollGet(j) \/ PollState(j)
              \/ UNCHANGED vars
    BY <1>1, <1>10 DEF Verified, Expire, Crash, PollGet, PollState, vars
  <1> QED
    BY <1>2, <1>3, <1>4, <1>5, <1>6, <1>7, <1>8, <1>9, <1>10
       DEF Next, Proceed, Promise!Next

(* The queue with its worker keeps the promise of POST /verify/async       *)
(* (routes/verify.ts:40-73).                                               *)
THEOREM QueuePromiseKept == Spec => PromiseKept
  BY InitIInv, StepIInv, InitMaps, StepMaps, PTL DEF Spec, PromiseKept, Promise!Spec

-----------------------------------------------------------------------------
(* What becomes of a job: the part of JobsEnd that needs no fairness *)

(* Two slots may run a job at once, the first of them without its lock     *)
(* (verifyWorker.ts:15-20 has two slots): the result is that of the run    *)
(* that was started last, however long the first goes on.                  *)
ResultIsLatest == \A j \in Jobs : value[j] # 0 => value[j] = runs[j]

(* The slot that holds the lock of the job it runs does the last run.      *)
HolderInv ==
  \A s \in Slots :
    job[s] \in Jobs /\ lock[job[s]] = s => run[s] = runs[job[s]]

LatestInv == ResultIsLatest /\ HolderInv

(* Every step keeps the latest run the one that counts.                    *)
LEMMA StepLatest == IInv /\ LatestInv /\ [Next]_vars => LatestInv'
  <1> SUFFICES ASSUME IInv, LatestInv, [Next]_vars
               PROVE  LatestInv'
    OBVIOUS
  <1>1. /\ lock \in [Jobs -> Slots \cup {Nobody}] /\ value \in [Jobs -> Nat]
        /\ runs \in [Jobs -> Nat]
        /\ job \in [Slots -> Jobs \cup {NoJob}] /\ run \in [Slots -> Nat]
        /\ Nobody \notin Slots /\ NoJob \notin Jobs
        /\ \A j \in Jobs : value[j] # 0 => state[j] \in {"completed", "unknown"}
        /\ \A s \in Slots : step[s] # "idle" => job[s] \in Jobs
    BY QueueAssumption DEF IInv, TypeOK, ValueInv, SlotInv
  <1> HIDE DEF IInv
  <1> USE <1>1 DEF LatestInv, ResultIsLatest, HolderInv
  <1>2. ASSUME NEW s \in Slots, NEW j \in Jobs, Take(s, j) PROVE LatestInv'
    BY <1>2 DEF Take
  <1>3. ASSUME NEW s \in Slots, step[s] # "idle", NEW outcome, NEW result \in {0, run[s]},
               End(s, outcome, result)
        PROVE  LatestInv'
    <2>1. CASE Holds(s)
      BY <1>3, <2>1 DEF End, Holds, Release
    <2>2. CASE ~Holds(s)
      BY <1>3, <2>2 DEF End, Release
    <2> QED
      BY <2>1, <2>2
  <1>4. ASSUME NEW s \in Slots, Complete(s) \/ Throw(s) PROVE LatestInv'
    BY <1>3, <1>4 DEF Complete, Throw
  <1>5. CASE Crash
    BY <1>5 DEF Crash
  <1>6. ASSUME NEW j \in Jobs, Expire(j) \/ Evict(j) PROVE LatestInv'
    BY <1>6 DEF Expire, Evict, slots
  <1>7. ASSUME NEW list \in Lists, EvictList(list) PROVE LatestInv'
    BY <1>7 DEF EvictList, slots
  <1>8. CASE UNCHANGED <<lock, runs, value, job, run>>
    BY <1>8
  <1>9. ASSUME NEW batch \in SUBSET Jobs, Submit(batch) PROVE LatestInv'
    BY <1>8, <1>9 DEF Submit, slots
  <1>10. ASSUME NEW j \in Jobs, Stalled(j) PROVE LatestInv'
    BY <1>8, <1>10 DEF Stalled, slots
  <1>11. ASSUME NEW s \in Slots, Verified(s) \/ Record(s) PROVE LatestInv'
    BY <1>8, <1>11 DEF Verified, Record
  <1>12. ASSUME NEW j \in Polled, PollGet(j) \/ PollState(j) PROVE LatestInv'
    BY <1>8, <1>12 DEF PollGet, PollState, slots
  <1>13. CASE UNCHANGED vars
    BY <1>8, <1>13 DEF vars, slots
  <1> QED
    BY <1>2, <1>4, <1>5, <1>6, <1>7, <1>9, <1>10, <1>11, <1>12, <1>13 DEF Next, Proceed

(* A late run never replaces the result of a later one (verifyWorker.ts:   *)
(* 15-20).                                                                 *)
THEOREM QueueResultIsLatest == Spec => []ResultIsLatest
  <1>1. Init => LatestInv
    BY QueueAssumption DEF Init, LatestInv, ResultIsLatest, HolderInv
  <1>2. LatestInv => ResultIsLatest
    BY DEF LatestInv
  <1> QED
    BY InitIInv, StepIInv, StepLatest, <1>1, <1>2, PTL DEF Spec

(* The changes a job may still go through before it ends: to be taken and  *)
(* to be given back, for every stall that is left, and the last two.       *)
ChangesLeft(j) ==
  2 * (MaxStalls - stalls[j]) + (IF state[j] = "waiting" THEN 2 ELSE 1)

(* How the state of a job changes, and how its stalls do.                  *)
JobMoves(j) ==
  \/ state'[j] = state[j]
  \/ state[j] = "none" /\ state'[j] = "waiting"
  \/ state[j] = "waiting" /\ state'[j] = "active"
       /\ stalls'[j] = stalls[j]
  \/ state[j] = "active" /\ state'[j] = "waiting" /\ stalls'[j] = stalls[j] + 1
  \/ state[j] = "active" /\ state'[j] \in {"completed", "failed"}
  \/ state[j] \in Lists /\ state'[j] = "unknown"

(* No step does anything else to a job.                                    *)
LEMMA StepJobMoves == IInv /\ [Next]_vars => \A j \in Jobs : JobMoves(j)
  <1> SUFFICES ASSUME IInv, [Next]_vars, NEW j \in Jobs
               PROVE  JobMoves(j)
    OBVIOUS
  <1>1. state \in [Jobs -> States] /\ stalls \in [Jobs -> 0 .. MaxStalls] /\ MaxStalls \in Nat
    BY QueueAssumption DEF IInv, TypeOK
  <1> HIDE DEF IInv
  <1> USE <1>1 DEF JobMoves, States, Lists
  <1>2. ASSUME NEW batch \in SUBSET Jobs, Submit(batch) PROVE JobMoves(j)
    BY <1>2 DEF Submit
  <1>3. ASSUME NEW s \in Slots, NEW k \in Jobs, Take(s, k) PROVE JobMoves(j)
    BY <1>3 DEF Take
  <1>4. ASSUME NEW s \in Slots, NEW outcome \in {"completed", "failed"}, NEW result,
               End(s, outcome, result)
        PROVE  JobMoves(j)
    BY <1>4 DEF End, Holds
  <1>5. ASSUME NEW s \in Slots, Proceed(s) \/ Throw(s) PROVE JobMoves(j)
    BY <1>4, <1>5 DEF Proceed, Verified, Record, Complete, Throw
  <1>6. ASSUME NEW k \in Jobs, Stalled(k) PROVE JobMoves(j)
    <2>1. CASE j = k
      BY <1>6, <2>1 DEF Stalled
    <2>2. CASE j # k
      BY <1>6, <2>2 DEF Stalled
    <2> QED
      BY <2>1, <2>2
  <1>7. ASSUME NEW k \in Jobs, Evict(k) \/ Expire(k) PROVE JobMoves(j)
    BY <1>7 DEF Evict, Expire
  <1>8. ASSUME NEW list \in Lists, EvictList(list) PROVE JobMoves(j)
    BY <1>8 DEF EvictList, JobsOf
  <1>9. CASE UNCHANGED state
    BY <1>9
  <1> QED
    BY <1>2, <1>3, <1>5, <1>6, <1>7, <1>8, <1>9 DEF Next, Crash, PollGet, PollState, vars

(* A job that is waiting or active changes only towards its end: it cannot *)
(* be taken and given back for ever, however often the process crashes.    *)
JobRunsOut ==
  \A j \in Jobs :
    state[j] \in {"waiting", "active"} =>
      /\ ChangesLeft(j) \in 1 .. 2 * MaxStalls + 2
      /\ \/ state'[j] = state[j]
         \/ state'[j] \notin {"waiting", "active"}
         \/ ChangesLeft(j)' < ChangesLeft(j)

JobsRunOut == [][JobRunsOut]_vars

(* With the fairness that makes it change, a job ends (verifyWorker.ts:    *)
(* 17-21).                                                                 *)
THEOREM QueueJobsRunOut == Spec => JobsRunOut
  <1>1. IInv /\ [Next]_vars => [JobRunsOut]_vars
    <2> SUFFICES ASSUME IInv, [Next]_vars, NEW j \in Jobs, state[j] \in {"waiting", "active"}
                 PROVE  /\ ChangesLeft(j) \in 1 .. 2 * MaxStalls + 2
                        /\ \/ state'[j] = state[j]
                           \/ state'[j] \notin {"waiting", "active"}
                           \/ ChangesLeft(j)' < ChangesLeft(j)
      BY DEF JobRunsOut
    <2>1. stalls[j] \in 0 .. MaxStalls /\ MaxStalls \in Nat
      BY QueueAssumption DEF IInv, TypeOK
    <2>2. JobMoves(j)
      BY StepJobMoves
    <2> QED
      BY <2>1, <2>2 DEF JobMoves, ChangesLeft
  <1> QED
    BY InitIInv, StepIInv, <1>1, PTL DEF Spec, JobsRunOut

(* A job ends once: what it completed or failed as stays, and so does its  *)
(* result, whatever a second slot that ran it comes to.                    *)
EndsOnce ==
  \A j \in Jobs :
    state[j] \in {"completed", "failed"} =>
      state'[j] \in {state[j], "unknown"} /\ value'[j] = value[j]

OneEnd == [][EndsOnce]_vars

(* A slot that has lost its job cannot end it again (verifyWorker.ts:17).  *)
THEOREM QueueOneEnd == Spec => OneEnd
  <1>1. IInv /\ [Next]_vars => [EndsOnce]_vars
    <2> SUFFICES ASSUME IInv, [Next]_vars, NEW j \in Jobs, state[j] \in {"completed", "failed"}
                 PROVE  state'[j] \in {state[j], "unknown"} /\ value'[j] = value[j]
      BY DEF EndsOnce
    <2>1. state'[j] \in {state[j], "unknown"}
      BY StepJobMoves DEF JobMoves
    <2>2. ASSUME NEW s \in Slots, NEW outcome, NEW result, End(s, outcome, result)
          PROVE  value'[j] = value[j]
      BY <2>2 DEF End, Holds, IInv, TypeOK
    <2>3. value'[j] = value[j]
      BY <2>2 DEF Next, Proceed, Submit, Take, Verified, Record, Complete, Throw, Crash,
                  Expire, Stalled, Evict, EvictList, PollGet, PollState, vars
    <2> QED
      BY <2>1, <2>3
  <1> QED
    BY InitIInv, StepIInv, <1>1, PTL DEF Spec, OneEnd
=============================================================================
