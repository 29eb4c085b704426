------------------------ MODULE VoyagerFetcherProofs ------------------------
(* Safety of VoyagerFetcher, and of the admission ledger that it            *)
(* implements, for any number of callers, attempts and cap.                 *)
EXTENDS VoyagerFetcher, FiniteSetTheorems, TLAPS

(* The lock word and the program counters agree, a call only waits while   *)
(* it has an attempt left, and backs off after a request.                  *)
LockInv ==
  /\ \A c \in Callers : pc[c] = "sent" => holder = c
  /\ \A c \in Callers : pc[c] \in {"sent", "backoff"} => attempt[c] # 0
  /\ \A c \in Callers : pc[c] \in {"waiting", "backoff"} => attempt[c] < MaxAttempts
  /\ \A c \in Callers : pc[c] = "idle" => attempt[c] = 0

IInv == TypeOK /\ LockInv

(* The invariant holds at the start.                                       *)
LEMMA InitIInv == Init => IInv
  BY VoyagerAssumption DEF Init, IInv, TypeOK, LockInv, Nobody

(* Every step keeps it.                                                    *)
LEMMA StepIInv == IInv /\ [Next]_vars => IInv'
  <1> SUFFICES ASSUME IInv, [Next]_vars
               PROVE  IInv'
    OBVIOUS
  <1> USE VoyagerAssumption DEF IInv, TypeOK, LockInv, Nobody
  <1>1. ASSUME NEW c \in Callers, Start(c) PROVE IInv'
    BY <1>1 DEF Start
  <1>2. ASSUME NEW c \in Callers, Refuse(c) PROVE IInv'
    BY <1>2 DEF Refuse, vars
  <1>3. ASSUME NEW c \in Callers, Send(c) PROVE IInv'
    BY <1>3 DEF Send
  <1>4. ASSUME NEW c \in Callers, Answered(c) PROVE IInv'
    <2>1. PICK status \in Statuses \cup {NoAnswer} : Answer(c, status)
      BY <1>4 DEF Answered
    <2> DEFINE class == classify_error(status)
    <2>2. Verdict(class) \in {"active", "suspended", "challenged"}
      BY DEF Verdict
    <2>3. CASE should_retry(class, attempt[c])
      BY <2>1, <2>2, <2>3 DEF Answer, should_retry
    <2>4. CASE ~should_retry(class, attempt[c])
      BY <2>1, <2>2, <2>4 DEF Answer, Finish
    <2> QED
      BY <2>3, <2>4
  <1>5. ASSUME NEW c \in Callers, Retry(c) PROVE IInv'
    BY <1>5 DEF Retry
  <1>6. CASE UNCHANGED vars
    BY <1>6 DEF vars
  <1> QED
    BY <1>1, <1>2, <1>3, <1>4, <1>5, <1>6 DEF Next

(* The types of the account and of its calls (voyager.py:70-83).           *)
THEOREM VoyagerTypeOK == Spec => []TypeOK
  <1>1. IInv => TypeOK
    BY DEF IInv
  <1> QED
    BY InitIInv, StepIInv, <1>1, PTL DEF Spec

(* The pacing the per-account lock is there for (voyager.py:125-132).      *)
THEOREM VoyagerPaced == Spec => []OneRequestAtATime
  <1>1. IInv => OneRequestAtATime
    BY DEF IInv, LockInv, OneRequestAtATime
  <1> QED
    BY InitIInv, StepIInv, <1>1, PTL DEF Spec

-----------------------------------------------------------------------------
(* How the steps move the outstanding requests *)

(* The attempts still to come are finitely many.                           *)
LEMMA OutstandingFinite ==
  /\ IsFiniteSet(Outstanding)
  /\ Cardinality(Outstanding) \in Nat
  <1>1. IsFiniteSet(Callers) /\ IsFiniteSet(1 .. MaxAttempts)
    BY VoyagerAssumption, FS_Interval
  <1>2. IsFiniteSet(Callers \X (1 .. MaxAttempts))
    BY <1>1, FS_Product
  <1>3. Outstanding \in SUBSET (Callers \X (1 .. MaxAttempts))
    BY DEF Outstanding
  <1> QED
    BY <1>2, <1>3, FS_Subset, FS_CardinalityType

(* A call that starts has all its attempts to come,                        *)
LEMMA StartOutstanding ==
  ASSUME IInv, NEW c \in Callers, Start(c)
  PROVE  /\ Outstanding' = Outstanding \cup ({c} \X (1 .. MaxAttempts))
         /\ {p \in Outstanding : p[1] = c} = {}
  BY VoyagerAssumption DEF IInv, TypeOK, LockInv, Start, Outstanding

(* each request takes one,                                                 *)
LEMMA SendOutstanding ==
  ASSUME IInv, NEW c \in Callers, Send(c)
  PROVE  /\ <<c, attempt[c] + 1>> \in Outstanding
         /\ Outstanding' = Outstanding \ {<<c, attempt[c] + 1>>}
  BY VoyagerAssumption DEF IInv, TypeOK, LockInv, Send, Outstanding

(* an answer takes the rest unless the call tries again,                   *)
LEMMA AnswerOutstanding ==
  ASSUME IInv, NEW c \in Callers, NEW status, Answer(c, status)
  PROVE  /\ Outstanding' \subseteq Outstanding
         /\ state' # state => Outstanding' \subseteq {p \in Outstanding : p[1] # c}
  <1>1. CASE should_retry(classify_error(status), attempt[c])
    <2>1. Outstanding' \subseteq Outstanding
      BY <1>1 DEF IInv, TypeOK, Answer, Outstanding
    <2>2. state' = state
      BY <1>1 DEF Answer, should_retry, Verdict
    <2> QED
      BY <2>1, <2>2
  <1>2. CASE ~should_retry(classify_error(status), attempt[c])
    BY <1>2 DEF IInv, TypeOK, Answer, Finish, Outstanding
  <1> QED
    BY <1>1, <1>2

(* and the end of a back-off takes none.                                   *)
LEMMA RetryOutstanding ==
  ASSUME IInv, NEW c \in Callers, Retry(c)
  PROVE  Outstanding' = Outstanding
  BY DEF IInv, TypeOK, Retry, Outstanding

-----------------------------------------------------------------------------
(* The fetcher implements the admission ledger *)

(* The start is that of the ledger.                                        *)
LEMMA LedgerInitMaps == Init => Ledger!Init
  BY DEF Init, Ledger!Init, Outstanding

(* Every step is one of the ledger or a stutter.                           *)
LEMMA LedgerStepMaps == IInv /\ [Next]_vars => [Ledger!Next]_(Ledger!vars)
  <1> SUFFICES ASSUME IInv, [Next]_vars
               PROVE  Ledger!Next \/ UNCHANGED <<used, Outstanding>>
    BY DEF Ledger!vars
  <1>1. ASSUME NEW c \in Callers, Start(c) PROVE Ledger!Admit(c)
    <2>1. used < Cap /\ used' = used + 0
      BY <1>1 DEF Start, Healthy, IInv, TypeOK
    <2>2. 0 \in 0 .. 1 /\ MaxAttempts \in 0 .. MaxAttempts /\ 0 + MaxAttempts <= MaxAttempts
      BY VoyagerAssumption
    <2> QED
      BY <1>1, <2>1, <2>2, StartOutstanding DEF Ledger!Admit, Ledger!PermitsOf
  <1>2. ASSUME NEW c \in Callers, Send(c) PROVE Ledger!Spend
    <2>1. used' = used + 1 /\ 1 \in 0 .. 1
      BY <1>2 DEF Send
    <2>2. Outstanding' \in SUBSET Outstanding /\ Outstanding' # Outstanding
      BY <1>2, SendOutstanding
    <2> QED
      BY <2>1, <2>2 DEF Ledger!Spend
  <1>3. ASSUME NEW c \in Callers, Answered(c) PROVE Ledger!Spend
    <2>1. PICK status \in Statuses \cup {NoAnswer} : Answer(c, status)
      BY <1>3 DEF Answered
    <2>2. used' = used + 0 /\ 0 \in 0 .. 1
      BY <2>1 DEF Answer, IInv, TypeOK
    <2>3. Outstanding' \in SUBSET Outstanding
      BY <2>1, AnswerOutstanding
    <2> QED
      BY <2>2, <2>3 DEF Ledger!Spend
  <1>4. ASSUME NEW c \in Callers, Retry(c) PROVE UNCHANGED <<used, Outstanding>>
    BY <1>4, RetryOutstanding DEF Retry
  <1>5. ASSUME NEW c \in Callers, Refuse(c) PROVE UNCHANGED <<used, Outstanding>>
    BY <1>5 DEF Refuse, vars, Outstanding
  <1>6. CASE UNCHANGED vars
    BY <1>6 DEF vars, Outstanding
  <1> QED
    BY <1>1, <1>2, <1>3, <1>4, <1>5, <1>6 DEF Next, Ledger!Next

(* The fetcher checks its cap once per call and still implements the       *)
(* ledger (voyager.py:113, 129), whatever the callers interleave.          *)
THEOREM VoyagerImplementsLedger == Spec => LedgerRefined
  BY InitIInv, StepIInv, LedgerInitMaps, LedgerStepMaps, PTL
     DEF Spec, LedgerRefined, Ledger!Spec

-----------------------------------------------------------------------------
(* Why a ledger stays below its ceiling *)

(* The charges that may still come, whoever may make them: the ledger on   *)
(* its own.                                                                *)
VARIABLE permits

AnyLedger == INSTANCE AdmissionLedger WITH PerCall <- MaxAttempts

Permit == Callers \X (1 .. MaxAttempts)

Ceiling == IF Cap = 0 THEN 0 ELSE Cap - 1 + Cardinality(Callers) * MaxAttempts

(* The ceiling alone is not kept by an admission at Cap = 0, nor without   *)
(* knowing that all permits are among the possible ones.                   *)
WithinRoom(u, P) ==
  /\ u \in Nat
  /\ P \in SUBSET Permit
  /\ Cap = 0 => P = {}
  /\ u + Cardinality(P) <= Ceiling

(* There are finitely many permits, and the ceiling is a number.           *)
LEMMA PermitFinite ==
  /\ IsFiniteSet(Permit)
  /\ Cardinality(Permit) = Cardinality(Callers) * MaxAttempts
  /\ Cardinality(Callers) * MaxAttempts \in Nat
  /\ Ceiling \in Nat
  <1>1. IsFiniteSet(1 .. MaxAttempts) /\ Cardinality(1 .. MaxAttempts) = MaxAttempts
    BY FS_Interval, VoyagerAssumption
  <1>2. IsFiniteSet(Callers) /\ Cardinality(Callers) \in Nat
    BY VoyagerAssumption, FS_CardinalityType
  <1>3. Cardinality(Callers) * MaxAttempts \in Nat
    BY <1>2, VoyagerAssumption
  <1>4. Ceiling \in Nat
    BY <1>3, VoyagerAssumption DEF Ceiling
  <1> QED
    BY <1>1, <1>2, <1>3, <1>4, FS_Product DEF Permit

(* All we need of the number of permits is that it is at most that of all  *)
(* possible ones.                                                          *)
LEMMA PermitBound ==
  ASSUME NEW S \in SUBSET Permit
  PROVE  /\ IsFiniteSet(S)
         /\ Cardinality(S) \in Nat
         /\ Cardinality(S) <= Cardinality(Callers) * MaxAttempts
  BY PermitFinite, FS_Subset, FS_CardinalityType

(* An account nobody uses is below its ceiling.                            *)
LEMMA NoPermits == WithinRoom(0, {})
  BY PermitFinite, FS_EmptySet DEF WithinRoom

(* Admission: a charge made at once gives up the caller's last permit.     *)
LEMMA AdmitRoom ==
  ASSUME NEW u, NEW P, WithinRoom(u, P), u < Cap,
         NEW c \in Callers, {p \in P : p[1] = c} = {},
         NEW s \in 0 .. 1, NEW n \in 0 .. MaxAttempts, s + n <= MaxAttempts
  PROVE  WithinRoom(u + s, P \cup ({c} \X (1 .. n)))
  <1> DEFINE all == Cardinality(Callers) * MaxAttempts
             full == <<c, MaxAttempts>>
             Q == P \cup ({c} \X (1 .. n))
  <1>1. u \in Nat /\ u + s \in Nat /\ P \in SUBSET Permit
    BY DEF WithinRoom
  <1>2. Q \in SUBSET Permit
    BY <1>1, VoyagerAssumption DEF Permit
  <1>3. Cap # 0
    BY <1>1, VoyagerAssumption
  <1>4. all \in Nat
    BY PermitFinite
  <1>5. Cardinality(Q) \in Nat /\ s + Cardinality(Q) <= all
    <2>1. CASE s = 0
      <3> HIDE DEF Q
      <3> QED
        BY <2>1, <1>2, <1>4, PermitBound
    <2>2. CASE s = 1
      <3>1. full \in Permit /\ full \notin P
        BY VoyagerAssumption DEF Permit
      <3>2. n < MaxAttempts
        BY <2>2, VoyagerAssumption
      <3>3. Q \in SUBSET (Permit \ {full})
        BY <1>2, <3>1, <3>2, VoyagerAssumption
      <3>4. /\ IsFiniteSet(Permit \ {full})
            /\ Cardinality(Permit \ {full}) = all - 1
        BY PermitFinite, <3>1, FS_RemoveElement
      <3>5. Cardinality(Q) <= Cardinality(Permit \ {full})
        BY <3>3, <3>4, FS_Subset
      <3>6. Cardinality(Q) \in Nat
        BY <1>2, PermitBound
      <3> HIDE DEF all, Q, full
      <3> QED
        BY <3>4, <3>5, <3>6, <2>2, <1>4
    <2> QED
      BY <2>1, <2>2
  <1>6. Ceiling = Cap - 1 + all
    BY <1>3 DEF Ceiling
  <1> HIDE DEF all, full, Q
  <1>7. (u + s) + Cardinality(Q) <= Ceiling
    BY <1>1, <1>4, <1>5, <1>6, VoyagerAssumption
  <1> QED
    BY <1>1, <1>2, <1>3, <1>7 DEF WithinRoom, Q

(* A charge is paid for with a permit.                                     *)
LEMMA SpendRoom ==
  ASSUME NEW u, NEW P, WithinRoom(u, P),
         NEW s \in 0 .. 1, NEW kept \in SUBSET P, s = 1 => kept # P
  PROVE  WithinRoom(u + s, kept)
  <1>1. u \in Nat /\ P \in SUBSET Permit /\ kept \in SUBSET Permit
    BY DEF WithinRoom
  <1>2. /\ IsFiniteSet(P)
        /\ Cardinality(P) \in Nat
        /\ Cardinality(kept) \in Nat
    BY <1>1, PermitBound
  <1>3. s + Cardinality(kept) <= Cardinality(P)
    <2>1. Cardinality(kept) <= Cardinality(P)
      BY <1>2, FS_Subset
    <2>2. s = 1 => Cardinality(kept) # Cardinality(P)
      BY <1>2, FS_Subset
    <2> QED
      BY <2>1, <2>2, <1>2
  <1>4. (u + s) + Cardinality(kept) <= Ceiling
    BY <1>1, <1>2, <1>3, PermitFinite DEF WithinRoom
  <1> QED
    BY <1>1, <1>4 DEF WithinRoom

(* A new day takes the counter away and leaves the permits.                *)
LEMMA NewDayRoom ==
  ASSUME NEW u, NEW P, WithinRoom(u, P)
  PROVE  WithinRoom(0, P)
  <1>1. Cardinality(P) \in Nat
    BY PermitBound DEF WithinRoom
  <1>2. 0 + Cardinality(P) <= Ceiling
    BY <1>1, PermitFinite DEF WithinRoom
  <1> QED
    BY <1>2 DEF WithinRoom

(* Every step of the ledger keeps it below its ceiling.                    *)
LEMMA AnyLedgerStep ==
  WithinRoom(used, permits) /\ [AnyLedger!Next]_(AnyLedger!vars) => WithinRoom(used, permits)'
  <1> SUFFICES ASSUME WithinRoom(used, permits), [AnyLedger!Next]_(AnyLedger!vars)
               PROVE  WithinRoom(used', permits')
    BY DEF WithinRoom, Ceiling, Permit
  <1>1. ASSUME NEW c \in Callers, AnyLedger!Admit(c) PROVE WithinRoom(used', permits')
    <2>1. used < Cap /\ {p \in permits : p[1] = c} = {}
      BY <1>1 DEF AnyLedger!Admit, AnyLedger!PermitsOf
    <2>2. PICK s \in 0 .. 1, n \in 0 .. MaxAttempts :
            /\ s + n <= MaxAttempts
            /\ used' = used + s
            /\ permits' = permits \cup ({c} \X (1 .. n))
      BY <1>1 DEF AnyLedger!Admit
    <2> QED
      BY <2>1, <2>2, AdmitRoom
  <1>2. CASE AnyLedger!Spend
    BY <1>2, SpendRoom DEF AnyLedger!Spend
  <1>3. CASE AnyLedger!NewDay
    BY <1>3, NewDayRoom DEF AnyLedger!NewDay
  <1>4. CASE UNCHANGED <<used, permits>>
    BY <1>4
  <1> QED
    BY <1>1, <1>2, <1>3, <1>4 DEF AnyLedger!Next, AnyLedger!vars

(* The instances' own copies of the set operators are the same.            *)
LEMMA SameSetOperators == \A S : AnyLedger!Cardinality(S) = Cardinality(S)
  BY DEF Cardinality, AnyLedger!Cardinality, IsFiniteSet, AnyLedger!IsFiniteSet

(* The counter is a number and the charges to come are the callers', up to *)
(* PerCall each (account_pool.py:80, voyager.py:113-130).                  *)
THEOREM LedgerTypeOK == AnyLedger!Spec => []AnyLedger!TypeOK
  <1>1. AnyLedger!Init => WithinRoom(used, permits)
    BY NoPermits DEF AnyLedger!Init
  <1>2. WithinRoom(used, permits) => AnyLedger!TypeOK
    BY DEF WithinRoom, Permit, AnyLedger!TypeOK, AnyLedger!Permit
  <1> QED
    BY <1>1, <1>2, AnyLedgerStep, PTL DEF AnyLedger!Spec

(* Checking the cap once per call still bounds the counter: it never       *)
(* passes Cap - 1 + callers * PerCall (account_pool.py:80,                 *)
(* voyager.py:113).                                                        *)
THEOREM LedgerWithinCeiling == AnyLedger!Spec => []AnyLedger!WithinCeiling
  <1>1. AnyLedger!Init => WithinRoom(used, permits)
    BY NoPermits DEF AnyLedger!Init
  <1>2. WithinRoom(used, permits) => AnyLedger!WithinCeiling
    BY SameSetOperators DEF WithinRoom, Ceiling, AnyLedger!WithinCeiling, AnyLedger!Ceiling
  <1> QED
    BY <1>1, <1>2, AnyLedgerStep, PTL DEF AnyLedger!Spec

(* The same steps, with the outstanding requests for permits.              *)
LEMMA LedgerStep ==
  IInv /\ WithinRoom(used, Outstanding) /\ [Next]_vars => WithinRoom(used, Outstanding)'
  <1> SUFFICES ASSUME IInv, WithinRoom(used, Outstanding), [Next]_vars
               PROVE  WithinRoom(used', Outstanding')
    BY DEF WithinRoom, Ceiling, Permit
  <1>1. [Ledger!Next]_(Ledger!vars)
    BY LedgerStepMaps
  <1>2. ASSUME NEW c \in Callers, Ledger!Admit(c) PROVE WithinRoom(used', Outstanding')
    <2>1. used < Cap /\ {p \in Outstanding : p[1] = c} = {}
      BY <1>2 DEF Ledger!Admit, Ledger!PermitsOf
    <2>2. PICK s \in 0 .. 1, n \in 0 .. MaxAttempts :
            /\ s + n <= MaxAttempts
            /\ used' = used + s
            /\ Outstanding' = Outstanding \cup ({c} \X (1 .. n))
      BY <1>2 DEF Ledger!Admit
    <2> QED
      BY <2>1, <2>2, AdmitRoom
  <1>3. CASE Ledger!Spend
    BY <1>3, SpendRoom DEF Ledger!Spend
  <1>4. CASE Ledger!NewDay
    BY <1>4, NewDayRoom DEF Ledger!NewDay
  <1>5. CASE UNCHANGED <<used, Outstanding>>
    BY <1>5
  <1> QED
    BY <1>1, <1>2, <1>3, <1>4, <1>5 DEF Ledger!Next, Ledger!vars

(* The cap is overshot by less than one round of all attempts of all       *)
(* callers (voyager.py:113, 129): the ledger's ceiling, through the        *)
(* refinement.                                                             *)
THEOREM VoyagerUsedBounded == Spec => []UsedBounded
  <1>1. Init => WithinRoom(used, Outstanding)
    BY LedgerInitMaps, NoPermits DEF Ledger!Init
  <1>2. IInv /\ WithinRoom(used, Outstanding) => UsedBounded
    <2> SUFFICES ASSUME IInv, WithinRoom(used, Outstanding)
                 PROVE  used <= Ceiling
      BY DEF UsedBounded, Ceiling
    <2>1. used \in Nat /\ used + Cardinality(Outstanding) <= Ceiling
      BY DEF WithinRoom
    <2> QED
      BY <2>1, OutstandingFinite, PermitFinite
  <1> QED
    BY InitIInv, StepIInv, LedgerStep, <1>1, <1>2, PTL DEF Spec

-----------------------------------------------------------------------------
(* What a dead or blocked account still gets *)

(* Nothing was late before the account died: needed when the answer that   *)
(* kills it arrives.                                                       *)
LateInv ==
  /\ state = "active" => late = 0
  /\ LateRequestsBounded

(* Late requests are those of calls that started in time.                  *)
LEMMA LateStep == IInv /\ LateInv /\ [Next]_vars => LateInv'
  <1> SUFFICES ASSUME IInv, LateInv, [Next]_vars
               PROVE  LateInv'
    OBVIOUS
  <1> DEFINE room == (Cardinality(Callers) - 1) * MaxAttempts
  <1>1. Cardinality(Callers) \in Nat /\ room \in Int
    BY VoyagerAssumption, FS_CardinalityType
  <1> HIDE DEF room
  <1>2. LateRequestsBounded <=> (state # "active" => late + Cardinality(Outstanding) <= room)
    BY DEF LateRequestsBounded, room
  <1>3. LateRequestsBounded' <=>
          (state' # "active" => late' + Cardinality(Outstanding') <= room)
    BY DEF LateRequestsBounded, room
  <1>4. late \in Nat /\ Cardinality(Outstanding) \in Nat /\ IsFiniteSet(Outstanding)
    BY OutstandingFinite DEF IInv, TypeOK
  <1>5. ASSUME NEW c \in Callers, Start(c) PROVE LateInv'
    BY <1>5, <1>3 DEF Start, Healthy, LateInv
  <1>6. ASSUME NEW c \in Callers, Send(c) PROVE LateInv'
    <2> DEFINE spent == <<c, attempt[c] + 1>>
    <2>0. spent \in Outstanding /\ Outstanding' = Outstanding \ {spent}
      BY <1>6, SendOutstanding
    <2> HIDE DEF spent
    <2>1. Cardinality(Outstanding') = Cardinality(Outstanding) - 1
      BY <2>0, <1>4, FS_RemoveElement
    <2>2. state' = state /\ late' = IF state = "active" THEN late ELSE late + 1
      BY <1>6 DEF Send
    <2> QED
      BY <2>1, <2>2, <1>1, <1>2, <1>3, <1>4 DEF LateInv
  <1>7. ASSUME NEW c \in Callers, Answered(c) PROVE LateInv'
    <2>1. PICK status \in Statuses \cup {NoAnswer} : Answer(c, status)
      BY <1>7 DEF Answered
    <2>2. late' = late
      BY <2>1 DEF Answer
    <2>3. Outstanding' \subseteq Outstanding
      BY <2>1, AnswerOutstanding
    <2>4. Cardinality(Outstanding') \in Nat /\ Cardinality(Outstanding') <= Cardinality(Outstanding)
      BY <2>3, <1>4, FS_Subset, FS_CardinalityType
    <2>5. CASE state' = state
      BY <2>2, <2>4, <2>5, <1>1, <1>2, <1>3, <1>4 DEF LateInv
    <2>6. CASE state' # state /\ state # "active"
      <3>1. state' # "active"
        BY <2>1, <2>6 DEF Answer, Verdict
      <3> QED
        BY <3>1, <2>2, <2>4, <2>6, <1>1, <1>2, <1>3, <1>4 DEF LateInv
    <2>7. CASE state' # state /\ state = "active"
      <3> DEFINE others == Callers \ {c}
      <3>1. Outstanding' \subseteq others \X (1 .. MaxAttempts)
        BY <2>1, <2>7, AnswerOutstanding DEF Outstanding
      <3>2. IsFiniteSet(others) /\ Cardinality(others) = Cardinality(Callers) - 1
        BY VoyagerAssumption, FS_RemoveElement
      <3>3. IsFiniteSet(1 .. MaxAttempts) /\ Cardinality(1 .. MaxAttempts) = MaxAttempts
        BY VoyagerAssumption, FS_Interval
      <3>4. /\ IsFiniteSet(others \X (1 .. MaxAttempts))
            /\ Cardinality(others \X (1 .. MaxAttempts)) = room
        BY <3>2, <3>3, FS_Product DEF room
      <3>5. Cardinality(Outstanding') <= room
        BY <3>1, <3>4, FS_Subset
      <3>6. state' # "active"
        BY <2>7
      <3> QED
        BY <3>5, <3>6, <2>2, <2>4, <2>7, <1>1, <1>3 DEF LateInv
    <2> QED
      BY <2>5, <2>6, <2>7
  <1>8. ASSUME NEW c \in Callers, Retry(c) PROVE LateInv'
    BY <1>8, RetryOutstanding DEF Retry, LateInv, LateRequestsBounded
  <1>9. CASE (\E c \in Callers : Refuse(c)) \/ UNCHANGED vars
    BY <1>9 DEF Refuse, vars, LateInv, LateRequestsBounded, Outstanding
  <1> QED
    BY <1>5, <1>6, <1>7, <1>8, <1>9 DEF Next

(* Calls admitted before an account died can bother it at most MaxAttempts *)
(* times each (voyager.py:120, 123-162).                                   *)
THEOREM VoyagerLateBounded == Spec => []LateRequestsBounded
  <1>1. Init => LateInv
    BY DEF Init, LateInv, LateRequestsBounded
  <1>2. LateInv => LateRequestsBounded
    BY DEF LateInv
  <1> QED
    BY InitIInv, StepIInv, LateStep, <1>1, <1>2, PTL DEF Spec

(* A late answer may overwrite "suspended" by "challenged", never by       *)
(* "active" (voyager.py:146-154).                                          *)
THEOREM VoyagerNoRevival == Spec => NoRevival
  <1>1. [Next]_vars => [state # "active" => state' # "active"]_vars
    <2> SUFFICES ASSUME [Next]_vars, state # "active"
                 PROVE  state' # "active"
      OBVIOUS
    <2>1. ASSUME NEW c \in Callers, Answered(c) PROVE state' # "active"
      <3>1. PICK status \in Statuses \cup {NoAnswer} : Answer(c, status)
        BY <2>1 DEF Answered
      <3> QED
        BY <3>1 DEF Answer, Verdict
    <2> QED
      BY <2>1 DEF Next, Start, Refuse, Send, Retry, vars
  <1> QED
    BY <1>1, PTL DEF Spec, NoRevival
-----------------------------------------------------------------------------
(* What becomes of a call: the part of CallsEnd that needs no fairness *)

(* Whoever holds the lock has a request under way, for which it waits for  *)
(* nobody (voyager.py:125-132).                                            *)
LockInUse == holder # Nobody => holder \in Callers /\ pc[holder] = "sent"

(* The most steps a call may still take: three for an attempt, of which    *)
(* the first has no back-off before it.                                    *)
StepsLeft(c) ==
  CASE pc[c] = "idle"    -> 0
    [] pc[c] = "waiting" -> 3 * (MaxAttempts - attempt[c]) - 1
    [] pc[c] = "sent"    -> 3 * (MaxAttempts - attempt[c]) + 1
    [] pc[c] = "backoff" -> 3 * (MaxAttempts - attempt[c])

(* A call in flight has steps left, and never more than its first attempt  *)
(* had.                                                                    *)
StepsBounded ==
  \A c \in Callers : /\ StepsLeft(c) \in 0..(3 * MaxAttempts - 1)
                     /\ StepsLeft(c) = 0 <=> pc[c] = "idle"

(* A step of the call uses one up, whatever the answer; a step of another  *)
(* call leaves it where it is.                                             *)
StepFall ==
  \A c \in Callers :
    pc[c] # "idle" => StepsLeft(c)' < StepsLeft(c) \/ UNCHANGED <<pc[c], attempt[c]>>

StepsFall == [][StepFall]_vars

(* Steps keep the lock in use.                                             *)
LEMMA StepLockInUse == IInv /\ LockInUse /\ [Next]_vars => LockInUse'
  <1> SUFFICES ASSUME IInv, LockInUse, [Next]_vars PROVE LockInUse'
    OBVIOUS
  <1> USE VoyagerAssumption DEF IInv, TypeOK, LockInv, LockInUse, Nobody
  <1>1. ASSUME NEW c \in Callers, Start(c) PROVE LockInUse'
    BY <1>1 DEF Start
  <1>2. ASSUME NEW c \in Callers, Send(c) PROVE LockInUse'
    BY <1>2 DEF Send
  <1>3. ASSUME NEW c \in Callers, Answered(c) PROVE LockInUse'
    BY <1>3 DEF Answered, Answer
  <1>4. ASSUME NEW c \in Callers, Retry(c) PROVE LockInUse'
    BY <1>4 DEF Retry
  <1>5. CASE (\E c \in Callers : Refuse(c)) \/ UNCHANGED vars
    BY <1>5 DEF Refuse, vars
  <1> QED
    BY <1>1, <1>2, <1>3, <1>4, <1>5 DEF Next

(* So no call waits for one that waits: the lock cannot be left taken      *)
(* (voyager.py:125-132).                                                   *)
THEOREM VoyagerLockInUse == Spec => []LockInUse
  <1>1. Init => LockInUse
    BY DEF Init, LockInUse
  <1> QED
    BY InitIInv, StepIInv, StepLockInUse, <1>1, PTL DEF Spec

(* What the invariant says of the steps left.                              *)
LEMMA StepsCounted == IInv => StepsBounded
  <1> SUFFICES ASSUME IInv, NEW c \in Callers
               PROVE  /\ StepsLeft(c) \in 0..(3 * MaxAttempts - 1)
                      /\ StepsLeft(c) = 0 <=> pc[c] = "idle"
    BY DEF StepsBounded
  <1>1. /\ MaxAttempts \in Nat \ {0} /\ attempt[c] \in 0..MaxAttempts
        /\ pc[c] \in {"idle", "waiting", "sent", "backoff"}
        /\ pc[c] \in {"waiting", "backoff"} => attempt[c] < MaxAttempts
        /\ pc[c] \in {"sent", "backoff"} => attempt[c] # 0
    BY VoyagerAssumption DEF IInv, TypeOK, LockInv
  <1>2. CASE pc[c] = "idle"
    BY <1>1, <1>2 DEF StepsLeft
  <1>3. CASE pc[c] = "waiting"
    <2>1. StepsLeft(c) = 3 * (MaxAttempts - attempt[c]) - 1
      BY <1>3 DEF StepsLeft
    <2> QED
      BY <1>1, <1>3, <2>1
  <1>4. CASE pc[c] = "sent"
    <2>1. StepsLeft(c) = 3 * (MaxAttempts - attempt[c]) + 1
      BY <1>4 DEF StepsLeft
    <2> QED
      BY <1>1, <1>4, <2>1
  <1>5. CASE pc[c] = "backoff"
    <2>1. StepsLeft(c) = 3 * (MaxAttempts - attempt[c])
      BY <1>5 DEF StepsLeft
    <2> QED
      BY <1>1, <1>5, <2>1
  <1> QED
    BY <1>1, <1>2, <1>3, <1>4, <1>5

(* Every step of a call brings it nearer to its end.                       *)
LEMMA StepsCountDown == IInv /\ [Next]_vars => StepFall
  <1> SUFFICES ASSUME IInv, [Next]_vars, NEW c \in Callers, pc[c] # "idle"
               PROVE  StepsLeft(c)' < StepsLeft(c) \/ UNCHANGED <<pc[c], attempt[c]>>
    BY DEF StepFall
  <1>1. /\ MaxAttempts \in Nat \ {0} /\ attempt[c] \in 0..MaxAttempts
        /\ pc[c] \in {"idle", "waiting", "sent", "backoff"}
        /\ pc[c] \in {"waiting", "backoff"} => attempt[c] < MaxAttempts
        /\ DOMAIN pc = Callers /\ DOMAIN attempt = Callers
    BY VoyagerAssumption DEF IInv, TypeOK, LockInv
  <1>2. ASSUME NEW d \in Callers, Start(d) PROVE UNCHANGED <<pc[c], attempt[c]>>
    BY <1>2 DEF Start, IInv, TypeOK
  <1>3. ASSUME NEW d \in Callers, Send(d), d = c PROVE StepsLeft(c)' < StepsLeft(c)
    BY <1>3, <1>1 DEF Send, StepsLeft, IInv, TypeOK
  <1>4. ASSUME NEW d \in Callers, Answered(d), d = c PROVE StepsLeft(c)' < StepsLeft(c)
    <2>1. PICK status \in Statuses \cup {NoAnswer} : Answer(c, status)
      BY <1>4 DEF Answered
    <2>2. CASE should_retry(classify_error(status), attempt[c])
      BY <2>1, <2>2, <1>1 DEF Answer, StepsLeft, IInv, TypeOK
    <2>3. CASE ~should_retry(classify_error(status), attempt[c])
      BY <2>1, <2>3, <1>1 DEF Answer, Finish, StepsLeft, IInv, TypeOK
    <2> QED
      BY <2>2, <2>3
  <1>5. ASSUME NEW d \in Callers, Retry(d), d = c PROVE StepsLeft(c)' < StepsLeft(c)
    BY <1>5, <1>1 DEF Retry, StepsLeft, IInv, TypeOK
  <1>6. ASSUME NEW d \in Callers, d # c, Send(d) \/ Answered(d) \/ Retry(d)
        PROVE  UNCHANGED <<pc[c], attempt[c]>>
    BY <1>6 DEF Send, Answered, Answer, Finish, Retry, IInv, TypeOK
  <1>7. CASE (\E d \in Callers : Refuse(d)) \/ UNCHANGED vars
    BY <1>7 DEF Refuse, vars
  <1> QED
    BY <1>2, <1>3, <1>4, <1>5, <1>6, <1>7 DEF Next

(* A call that was let in is over after at most three steps per attempt,   *)
(* if it goes on at all (voyager.py:120-162, retry.py:39-44).              *)
THEOREM VoyagerCallsRunOut == Spec => []StepsBounded /\ StepsFall
  <1>1. Init => IInv
    BY InitIInv
  <1>2. IInv /\ [Next]_vars => IInv'
    BY StepIInv
  <1>3. IInv /\ [Next]_vars => [StepFall]_vars
    BY StepsCountDown
  <1> QED
    BY <1>1, <1>2, <1>3, StepsCounted, PTL DEF Spec, StepsFall
=============================================================================
