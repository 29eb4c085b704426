-------------------------- MODULE AccountPoolProofs --------------------------
(* Safety of the account pool for any number of accounts, callers and caps. *)
EXTENDS AccountPool, FiniteSetTheorems, TLAPS

(* A call in flight has an account, an idle one has none, and a call that  *)
(* is about to try an endpoint has one left.                               *)
CallInv ==
  \A c \in Callers :
    /\ pc[c] = "idle" <=> acct[c] = None
    /\ pc[c] = "fetching" => left[c] >= 1

(* An account that never met an error worth a note was never out.          *)
NeverInv ==
  \A a \in Accounts : since[a] = Never => state[a] = "active"

IInv == TypeOK /\ CallInv /\ NeverInv /\ ActiveIsRested

-----------------------------------------------------------------------------
(* The pieces the actions are made of *)

(* Accounts are numbers, and None is none of them.                         *)
LEMMA AccountFacts ==
  /\ Accounts \subseteq Int
  /\ None \notin Accounts
  /\ Cooldown \in Nat /\ Never = Cooldown + 1
  BY PoolAssumption DEF Accounts, None, Never

(* What the scan wakes is rested, and what was active stays so.            *)
LEMMA WokenType ==
  ASSUME IInv
  PROVE  /\ Woken \in [Accounts -> {"active", "cooldown", "challenged"}]
         /\ \A a \in Accounts : /\ Woken[a] = "active" => since[a] >= Cooldown
                                /\ state[a] = "active" => Woken[a] = "active"
  BY AccountFacts DEF IInv, TypeOK, ActiveIsRested, Woken

(* What release writes on a failure: no counter, and no fresh error on an  *)
(* active account.                                                         *)
LEMMA FailureType ==
  ASSUME IInv, NEW a \in Accounts, NEW e, ReleaseFailure(a, e)
  PROVE  /\ used' = used
         /\ state' \in [Accounts -> {"active", "cooldown", "challenged"}]
         /\ since' \in [Accounts -> 0 .. Never]
         /\ \A b \in Accounts : /\ state'[b] = "active" => since'[b] >= Cooldown
                                /\ since'[b] = Never => state'[b] = "active"
  <1>1. CASE e = "rate"
    BY <1>1, AccountFacts DEF ReleaseFailure, IInv, TypeOK, ActiveIsRested, NeverInv
  <1>2. CASE e = "challenge"
    BY <1>2, AccountFacts DEF ReleaseFailure, IInv, TypeOK, ActiveIsRested, NeverInv
  <1>3. CASE e \notin {"rate", "challenge"}
    BY <1>3, AccountFacts DEF ReleaseFailure, IInv, TypeOK, ActiveIsRested, NeverInv
  <1> QED
    BY <1>1, <1>2, <1>3

(* The call's own variables after it ended: the new CallInv needs no more. *)
LEMMA HangupType ==
  ASSUME IInv, NEW c \in Callers, Hangup(c)
  PROVE  /\ pc' \in [Callers -> {"idle", "fetching", "requesting"}]
         /\ acct' \in [Callers -> Accounts \cup {None}]
         /\ op' \in [Callers -> Op \cup {"none"}]
         /\ left' \in [Callers -> 0 .. Endpoints]
         /\ lastErr' \in [Callers -> Error \cup {NoError}]
         /\ CallInv'
  BY PoolAssumption DEF Hangup, IInv, TypeOK, CallInv

(* Giving the account lock back leaves it with a caller or nobody.         *)
LEMMA UnlockType ==
  ASSUME IInv, NEW c \in Callers, Unlock(c)
  PROVE  holder' \in [Accounts -> Callers \cup {Nobody}]
  BY DEF Unlock, IInv, TypeOK

(* A call that ends in an error keeps the invariant.                       *)
LEMMA FailKeeps ==
  ASSUME IInv, NEW c \in Callers, NEW e, pc[c] # "idle", Fail(c, e),
         holder' \in [Accounts -> Callers \cup {Nobody}]
  PROVE  IInv'
  <1>1. acct[c] \in Accounts
    BY DEF IInv, TypeOK, CallInv
  <1>2. ReleaseFailure(acct[c], e) /\ Hangup(c)
    BY DEF Fail
  <1> QED
    BY <1>1, <1>2, FailureType, HangupType
       DEF IInv, TypeOK, ActiveIsRested, NeverInv

(* So does one that goes on to the next endpoint,                          *)
LEMMA NextEndpointKeeps ==
  ASSUME IInv, NEW c \in Callers, NEW e \in Error \cup {NoError},
         NEW rest \in 1 .. Endpoints, pc[c] # "idle",
         NextEndpoint(c, rest, e),
         holder' \in [Accounts -> Callers \cup {Nobody}]
  PROVE  IInv'
  BY PoolAssumption
     DEF NextEndpoint, pool, IInv, TypeOK, CallInv, ActiveIsRested, NeverInv

(* and one that does either, as the endpoint loop decides.                 *)
LEMMA RaiseKeeps ==
  ASSUME IInv, NEW c \in Callers, NEW e \in Error, NEW gone \in BOOLEAN,
         NEW rest \in 0 .. Endpoints, pc[c] # "idle",
         Raise(c, rest, e, gone),
         holder' \in [Accounts -> Callers \cup {Nobody}]
  PROVE  IInv'
  <1>1. CASE gone /\ rest > 0
    <2>1. rest \in 1 .. Endpoints /\ NextEndpoint(c, rest, e)
      BY <1>1, PoolAssumption DEF Raise
    <2> QED
      BY <2>1, NextEndpointKeeps
  <1>2. CASE ~(gone /\ rest > 0)
    BY <1>2, FailKeeps DEF Raise
  <1> QED
    BY <1>1, <1>2

-----------------------------------------------------------------------------
(* The invariant holds at the start.                                       *)
LEMMA InitIInv == Init => IInv
  BY AccountFacts, PoolAssumption
     DEF Init, IInv, TypeOK, CallInv, NeverInv, ActiveIsRested, Never, None

(* Choosing an account keeps it,                                           *)
LEMMA AcquireKeeps ==
  ASSUME IInv, NEW c \in Callers, NEW o \in Op, Acquire(c, o)
  PROVE  IInv'
  <1>1. PICK a \in Accounts : Best(a) /\ acct' = [acct EXCEPT ![c] = a]
    BY DEF Acquire
  <1>2. 1 \in 0 .. Endpoints /\ Endpoints \in 0 .. Endpoints /\ Endpoints >= 1
    BY PoolAssumption
  <1>3. state' \in [Accounts -> {"active", "cooldown", "challenged"}] /\ ActiveIsRested' /\ NeverInv'
    BY WokenType, AccountFacts DEF Acquire, IInv, ActiveIsRested, NeverInv, TypeOK
  <1>4. CallInv'
    BY <1>1, <1>2, AccountFacts DEF Acquire, IInv, TypeOK, CallInv
  <1>5. TypeOK'
    BY <1>1, <1>2, <1>3 DEF Acquire, IInv, TypeOK, Op
  <1> QED
    BY <1>3, <1>4, <1>5 DEF IInv

(* a search, which ends at once or finds no account,                       *)
LEMMA SearchKeeps ==
  ASSUME IInv, NEW c \in Callers, Search(c) \/ Unavailable(c)
  PROVE  IInv'
  <1>1. /\ state' = Woken
        /\ UNCHANGED <<since, holder, pc, acct, op, left, lastErr>>
        /\ used' \in [Accounts -> Nat]
    BY DEF Search, Unavailable, call, IInv, TypeOK
  <1> QED
    BY <1>1, WokenType, AccountFacts DEF IInv, TypeOK, CallInv, NeverInv, ActiveIsRested

(* the charge of a request,                                                *)
LEMMA ChargeKeeps ==
  ASSUME IInv, NEW c \in Callers, Charge(c)
  PROVE  IInv'
  BY PoolAssumption DEF Charge, IInv, TypeOK, CallInv, NeverInv, ActiveIsRested

(* a success with its second charge,                                       *)
LEMMA SucceedKeeps ==
  ASSUME IInv, NEW c \in Callers, Succeed(c)
  PROVE  IInv'
  <1>1. acct[c] \in Accounts /\ Hangup(c) /\ Unlock(c)
    BY DEF Succeed, IInv, TypeOK, CallInv
  <1>2. used' \in [Accounts -> Nat] /\ UNCHANGED <<state, since>>
    BY <1>1 DEF Succeed, ReleaseSuccess, IInv, TypeOK
  <1> QED
    BY <1>1, <1>2, HangupType, UnlockType DEF IInv, TypeOK, NeverInv, ActiveIsRested

(* a body that says the profile is gone,                                   *)
LEMMA GoneKeeps ==
  ASSUME IInv, NEW c \in Callers, Gone(c)
  PROVE  IInv'
  <1>1. pc[c] # "idle" /\ holder' \in [Accounts -> Callers \cup {Nobody}]
    BY UnlockType DEF Gone
  <1>2. CASE left[c] > 0
    <2>1. left[c] \in 1 .. Endpoints /\ lastErr[c] \in Error \cup {NoError}
      BY <1>2, PoolAssumption DEF IInv, TypeOK
    <2> QED
      BY <1>1, <1>2, <2>1, NextEndpointKeeps DEF Gone
  <1>3. CASE ~(left[c] > 0)
    BY <1>1, <1>3, FailKeeps DEF Gone
  <1> QED
    BY <1>2, <1>3

(* an exception that skips release,                                        *)
LEMMA CrashKeeps ==
  ASSUME IInv, NEW c \in Callers, Crash(c)
  PROVE  IInv'
  BY HangupType, UnlockType DEF Crash, pool, IInv, TypeOK, NeverInv, ActiveIsRested

(* and the clock.                                                          *)
LEMMA TickKeeps ==
  ASSUME IInv, Tick
  PROVE  IInv'
  BY AccountFacts DEF Tick, call, IInv, TypeOK, CallInv, NeverInv, ActiveIsRested

(* Every step keeps the invariant.                                         *)
LEMMA StepIInv == IInv /\ [Next]_vars => IInv'
  <1> SUFFICES ASSUME IInv, [Next]_vars
               PROVE  IInv'
    OBVIOUS
  <1>1. ASSUME NEW c \in Callers, Scan(c) PROVE IInv'
    BY <1>1, AcquireKeeps, SearchKeeps DEF Scan
  <1>2. ASSUME NEW c \in Callers, Charge(c) PROVE IInv'
    BY <1>2, ChargeKeeps
  <1>3. ASSUME NEW c \in Callers, NEW e \in Error, NEW gone \in BOOLEAN,
               LoginFails(c, e, gone)
        PROVE  IInv'
    <2>1. left[c] - 1 \in 0 .. Endpoints /\ pc[c] # "idle"
      BY <1>3, PoolAssumption DEF LoginFails, IInv, TypeOK, CallInv
    <2>2. holder' \in [Accounts -> Callers \cup {Nobody}]
      BY <1>3 DEF LoginFails, IInv, TypeOK
    <2> QED
      BY <1>3, <2>1, <2>2, RaiseKeeps DEF LoginFails
  <1>4. ASSUME NEW c \in Callers, NEW e \in Error, NEW gone \in BOOLEAN,
               RequestFails(c, e, gone)
        PROVE  IInv'
    <2>1. left[c] \in 0 .. Endpoints /\ pc[c] # "idle"
      BY <1>4 DEF RequestFails, IInv, TypeOK
    <2> QED
      BY <1>4, <2>1, UnlockType, RaiseKeeps DEF RequestFails
  <1>5. ASSUME NEW c \in Callers, Ends(c) PROVE IInv'
    BY <1>5, <1>4, SucceedKeeps, GoneKeeps DEF Ends
  <1>6. ASSUME NEW c \in Callers, Crash(c) PROVE IInv'
    BY <1>6, CrashKeeps
  <1>7. CASE Tick
    BY <1>7, TickKeeps
  <1>8. CASE ResetDailyCounts
    BY <1>8 DEF ResetDailyCounts, call, IInv, TypeOK, CallInv, NeverInv, ActiveIsRested
  <1>9. CASE UNCHANGED vars
    BY <1>9 DEF vars, pool, call, IInv, TypeOK, CallInv, NeverInv, ActiveIsRested
  <1> QED
    BY <1>1, <1>2, <1>3, <1>5, <1>6, <1>7, <1>8, <1>9 DEF Next

(* The types of the pool and of its calls (account.py:11-29).              *)
THEOREM PoolTypeOK == Spec => []TypeOK
  <1>1. IInv => TypeOK
    BY DEF IInv
  <1> QED
    BY InitIInv, StepIInv, <1>1, PTL DEF Spec

(* An account is never put back in rotation before its cooldown is over,   *)
(* whatever was in flight when it was rate limited (account_pool.py:74-78, *)
(* 102-122).                                                               *)
THEOREM PoolActiveIsRested == Spec => []ActiveIsRested
  <1>1. IInv => ActiveIsRested
    BY DEF IInv
  <1> QED
    BY InitIInv, StepIInv, <1>1, PTL DEF Spec

(* A challenge is taken off an account only by a call that was in flight   *)
(* on it, and only into cooldown (account_pool.py:109-122).                *)
THEOREM PoolRevivedByLateCall == Spec => RevivedByLateCall
  <1> DEFINE Revived ==
        \A a \in Accounts :
          state[a] = "challenged" /\ state'[a] # "challenged" =>
            /\ state'[a] = "cooldown"
            /\ \E c \in Callers : acct[c] = a /\ pc[c] # "idle" /\ pc'[c] = "idle"
  <1>1. ASSUME IInv, state' \in {state, Woken} PROVE Revived
    BY <1>1, AccountFacts DEF Woken, IInv, TypeOK
  <1>2. ASSUME IInv, NEW c \in Callers, NEW e, pc[c] # "idle", Fail(c, e) PROVE Revived
    <2>1. acct[c] \in Accounts
      BY <1>2 DEF IInv, TypeOK, CallInv
    <2>2. pc'[c] = "idle"
      BY <1>2 DEF Fail, Hangup, IInv, TypeOK
    <2>3. \A a \in Accounts : state'[a] # state[a] => a = acct[c] /\ state'[a] \in {"cooldown", "challenged"}
      BY <1>2, <2>1 DEF Fail, ReleaseFailure, IInv, TypeOK
    <2> QED
      BY <1>2, <2>1, <2>2, <2>3
  <1>3. ASSUME IInv, NEW c \in Callers, NEW e, NEW rest, NEW gone \in BOOLEAN,
               pc[c] # "idle", Raise(c, rest, e, gone)
        PROVE  Revived
    BY <1>1, <1>2, <1>3 DEF Raise, NextEndpoint, pool
  <1>4. ASSUME IInv, NEW c \in Callers, Gone(c) PROVE Revived
    BY <1>1, <1>2, <1>4 DEF Gone, NextEndpoint, pool
  <1>5. IInv /\ [Next]_vars => [Revived]_vars
    <2> SUFFICES ASSUME IInv, Next PROVE Revived
      OBVIOUS
    <2>1. ASSUME NEW c \in Callers, Scan(c) PROVE Revived
      BY <1>1, <2>1 DEF Scan, Acquire, Search, Unavailable
    <2>2. ASSUME NEW c \in Callers, Charge(c) \/ Crash(c) \/ Succeed(c) PROVE Revived
      BY <1>1, <2>2 DEF Charge, Crash, Succeed, ReleaseSuccess, pool
    <2>3. ASSUME NEW c \in Callers, NEW e \in Error, NEW gone \in BOOLEAN,
                 LoginFails(c, e, gone) \/ RequestFails(c, e, gone)
          PROVE  Revived
      BY <1>3, <2>3 DEF LoginFails, RequestFails
    <2>4. CASE Tick \/ ResetDailyCounts
      BY <1>1, <2>4 DEF Tick, ResetDailyCounts
    <2> HIDE DEF Revived
    <2> QED
      BY <1>4, <2>1, <2>2, <2>3, <2>4 DEF Next, Ends
  <1> QED
    BY InitIInv, StepIInv, <1>5, PTL DEF Spec, RevivedByLateCall

-----------------------------------------------------------------------------
(* How the steps move the charges still to come *)

(* Any set of permits is finite and has at most CallCost for each caller.  *)
LEMMA BoundedSubset ==
  ASSUME NEW S \in SUBSET (Callers \X (1 .. CallCost))
  PROVE  /\ IsFiniteSet(S)
         /\ Cardinality(S) \in Nat
         /\ Cardinality(S) <= Cardinality(Callers) * CallCost
         /\ CallCost \in Nat /\ Cardinality(Callers) \in Nat
  <1>1. CallCost \in Nat /\ IsFiniteSet(1 .. CallCost) /\ Cardinality(1 .. CallCost) = CallCost
    BY PoolAssumption, FS_Interval DEF CallCost
  <1>2. IsFiniteSet(Callers) /\ Cardinality(Callers) \in Nat
    BY PoolAssumption, FS_CardinalityType
  <1>3. /\ IsFiniteSet(Callers \X (1 .. CallCost))
        /\ Cardinality(Callers \X (1 .. CallCost)) = Cardinality(Callers) * CallCost
    BY <1>1, <1>2, FS_Product
  <1> QED
    BY <1>1, <1>2, <1>3, FS_Subset, FS_CardinalityType

(* So is the set of charges to come of an account,                         *)
LEMMA OutstandingFinite ==
  ASSUME NEW a \in Accounts
  PROVE  /\ IsFiniteSet(Outstanding(a))
         /\ Cardinality(Outstanding(a)) \in Nat
         /\ Cardinality(Outstanding(a)) <= Cardinality(Callers) * CallCost
         /\ CallCost \in Nat /\ Cardinality(Callers) \in Nat
  <1>1. Outstanding(a) \in SUBSET (Callers \X (1 .. CallCost))
    BY DEF Outstanding, CallCost
  <1> QED
    BY <1>1, BoundedSubset

(* also after a step.                                                      *)
LEMMA NextOutstandingFinite ==
  ASSUME NEW a \in Accounts
  PROVE  /\ Cardinality(Outstanding(a)') \in Nat
         /\ Cardinality(Outstanding(a)') <= Cardinality(Callers) * CallCost
  <1>1. Outstanding(a)' \in SUBSET (Callers \X (1 .. CallCost))
    BY DEF Outstanding, CallCost
  <1> QED
    BY <1>1, BoundedSubset

(* Choosing an account gives it the charges of one call, others none.      *)
LEMMA AcquireOutstanding ==
  ASSUME IInv, NEW c \in Callers, NEW o \in Op, Acquire(c, o),
         NEW b \in Accounts, acct' = [acct EXCEPT ![c] = b], NEW a \in Accounts
  PROVE  IF a = b
           THEN /\ {p \in Outstanding(a) : p[1] = c} = {}
                /\ \E n \in 0 .. CallCost :
                     Outstanding(a)' = Outstanding(a) \cup ({c} \X (1 .. n))
           ELSE Outstanding(a)' = Outstanding(a)
  <1>1. acct[c] = None /\ acct \in [Callers -> Accounts \cup {None}] /\ None \notin Accounts
    BY AccountFacts DEF Acquire, IInv, TypeOK, CallInv
  <1> DEFINE n == left'[c] + 1
  <1>2. left' = [left EXCEPT ![c] = left'[c]] /\ n \in 0 .. CallCost /\ n <= Endpoints + 1
    BY PoolAssumption DEF Acquire, IInv, TypeOK, CallCost
  <1>3. CASE a = b
    <2>1. {p \in Outstanding(a) : p[1] = c} = {}
      BY <1>1 DEF Outstanding
    <2>2. Outstanding(a)' = Outstanding(a) \cup ({c} \X (1 .. n))
      BY <1>1, <1>2, <1>3, PoolAssumption DEF Outstanding, IInv, TypeOK
    <2> QED
      BY <1>2, <1>3, <2>1, <2>2
  <1>4. CASE a # b
    BY <1>1, <1>2, <1>4 DEF Outstanding, IInv, TypeOK
  <1> QED
    BY <1>3, <1>4

(* A call that ends gives up all its charges,                              *)
LEMMA HangupOutstanding ==
  ASSUME IInv, NEW c \in Callers, pc[c] # "idle", Hangup(c), NEW a \in Accounts
  PROVE  /\ Outstanding(a)' \subseteq Outstanding(a)
         /\ a = acct[c] => Outstanding(a)' # Outstanding(a)
  <1>1. acct'[c] = None /\ None \notin Accounts
    BY AccountFacts DEF Hangup, IInv, TypeOK
  <1>2. Outstanding(a)' \subseteq Outstanding(a)
    BY <1>1 DEF Hangup, IInv, TypeOK, Outstanding
  <1>3. ASSUME a = acct[c] PROVE Outstanding(a)' # Outstanding(a)
    <2> DEFINE last == <<c, 1>>
    <2>1. last \in Outstanding(a)
      BY <1>3, PoolAssumption DEF IInv, TypeOK, Outstanding
    <2>2. last \notin Outstanding(a)'
      BY <1>1 DEF Outstanding
    <2> QED
      BY <2>1, <2>2
  <1> QED
    BY <1>2, <1>3

(* one that goes on may give up some,                                      *)
LEMMA NextEndpointOutstanding ==
  ASSUME IInv, NEW c \in Callers, NEW e, NEW rest \in 0 .. left[c],
         NextEndpoint(c, rest, e), NEW a \in Accounts
  PROVE  Outstanding(a)' \subseteq Outstanding(a)
  BY PoolAssumption DEF NextEndpoint, IInv, TypeOK, Outstanding

(* and a charge gives up one.                                              *)
LEMMA ChargeOutstanding ==
  ASSUME IInv, NEW c \in Callers, Charge(c), NEW a \in Accounts
  PROVE  /\ Outstanding(a)' \subseteq Outstanding(a)
         /\ a = acct[c] => Outstanding(a)' # Outstanding(a)
  <1>1. left' = [left EXCEPT ![c] = left[c] - 1] /\ acct' = acct
    BY DEF Charge, IInv, TypeOK
  <1>2. left[c] \in 0 .. Endpoints /\ left \in [Callers -> 0 .. Endpoints]
    BY DEF IInv, TypeOK
  <1>3. Outstanding(a)' \subseteq Outstanding(a)
    BY <1>1, <1>2, PoolAssumption DEF Outstanding
  <1>4. ASSUME a = acct[c] PROVE Outstanding(a)' # Outstanding(a)
    <2> DEFINE spent == <<c, left[c] + 1>>
    <2>1. spent \in Outstanding(a)
      BY <1>2, <1>4, PoolAssumption DEF Outstanding
    <2>2. spent \notin Outstanding(a)'
      BY <1>1, <1>2, PoolAssumption DEF Outstanding
    <2> QED
      BY <2>1, <2>2
  <1> QED
    BY <1>3, <1>4

-----------------------------------------------------------------------------
(* Every account of the pool is an admission ledger *)

(* A step inside a call charges its account at most once and pays for it.  *)
LEMMA UnchargedSpend ==
  ASSUME IInv, NEW a \in Accounts, used' = used,
         Outstanding(a)' \subseteq Outstanding(a)
  PROVE  Ledger(a)!Spend
  <1>1. used'[a] = used[a] + 0 /\ 0 \in 0 .. 1
    BY DEF IInv, TypeOK
  <1> QED
    BY <1>1 DEF Ledger!Spend

(* A step that charges one request and gives a permit up is a Spend.       *)
LEMMA ChargedSpend ==
  ASSUME IInv, NEW c \in Callers, acct[c] \in Accounts, NEW a \in Accounts,
         used' = [used EXCEPT ![acct[c]] = @ + 1],
         Outstanding(a)' \subseteq Outstanding(a),
         a = acct[c] => Outstanding(a)' # Outstanding(a)
  PROVE  Ledger(a)!Spend
  <1>1. CASE a = acct[c]
    <2>1. used'[a] = used[a] + 1 /\ 1 \in 0 .. 1
      BY <1>1 DEF IInv, TypeOK
    <2> QED
      BY <1>1, <2>1 DEF Ledger!Spend
  <1>2. CASE a # acct[c]
    <2>1. used'[a] = used[a] + 0 /\ 0 \in 0 .. 1
      BY <1>2 DEF IInv, TypeOK
    <2> QED
      BY <2>1 DEF Ledger!Spend
  <1> QED
    BY <1>1, <1>2

(* Acquire is an Admit of the chosen account, and a stutter of the others. *)
LEMMA AcquireMaps ==
  ASSUME IInv, NEW c \in Callers, NEW o \in Op, Acquire(c, o), NEW a \in Accounts
  PROVE  [Ledger(a)!Next]_(Ledger(a)!vars)
  <1>1. PICK b \in Accounts : Best(b) /\ acct' = [acct EXCEPT ![c] = b]
    BY DEF Acquire
  <1>2. used' = used
    BY DEF Acquire
  <1>3. CASE a = b
    <2>1. used[a] < Cap[a] /\ used'[a] = used[a] + 0 /\ 0 \in 0 .. 1
      BY <1>1, <1>2, <1>3 DEF Best, Eligible, IInv, TypeOK
    <2>2. {p \in Outstanding(a) : p[1] = c} = {}
      BY <1>1, <1>3, AcquireOutstanding
    <2>3. PICK n \in 0 .. CallCost : Outstanding(a)' = Outstanding(a) \cup ({c} \X (1 .. n))
      BY <1>1, <1>3, AcquireOutstanding
    <2>4. 0 + n <= CallCost
      BY <2>3, PoolAssumption DEF CallCost
    <2>5. Ledger(a)!Admit(c)
      BY <2>1, <2>2, <2>3, <2>4 DEF Ledger!Admit, Ledger!PermitsOf
    <2> QED
      BY <2>5 DEF Ledger!Next
  <1>4. CASE a # b
    BY <1>1, <1>2, <1>4, AcquireOutstanding DEF Ledger!vars
  <1> QED
    BY <1>3, <1>4

(* A search, charged at once, is an Admit without permits.                 *)
LEMMA SearchMaps ==
  ASSUME IInv, NEW c \in Callers, Search(c), NEW a \in Accounts
  PROVE  [Ledger(a)!Next]_(Ledger(a)!vars)
  <1>1. PICK b \in Accounts : Best(b) /\ used' = [used EXCEPT ![b] = @ + 1]
    BY DEF Search
  <1>2. Outstanding(a)' = Outstanding(a)
    BY DEF Search, call, Outstanding
  <1>3. CASE a = b
    <2>1. used[a] < Cap[a] /\ used'[a] = used[a] + 1 /\ 1 \in 0 .. 1
      BY <1>1, <1>3 DEF Best, Eligible, IInv, TypeOK
    <2>2. Ledger(a)!PermitsOf(c) = {}
      BY AccountFacts DEF Ledger!PermitsOf, Outstanding, Search, IInv, TypeOK, CallInv
    <2>3. Outstanding(a)' = Outstanding(a) \cup ({c} \X (1 .. 0)) /\ 0 \in 0 .. CallCost /\ 1 + 0 <= CallCost
      BY <1>2, PoolAssumption DEF CallCost
    <2>4. Ledger(a)!Admit(c)
      BY <2>1, <2>2, <2>3 DEF Ledger!Admit
    <2> QED
      BY <2>4 DEF Ledger!Next
  <1>4. CASE a # b
    BY <1>1, <1>2, <1>4 DEF Ledger!vars, IInv, TypeOK
  <1> QED
    BY <1>3, <1>4

(* A call that ends charges nothing and gives its permits up,              *)
LEMMA FailMaps ==
  ASSUME IInv, NEW c \in Callers, NEW e, pc[c] # "idle", Fail(c, e), NEW a \in Accounts
  PROVE  Ledger(a)!Spend
  BY HangupOutstanding, UnchargedSpend DEF Fail, ReleaseFailure

(* and so does one that fails at an endpoint.                              *)
LEMMA RaiseMaps ==
  ASSUME IInv, NEW c \in Callers, NEW e, NEW gone, NEW rest \in 0 .. left[c],
         pc[c] # "idle", Raise(c, rest, e, gone), NEW a \in Accounts
  PROVE  Ledger(a)!Spend
  <1>1. CASE NextEndpoint(c, rest, e)
    BY <1>1, NextEndpointOutstanding, UnchargedSpend DEF NextEndpoint, pool
  <1>2. CASE Fail(c, e)
    BY <1>2, FailMaps
  <1> QED
    BY <1>1, <1>2 DEF Raise

(* The steps of a call that has its account.                               *)
InCall(c) ==
  \/ Charge(c)
  \/ \E e \in Error, gone \in BOOLEAN : LoginFails(c, e, gone)
  \/ Ends(c)
  \/ Crash(c)

(* Every step within a call is a Spend, perhaps of nothing.                *)
LEMMA InCallMaps ==
  ASSUME IInv, NEW c \in Callers, InCall(c), NEW a \in Accounts
  PROVE  Ledger(a)!Spend
  <1>1. CASE Charge(c)
    <2>1. acct[c] \in Accounts
      BY <1>1 DEF Charge, IInv, TypeOK, CallInv
    <2> QED
      BY <1>1, <2>1, ChargeOutstanding, ChargedSpend DEF Charge
  <1>2. ASSUME NEW e \in Error, NEW gone \in BOOLEAN, LoginFails(c, e, gone)
        PROVE  Ledger(a)!Spend
    <2>1. left[c] - 1 \in 0 .. left[c] /\ pc[c] # "idle"
      BY <1>2, PoolAssumption DEF LoginFails, IInv, TypeOK, CallInv
    <2> QED
      BY <1>2, <2>1, RaiseMaps DEF LoginFails
  <1>3. CASE Succeed(c)
    <2>1. pc[c] # "idle" /\ acct[c] \in Accounts /\ Hangup(c)
      BY <1>3 DEF Succeed, IInv, TypeOK, CallInv
    <2> QED
      BY <1>3, <2>1, HangupOutstanding, ChargedSpend DEF Succeed, ReleaseSuccess
  <1>4. ASSUME NEW e \in Error, NEW gone \in BOOLEAN, RequestFails(c, e, gone)
        PROVE  Ledger(a)!Spend
    <2>1. left[c] \in 0 .. left[c] /\ pc[c] # "idle"
      BY <1>4, PoolAssumption DEF RequestFails, IInv, TypeOK
    <2> QED
      BY <1>4, <2>1, RaiseMaps DEF RequestFails
  <1>5. CASE Gone(c)
    <2>1. left[c] \in 0 .. left[c] /\ pc[c] # "idle"
      BY <1>5, PoolAssumption DEF Gone, IInv, TypeOK
    <2>2. CASE NextEndpoint(c, left[c], lastErr[c])
      BY <2>1, <2>2, NextEndpointOutstanding, UnchargedSpend DEF NextEndpoint, pool
    <2> QED
      BY <1>5, <2>1, <2>2, FailMaps DEF Gone
  <1>6. CASE Crash(c)
    BY <1>6, HangupOutstanding, UnchargedSpend DEF Crash, pool
  <1> QED
    BY <1>1, <1>2, <1>3, <1>4, <1>5, <1>6 DEF InCall, Ends

(* Every step of the pool is one of the ledger, account by account.        *)
LEMMA StepMaps ==
  IInv /\ [Next]_vars => \A a \in Accounts : [Ledger(a)!Next]_(Ledger(a)!vars)
  <1> SUFFICES ASSUME IInv, [Next]_vars, NEW a \in Accounts
               PROVE  [Ledger(a)!Next]_(Ledger(a)!vars)
    OBVIOUS
  <1>1. ASSUME NEW c \in Callers, NEW o \in Op, Acquire(c, o)
        PROVE  [Ledger(a)!Next]_(Ledger(a)!vars)
    BY <1>1, AcquireMaps
  <1>2. ASSUME NEW c \in Callers, Search(c)
        PROVE  [Ledger(a)!Next]_(Ledger(a)!vars)
    BY <1>2, SearchMaps
  <1>3. ASSUME NEW c \in Callers, InCall(c)
        PROVE  [Ledger(a)!Next]_(Ledger(a)!vars)
    BY <1>3, InCallMaps DEF Ledger!Next
  <1>4. ASSUME (\E c \in Callers : Unavailable(c)) \/ Tick \/ UNCHANGED vars
        PROVE  [Ledger(a)!Next]_(Ledger(a)!vars)
    <2>1. used' = used /\ Outstanding(a)' = Outstanding(a)
      BY <1>4 DEF Unavailable, Tick, vars, pool, call, Outstanding
    <2> QED
      BY <2>1 DEF Ledger!vars
  <1>5. CASE ResetDailyCounts
    <2>1. used'[a] = 0 /\ Outstanding(a)' = Outstanding(a)
      BY <1>5 DEF ResetDailyCounts, call, Outstanding
    <2> QED
      BY <2>1 DEF Ledger!Next, Ledger!NewDay
  <1> QED
    BY <1>1, <1>2, <1>3, <1>4, <1>5 DEF Next, Scan, InCall

(* Whatever the callers interleave, each account's counter behaves like an *)
(* admission ledger: the cap is looked at once per call, and a call makes  *)
(* at most CallCost charges (account_pool.py:80, 105; login.py:373).       *)
THEOREM PoolImplementsLedger == Spec => LedgerRefined
  <1>1. Init => \A a \in Accounts : Ledger(a)!Init
    BY AccountFacts DEF Init, Ledger!Init, Outstanding
  <1>2. IInv /\ [Next]_vars
          => [\A a \in Accounts : [Ledger(a)!Next]_(Ledger(a)!vars)]_vars
    BY StepMaps
  <1> QED
    BY InitIInv, StepIInv, <1>1, <1>2, PTL DEF Spec, LedgerRefined

-----------------------------------------------------------------------------
(* How far a counter can get, and how far two counters can be apart *)

(* A Spend never lowers the counter, nor raises its sum with the charges   *)
(* to come.                                                                *)
LEMMA SpendEffect ==
  ASSUME IInv, NEW a \in Accounts, Ledger(a)!Spend
  PROVE  /\ used'[a] >= used[a]
         /\ used'[a] + Cardinality(Outstanding(a)') <= used[a] + Cardinality(Outstanding(a))
  <1>1. PICK s \in 0 .. 1, kept \in SUBSET Outstanding(a) :
          /\ s = 1 => kept # Outstanding(a)
          /\ used'[a] = used[a] + s
          /\ Outstanding(a)' = kept
    BY DEF Ledger!Spend
  <1>2. used[a] \in Nat
    BY DEF IInv, TypeOK
  <1>3. IsFiniteSet(Outstanding(a)) /\ Cardinality(Outstanding(a)) \in Nat
    BY OutstandingFinite
  <1>4. IsFiniteSet(kept) /\ Cardinality(kept) \in Nat /\ Cardinality(kept) <= Cardinality(Outstanding(a))
    BY <1>3, FS_Subset, FS_CardinalityType
  <1>5. s = 1 => Cardinality(kept) # Cardinality(Outstanding(a))
    BY <1>1, <1>3, FS_Subset
  <1> QED
    BY <1>1, <1>2, <1>3, <1>4, <1>5

(* A call that searches holds no permit, so one is missing from the total. *)
LEMMA IdleRoom ==
  ASSUME IInv, NEW c \in Callers, pc[c] = "idle", NEW a \in Accounts
  PROVE  Cardinality(Outstanding(a)) + 1 <= Cardinality(Callers) * CallCost
  <1> DEFINE all == Callers \X (1 .. CallCost)
             own == <<c, 1>>
  <1>1. CallCost \in Nat \ {0} /\ IsFiniteSet(1 .. CallCost) /\ Cardinality(1 .. CallCost) = CallCost
    BY PoolAssumption, FS_Interval DEF CallCost
  <1>2. IsFiniteSet(all) /\ Cardinality(all) = Cardinality(Callers) * CallCost
    BY <1>1, PoolAssumption, FS_Product
  <1>3. own \in all
    BY <1>1
  <1>4. Outstanding(a) \in SUBSET (all \ {own})
    BY AccountFacts DEF Outstanding, CallCost, IInv, CallInv
  <1> HIDE DEF all, own
  <1>5. IsFiniteSet(all \ {own}) /\ Cardinality(all \ {own}) = Cardinality(all) - 1
    BY <1>2, <1>3, FS_RemoveElement
  <1>6. Cardinality(Outstanding(a)) <= Cardinality(all) - 1
    BY <1>4, <1>5, FS_Subset
  <1>7. Cardinality(all) \in Nat /\ Cardinality(Outstanding(a)) \in Nat
    BY <1>2, FS_CardinalityType, OutstandingFinite
  <1> QED
    BY <1>2, <1>6, <1>7

Reach(a) == used[a] + Cardinality(Outstanding(a))

Round == Cardinality(Callers) * CallCost

(* At admission the chosen account is at most as loaded as any other that  *)
(* is in rotation; afterwards only the charges admitted by then remain.    *)
LoadInv ==
  /\ \A a \in Accounts :
       IF Cap[a] = 0 THEN Reach(a) = 0 ELSE Reach(a) <= Cap[a] - 1 + Round
  /\ \A a \in Accounts, b \in Accounts :
       since[b] = Never => Reach(a) * Cap[b] <= used[b] * Cap[a] + Round * Cap[b]

(* What one step does to the load of account a.                            *)
Admitted(a) ==
  /\ used[a] < Cap[a]
  /\ used'[a] >= used[a]
  /\ Reach(a)' <= used[a] + Round
  /\ \A b \in Accounts : since[b] = Never => used[a] * Cap[b] <= used[b] * Cap[a]

Settled(a) ==
  /\ used'[a] >= used[a]
  /\ Reach(a)' <= Reach(a)

(* The sums LoadInv speaks of are natural numbers.                         *)
LEMMA ReachFacts ==
  ASSUME IInv, NEW a \in Accounts
  PROVE  Reach(a) \in Nat /\ used[a] \in Nat /\ Cap[a] \in Nat /\ Round \in Nat
  BY OutstandingFinite, PoolAssumption DEF Reach, Round, IInv, TypeOK

(* The chosen account has the smallest ratio among those it could have     *)
(* been compared with, and the others in rotation are at their caps.       *)
LEMMA BestIsLightest ==
  ASSUME IInv, NEW a \in Accounts, Best(a), NEW b \in Accounts, since[b] = Never
  PROVE  used[a] * Cap[b] <= used[b] * Cap[a]
  <1>1. /\ used[a] \in Nat /\ used[b] \in Nat /\ Cap[a] \in Nat /\ Cap[b] \in Nat
        /\ used[a] < Cap[a]
    BY PoolAssumption DEF IInv, TypeOK, Best, Eligible
  <1>2. Woken[b] = "active"
    BY WokenType DEF IInv, NeverInv
  <1>3. CASE used[b] < Cap[b]
    <2>1. Lighter(a, b)
      BY <1>2, <1>3 DEF Best, Eligible
    <2>2. used[a] * Cap[b] \in Nat /\ used[b] * Cap[a] \in Nat
      BY <1>1
    <2> QED
      BY <2>1, <2>2 DEF Lighter
  <1>4. CASE used[b] >= Cap[b]
    <2>1. used[a] * Cap[b] <= Cap[a] * Cap[b]
      BY <1>1
    <2>2. Cap[a] * Cap[b] <= Cap[a] * used[b]
      BY <1>1, <1>4
    <2>3. Cap[a] * used[b] = used[b] * Cap[a]
      BY <1>1
    <2> QED
      BY <2>1, <2>2, <2>3, <1>1
  <1> QED
    BY <1>1, <1>3, <1>4

(* An account that never met an error has not met one before the step.     *)
LEMMA NeverStep ==
  ASSUME IInv, [Next]_vars, NEW b \in Accounts, since'[b] = Never
  PROVE  since[b] = Never
  <1>1. ASSUME NEW a \in Accounts, NEW e, ReleaseFailure(a, e) PROVE since[b] = Never
    BY <1>1, AccountFacts DEF ReleaseFailure, IInv, TypeOK
  <1>2. ASSUME NEW c \in Callers, NEW e, pc[c] # "idle", Fail(c, e) PROVE since[b] = Never
    BY <1>1, <1>2 DEF Fail, IInv, TypeOK, CallInv
  <1>3. ASSUME NEW c \in Callers, NEW e, NEW rest, NEW gone, pc[c] # "idle",
               Raise(c, rest, e, gone)
        PROVE  since[b] = Never
    BY <1>2, <1>3 DEF Raise, NextEndpoint, pool
  <1>4. ASSUME NEW c \in Callers, InCall(c) PROVE since[b] = Never
    <2>1. CASE Charge(c) \/ Succeed(c) \/ Crash(c)
      BY <2>1 DEF Charge, Succeed, ReleaseSuccess, Crash, pool
    <2>2. CASE \E e \in Error, gone \in BOOLEAN : LoginFails(c, e, gone)
      BY <2>2, <1>3 DEF LoginFails
    <2>3. CASE \E e \in Error, gone \in BOOLEAN : RequestFails(c, e, gone)
      BY <2>3, <1>3 DEF RequestFails
    <2>4. CASE Gone(c)
      BY <2>4, <1>2 DEF Gone, NextEndpoint, pool
    <2> QED
      BY <1>4, <2>1, <2>2, <2>3, <2>4 DEF InCall, Ends
  <1>5. CASE Tick
    BY <1>5, AccountFacts DEF Tick, IInv, TypeOK
  <1>6. CASE ResetDailyCounts \/ UNCHANGED vars
    BY <1>6 DEF ResetDailyCounts, vars, pool
  <1>7. ASSUME NEW c \in Callers, Scan(c) PROVE since[b] = Never
    BY <1>7 DEF Scan, Acquire, Search, Unavailable
  <1> QED
    BY <1>4, <1>5, <1>6, <1>7 DEF Next, InCall

(* An account nothing happened to is settled.                              *)
LEMMA UnmovedSettled ==
  ASSUME IInv, NEW a \in Accounts, used'[a] = used[a], Outstanding(a)' = Outstanding(a)
  PROVE  Settled(a)
  BY ReachFacts DEF Settled, Reach

(* A step settles an account unless it admits a call to it: acquire,       *)
LEMMA AcquireLoads ==
  ASSUME IInv, NEW c \in Callers, NEW o \in Op, Acquire(c, o), NEW a \in Accounts
  PROVE  Settled(a) \/ Admitted(a)
  <1>1. PICK b \in Accounts : Best(b) /\ acct' = [acct EXCEPT ![c] = b]
    BY DEF Acquire
  <1>2. used' = used
    BY DEF Acquire
  <1>3. CASE a = b
    <2>1. used[a] < Cap[a]
      BY <1>1, <1>3 DEF Best, Eligible
    <2>2. Cardinality(Outstanding(a)') <= Round
      BY NextOutstandingFinite DEF Round
    <2>3. Cardinality(Outstanding(a)') \in Nat /\ used[a] \in Nat /\ Round \in Nat
      BY NextOutstandingFinite, ReachFacts
    <2>4. Reach(a)' <= used[a] + Round
      BY <1>2, <2>2, <2>3 DEF Reach
    <2> QED
      BY <1>1, <1>2, <1>3, <2>1, <2>3, <2>4, BestIsLightest DEF Admitted
  <1>4. CASE a # b
    BY <1>1, <1>2, <1>4, AcquireOutstanding, UnmovedSettled
  <1> QED
    BY <1>3, <1>4

(* a search,                                                               *)
LEMMA SearchLoads ==
  ASSUME IInv, NEW c \in Callers, Search(c), NEW a \in Accounts
  PROVE  Settled(a) \/ Admitted(a)
  <1>1. PICK b \in Accounts : Best(b) /\ used' = [used EXCEPT ![b] = @ + 1]
    BY DEF Search
  <1>2. Outstanding(a)' = Outstanding(a)
    BY DEF Search, call, Outstanding
  <1>3. CASE a = b
    <2>1. used[a] < Cap[a] /\ used'[a] = used[a] + 1
      BY <1>1, <1>3 DEF Best, Eligible, IInv, TypeOK
    <2>2. Cardinality(Outstanding(a)) + 1 <= Round
      BY IdleRoom DEF Search, Round
    <2>3. Reach(a)' <= used[a] + Round
      BY <1>2, <2>1, <2>2, OutstandingFinite, ReachFacts DEF Reach
    <2> QED
      BY <1>1, <1>3, <2>1, <2>3, BestIsLightest, ReachFacts DEF Admitted
  <1>4. CASE a # b
    BY <1>1, <1>2, <1>4, UnmovedSettled DEF IInv, TypeOK
  <1> QED
    BY <1>3, <1>4

(* a step within a call,                                                   *)
LEMMA InCallLoads ==
  ASSUME IInv, NEW c \in Callers, InCall(c), NEW a \in Accounts
  PROVE  Settled(a)
  BY InCallMaps, SpendEffect DEF Settled, Reach

(* and any step but the daily reset.                                       *)
LEMMA StepLoads ==
  ASSUME IInv, [Next]_vars, ~ResetDailyCounts, NEW a \in Accounts
  PROVE  Settled(a) \/ Admitted(a)
  <1>1. ASSUME NEW c \in Callers, NEW o \in Op, Acquire(c, o)
        PROVE  Settled(a) \/ Admitted(a)
    BY <1>1, AcquireLoads
  <1>2. ASSUME NEW c \in Callers, Search(c)
        PROVE  Settled(a) \/ Admitted(a)
    BY <1>2, SearchLoads
  <1>3. ASSUME NEW c \in Callers, InCall(c)
        PROVE  Settled(a)
    BY <1>3, InCallLoads
  <1>4. ASSUME (\E c \in Callers : Unavailable(c)) \/ Tick \/ UNCHANGED vars
        PROVE  Settled(a)
    <2>1. used'[a] = used[a] /\ Outstanding(a)' = Outstanding(a)
      BY <1>4 DEF Unavailable, Tick, vars, pool, call, Outstanding
    <2> QED
      BY <2>1, UnmovedSettled
  <1> QED
    BY <1>1, <1>2, <1>3, <1>4 DEF Next, Scan, InCall

(* Multiplying out: x <= y is kept by a factor.                            *)
LEMMA Times ==
  ASSUME NEW x \in Nat, NEW y \in Nat, NEW k \in Nat, x <= y
  PROVE  x * k <= y * k /\ x * k \in Nat /\ y * k \in Nat
  OBVIOUS

(* Two accounts that are settled or admitted stay balanced.                *)
LEMMA LoadKept ==
  ASSUME IInv, IInv', LoadInv, NEW a \in Accounts, NEW b \in Accounts,
         Settled(a) \/ Admitted(a), Settled(b) \/ Admitted(b), since[b] = Never
  PROVE  Reach(a)' * Cap[b] <= used'[b] * Cap[a] + Round * Cap[b]
  <1>1. /\ used[a] \in Nat /\ used[b] \in Nat /\ Cap[a] \in Nat /\ Cap[b] \in Nat
        /\ Round \in Nat /\ Reach(a) \in Nat
    BY ReachFacts
  <1>2. used'[b] \in Nat /\ used'[a] \in Nat
    BY DEF IInv, TypeOK
  <1>3. Reach(a)' \in Nat
    BY <1>2, NextOutstandingFinite DEF Reach
  <1>4. used[b] * Cap[a] <= used'[b] * Cap[a] /\ used[b] * Cap[a] \in Nat /\ used'[b] * Cap[a] \in Nat
    BY <1>1, <1>2, Times DEF Settled, Admitted
  <1>5. CASE Settled(a)
    <2>1. Reach(a)' * Cap[b] <= Reach(a) * Cap[b]
      BY <1>1, <1>3, <1>5, Times DEF Settled
    <2>2. Reach(a) * Cap[b] <= used[b] * Cap[a] + Round * Cap[b]
      BY DEF LoadInv
    <2>3. /\ Reach(a)' * Cap[b] \in Nat /\ Reach(a) * Cap[b] \in Nat /\ Round * Cap[b] \in Nat
      BY <1>1, <1>3
    <2> QED
      BY <1>4, <2>1, <2>2, <2>3
  <1>6. CASE Admitted(a)
    <2>1. Reach(a)' * Cap[b] <= (used[a] + Round) * Cap[b]
      <3>1. Reach(a)' <= used[a] + Round /\ used[a] + Round \in Nat
        BY <1>1, <1>6 DEF Admitted
      <3> QED
        BY <1>1, <1>3, <3>1, Times
    <2>2. (used[a] + Round) * Cap[b] = used[a] * Cap[b] + Round * Cap[b]
      BY <1>1
    <2>3. used[a] * Cap[b] <= used[b] * Cap[a]
      BY <1>6 DEF Admitted
    <2>4. /\ Reach(a)' * Cap[b] \in Nat /\ used[a] * Cap[b] \in Nat /\ Round * Cap[b] \in Nat
      BY <1>1, <1>3
    <2> QED
      BY <1>4, <2>1, <2>2, <2>3, <2>4
  <1> QED
    BY <1>5, <1>6

(* Each of them stays below its ceiling.                                   *)
LEMMA CeilingKept ==
  ASSUME IInv, LoadInv, NEW a \in Accounts, IInv', Settled(a) \/ Admitted(a)
  PROVE  IF Cap[a] = 0 THEN Reach(a)' = 0 ELSE Reach(a)' <= Cap[a] - 1 + Round
  <1>1. /\ used[a] \in Nat /\ Cap[a] \in Nat /\ Round \in Nat /\ Reach(a) \in Nat
    BY ReachFacts
  <1>2. Reach(a)' \in Nat
    BY NextOutstandingFinite DEF Reach, IInv, TypeOK
  <1>3. IF Cap[a] = 0 THEN Reach(a) = 0 ELSE Reach(a) <= Cap[a] - 1 + Round
    BY DEF LoadInv
  <1> QED
    BY <1>1, <1>2, <1>3 DEF Settled, Admitted

(* The daily reset keeps both,                                             *)
LEMMA ResetLoads ==
  ASSUME IInv, IInv', LoadInv, ResetDailyCounts
  PROVE  LoadInv'
  <1>1. ASSUME NEW a \in Accounts
        PROVE  /\ used'[a] = 0
               /\ Reach(a)' = Cardinality(Outstanding(a))
               /\ Reach(a)' \in Nat /\ Reach(a)' <= Round
               /\ Cap[a] \in Nat /\ Round \in Nat
               /\ Cap[a] = 0 => Reach(a)' = 0
    <2>1. used'[a] = 0 /\ Outstanding(a)' = Outstanding(a)
      BY DEF ResetDailyCounts, call, Outstanding
    <2>2. Cardinality(Outstanding(a)) \in Nat /\ Cardinality(Outstanding(a)) <= Round
      BY OutstandingFinite DEF Round
    <2>3. Reach(a)' = Cardinality(Outstanding(a))
      BY <2>1, <2>2 DEF Reach
    <2>4. Cap[a] = 0 => Reach(a) = 0
      BY DEF LoadInv
    <2>5. used[a] \in Nat /\ Cap[a] \in Nat /\ Round \in Nat
      BY ReachFacts
    <2>6. Cap[a] = 0 => Cardinality(Outstanding(a)) = 0
      BY <2>2, <2>4, <2>5 DEF Reach
    <2> QED
      BY <2>1, <2>2, <2>3, <2>5, <2>6
  <1>2. ASSUME NEW a \in Accounts
        PROVE  IF Cap[a] = 0 THEN Reach(a)' = 0 ELSE Reach(a)' <= Cap[a] - 1 + Round
    BY <1>1
  <1>3. ASSUME NEW a \in Accounts, NEW b \in Accounts
        PROVE  Reach(a)' * Cap[b] <= used'[b] * Cap[a] + Round * Cap[b]
    <2>1. Reach(a)' * Cap[b] <= Round * Cap[b] /\ Round * Cap[b] \in Nat
      BY <1>1, Times
    <2>2. used'[b] * Cap[a] = 0
      BY <1>1
    <2> QED
      BY <2>1, <2>2
  <1> QED
    BY <1>2, <1>3 DEF LoadInv, Round, CallCost

(* and with it every step.                                                 *)
LEMMA StepLoadInv == IInv /\ IInv' /\ LoadInv /\ [Next]_vars => LoadInv'
  <1> SUFFICES ASSUME IInv, IInv', LoadInv, [Next]_vars
               PROVE  LoadInv'
    OBVIOUS
  <1>1. CASE ResetDailyCounts
    BY <1>1, ResetLoads
  <1>2. CASE ~ResetDailyCounts
    <2>1. \A a \in Accounts : Settled(a) \/ Admitted(a)
      BY <1>2, StepLoads
    <2>2. \A a \in Accounts :
            IF Cap[a] = 0 THEN Reach(a)' = 0 ELSE Reach(a)' <= Cap[a] - 1 + Round
      BY <2>1, CeilingKept
    <2>3. ASSUME NEW a \in Accounts, NEW b \in Accounts, since'[b] = Never
          PROVE  Reach(a)' * Cap[b] <= used'[b] * Cap[a] + Round * Cap[b]
      BY <2>1, <2>3, NeverStep, LoadKept
    <2> QED
      BY <2>2, <2>3 DEF LoadInv, Round, CallCost, Never
  <1> QED
    BY <1>1, <1>2

(* Nothing is charged at the start.                                        *)
LEMMA InitLoadInv == Init => LoadInv
  <1> SUFFICES ASSUME Init
               PROVE  LoadInv
    OBVIOUS
  <1>1. IInv
    BY InitIInv
  <1>2. ASSUME NEW a \in Accounts
        PROVE  Reach(a) = 0 /\ used[a] = 0
    <2>1. Outstanding(a) = {}
      BY AccountFacts DEF Init, Outstanding
    <2> QED
      BY <2>1, FS_EmptySet DEF Init, Reach
  <1>3. ASSUME NEW a \in Accounts, NEW b \in Accounts
        PROVE  Reach(a) * Cap[b] <= used[b] * Cap[a] + Round * Cap[b]
    <2>1. Cap[a] \in Nat /\ Cap[b] \in Nat /\ Round \in Nat
      BY <1>1, ReachFacts
    <2>2. Round * Cap[b] \in Nat
      BY <2>1
    <2> QED
      BY <1>2, <2>1, <2>2
  <1>4. ASSUME NEW a \in Accounts
        PROVE  IF Cap[a] = 0 THEN Reach(a) = 0 ELSE Reach(a) <= Cap[a] - 1 + Round
    BY <1>1, <1>2, ReachFacts
  <1> QED
    BY <1>3, <1>4 DEF LoadInv

(* Both invariants hold always.                                            *)
LEMMA SpecLoadInv == Spec => [](IInv /\ LoadInv)
  BY InitIInv, StepIInv, InitLoadInv, StepLoadInv, PTL DEF Spec

(* However the callers interleave, an account's counter gets no further    *)
(* beyond its cap than one round of calls, for any number of callers       *)
(* (account_pool.py:80, 105; login.py:373).                                *)
THEOREM PoolUsedBounded == Spec => []UsedBounded
  <1>1. IInv /\ LoadInv => UsedBounded
    <2> SUFFICES ASSUME IInv, LoadInv, NEW a \in Accounts
                 PROVE  used[a] <= IF Cap[a] = 0 THEN 0 ELSE Cap[a] - 1 + Round
      BY DEF UsedBounded, Round
    <2>1. IF Cap[a] = 0 THEN Reach(a) = 0 ELSE Reach(a) <= Cap[a] - 1 + Round
      BY DEF LoadInv
    <2>2. Cardinality(Outstanding(a)) \in Nat
      BY OutstandingFinite
    <2> QED
      BY <2>1, <2>2, ReachFacts DEF Reach
  <1> QED
    BY SpecLoadInv, <1>1, PTL

(* Choosing the smallest ratio balances the pool: an account gets ahead of *)
(* one that never left rotation by at most one round of calls, for any     *)
(* numbers of accounts, callers and caps (account_pool.py:83-86).          *)
THEOREM PoolBalanced == Spec => []Balanced
  <1>1. IInv /\ LoadInv => Balanced
    BY DEF LoadInv, Balanced, Reach, Round
  <1> QED
    BY SpecLoadInv, <1>1, PTL

-----------------------------------------------------------------------------
(* What becomes of a call: the part of CallsEnd that needs no fairness *)

(* An account's lock is held for the call that has a request under way on  *)
(* it, and for no other (login.py:371-429): there is one request at a time *)
(* on an account, and nobody keeps the lock of one it has left.            *)
LockInUse ==
  \A a \in Accounts, c \in Callers :
    holder[a] = c <=> pc[c] = "requesting" /\ acct[c] = a

(* The steps a call may still take: two for each endpoint.                 *)
StepsLeft(c) ==
  CASE pc[c] = "idle"       -> 0
    [] pc[c] = "fetching"   -> 2 * left[c]
    [] pc[c] = "requesting" -> 2 * left[c] + 1

(* A call in flight has steps left, at most those of all its endpoints.    *)
StepsBounded ==
  \A c \in Callers :
    StepsLeft(c) \in 0 .. 2 * Endpoints /\ (StepsLeft(c) = 0 <=> pc[c] = "idle")

(* A step of the call uses one up, however the endpoint fails; no step of  *)
(* another call, of the clock or of the reset gives it one back.           *)
StepFall ==
  \A c \in Callers :
    pc[c] # "idle" => StepsLeft(c)' < StepsLeft(c) \/ UNCHANGED <<pc[c], left[c]>>

StepsFall == [][StepFall]_vars

(* A request under way has taken its endpoint off.                         *)
TurnInv ==
  /\ LockInUse
  /\ \A c \in Callers : pc[c] = "requesting" => left[c] < Endpoints

(* Steps that leave a call alone leave its variables alone.                *)
LEMMA OutOfCall ==
  ASSUME IInv, [Next]_vars
  PROVE  \/ \E c \in Callers : InCall(c)
         \/ UNCHANGED <<pc, acct, left, holder>>
         \/ /\ UNCHANGED holder
            /\ \E c \in Callers, a \in Accounts, n \in 1 .. Endpoints :
                 /\ pc[c] = "idle"
                 /\ pc' = [pc EXCEPT ![c] = "fetching"]
                 /\ acct' = [acct EXCEPT ![c] = a]
                 /\ left' = [left EXCEPT ![c] = n]
  <1>1. ASSUME NEW c \in Callers, NEW o \in Op, Acquire(c, o)
        PROVE  /\ UNCHANGED holder
               /\ \E a \in Accounts, n \in 1 .. Endpoints :
                    /\ pc[c] = "idle"
                    /\ pc' = [pc EXCEPT ![c] = "fetching"]
                    /\ acct' = [acct EXCEPT ![c] = a]
                    /\ left' = [left EXCEPT ![c] = n]
    <2> DEFINE n == IF o = "profile" THEN Endpoints ELSE 1
    <2>1. n \in 1 .. Endpoints
      BY PoolAssumption
    <2>2. PICK a \in Accounts : acct' = [acct EXCEPT ![c] = a]
      BY <1>1 DEF Acquire
    <2>3. /\ pc[c] = "idle" /\ pc' = [pc EXCEPT ![c] = "fetching"]
          /\ left' = [left EXCEPT ![c] = n] /\ UNCHANGED holder
      BY <1>1 DEF Acquire
    <2> HIDE DEF n
    <2> QED
      BY <2>1, <2>2, <2>3
  <1> QED
    BY <1>1 DEF Next, Scan, Search, Unavailable, Tick, ResetDailyCounts, InCall, vars, call

(* What a call that goes on or ends does: it never holds the lock after    *)
(* anything but Charge, and has fewer endpoints left after a failure.      *)
LEMMA CallTurns ==
  ASSUME IInv, NEW c \in Callers, InCall(c), ~Charge(c)
  PROVE  /\ pc[c] # "idle"
         /\ Unlock(c) \/ (UNCHANGED holder /\ pc[c] = "fetching")
         /\ \/ Hangup(c)
            \/ /\ pc' = [pc EXCEPT ![c] = "fetching"]
               /\ \E rest \in 0 .. Endpoints :
                    /\ left' = [left EXCEPT ![c] = rest]
                    /\ rest = IF pc[c] = "fetching" THEN left[c] - 1 ELSE left[c]
               /\ UNCHANGED acct
  <1>1. left[c] \in 0 .. Endpoints /\ (pc[c] = "fetching" => left[c] >= 1)
        /\ Endpoints \in Nat
    BY PoolAssumption DEF IInv, TypeOK, CallInv
  <1>2. ASSUME NEW e \in Error, NEW gone \in BOOLEAN, NEW rest, Raise(c, rest, e, gone)
        PROVE  \/ Hangup(c)
               \/ /\ pc' = [pc EXCEPT ![c] = "fetching"]
                  /\ left' = [left EXCEPT ![c] = rest]
                  /\ UNCHANGED acct
    BY <1>2 DEF Raise, NextEndpoint, Fail
  <1>3. ASSUME NEW e \in Error, NEW gone \in BOOLEAN, LoginFails(c, e, gone)
        PROVE  /\ pc[c] = "fetching" /\ UNCHANGED holder
               /\ Raise(c, left[c] - 1, e, gone) /\ left[c] - 1 \in 0 .. Endpoints
    BY <1>1, <1>3 DEF LoginFails
  <1>4. ASSUME NEW e \in Error, NEW gone \in BOOLEAN, RequestFails(c, e, gone)
        PROVE  /\ pc[c] = "requesting" /\ Unlock(c)
               /\ Raise(c, left[c], e, gone)
    BY <1>4 DEF RequestFails
  <1>5. CASE Succeed(c)
    BY <1>5 DEF Succeed
  <1>6. CASE Gone(c)
    <2>1. pc[c] = "requesting" /\ Unlock(c)
      BY <1>6 DEF Gone
    <2>2. \/ Hangup(c)
          \/ /\ pc' = [pc EXCEPT ![c] = "fetching"]
             /\ left' = [left EXCEPT ![c] = left[c]]
             /\ UNCHANGED acct
      BY <1>6 DEF Gone, Fail, NextEndpoint
    <2> QED
      BY <1>1, <2>1, <2>2
  <1>7. CASE Crash(c)
    BY <1>7 DEF Crash
  <1>8. CASE \E e \in Error, gone \in BOOLEAN : LoginFails(c, e, gone)
    <2>1. PICK e \in Error, gone \in BOOLEAN : LoginFails(c, e, gone)
      BY <1>8
    <2> QED
      BY <1>2, <1>3, <2>1
  <1>9. CASE \E e \in Error, gone \in BOOLEAN : RequestFails(c, e, gone)
    <2>1. PICK e \in Error, gone \in BOOLEAN : RequestFails(c, e, gone)
      BY <1>9
    <2> QED
      BY <1>1, <1>2, <1>4, <2>1
  <1> QED
    BY <1>5, <1>6, <1>7, <1>8, <1>9 DEF InCall, Ends

(* Every step keeps the locks in use.                                      *)
LEMMA StepTurnInv == IInv /\ TurnInv /\ [Next]_vars => TurnInv'
  <1> SUFFICES ASSUME IInv, TurnInv, [Next]_vars
               PROVE  TurnInv'
    OBVIOUS
  <1>1. /\ holder \in [Accounts -> Callers \cup {Nobody}] /\ Nobody \notin Callers
        /\ pc \in [Callers -> {"idle", "fetching", "requesting"}]
        /\ acct \in [Callers -> Accounts \cup {None}]
        /\ left \in [Callers -> 0 .. Endpoints] /\ Endpoints \in Nat
        /\ \A c \in Callers : pc[c] = "idle" <=> acct[c] = None
        /\ \A c \in Callers : pc[c] = "fetching" => left[c] >= 1
    BY PoolAssumption DEF IInv, TypeOK, CallInv, Nobody
  <1> HIDE DEF IInv
  <1>2. ASSUME NEW c \in Callers, Charge(c) PROVE TurnInv'
    <2>1. acct[c] \in Accounts
      BY <1>1, <1>2 DEF Charge
    <2>2. /\ pc[c] = "fetching" /\ holder[acct[c]] = Nobody
          /\ holder' = [holder EXCEPT ![acct[c]] = c]
          /\ left' = [left EXCEPT ![c] = @ - 1]
          /\ pc' = [pc EXCEPT ![c] = "requesting"]
          /\ acct' = acct
      BY <1>2 DEF Charge
    <2>3. LockInUse'
      BY <1>1, <2>1, <2>2 DEF TurnInv, LockInUse
    <2>4. \A d \in Callers : pc'[d] = "requesting" => left'[d] < Endpoints
      BY <1>1, <2>2 DEF TurnInv
    <2> QED
      BY <2>3, <2>4 DEF TurnInv
  <1>3. ASSUME NEW c \in Callers, InCall(c), ~Charge(c) PROVE TurnInv'
    <2>1. Unlock(c) \/ (UNCHANGED holder /\ pc[c] = "fetching")
      BY <1>3, CallTurns
    <2>2. /\ pc'[c] # "requesting"
          /\ \A d \in Callers \ {c} :
               pc'[d] = pc[d] /\ acct'[d] = acct[d] /\ left'[d] = left[d]
      BY <1>1, <1>3, CallTurns DEF Hangup
    <2>3. \A a \in Accounts : /\ holder'[a] # c
                              /\ \A d \in Callers \ {c} : holder'[a] = d <=> holder[a] = d
      BY <1>1, <2>1 DEF Unlock, TurnInv, LockInUse
    <2>4. LockInUse'
      BY <2>2, <2>3 DEF TurnInv, LockInUse
    <2>5. \A d \in Callers : pc'[d] = "requesting" => left'[d] < Endpoints
      BY <2>2 DEF TurnInv
    <2> QED
      BY <2>4, <2>5 DEF TurnInv
  <1>4. CASE UNCHANGED <<pc, acct, left, holder>>
    BY <1>4 DEF TurnInv, LockInUse
  <1>5. ASSUME NEW c \in Callers, NEW a \in Accounts, NEW n \in 1 .. Endpoints,
               UNCHANGED holder, pc[c] = "idle",
               pc' = [pc EXCEPT ![c] = "fetching"],
               acct' = [acct EXCEPT ![c] = a],
               left' = [left EXCEPT ![c] = n]
        PROVE  TurnInv'
    BY <1>1, <1>5 DEF TurnInv, LockInUse
  <1> QED
    BY <1>2, <1>3, <1>4, <1>5, OutOfCall

(* At the start nobody has a lock or a request.                            *)
LEMMA InitTurnInv == Init => TurnInv
  BY PoolAssumption DEF Init, TurnInv, LockInUse, Nobody

(* So no call waits for one that waits, and a call that ends, crashes or   *)
(* goes on to another endpoint leaves no lock behind (login.py:371-429).   *)
THEOREM PoolLockInUse == Spec => []LockInUse
  <1>1. TurnInv => LockInUse
    BY DEF TurnInv
  <1> QED
    BY InitIInv, StepIInv, InitTurnInv, StepTurnInv, <1>1, PTL DEF Spec

(* What the invariants say of the steps left.                              *)
LEMMA StepsCounted == IInv /\ TurnInv => StepsBounded
  <1> SUFFICES ASSUME IInv, TurnInv, NEW c \in Callers
               PROVE  /\ StepsLeft(c) \in 0 .. 2 * Endpoints
                      /\ StepsLeft(c) = 0 <=> pc[c] = "idle"
    BY DEF StepsBounded
  <1>1. /\ pc[c] \in {"idle", "fetching", "requesting"}
        /\ left[c] \in 0 .. Endpoints /\ Endpoints \in Nat
        /\ pc[c] = "fetching" => left[c] >= 1
        /\ pc[c] = "requesting" => left[c] < Endpoints
    BY PoolAssumption DEF IInv, TypeOK, CallInv, TurnInv
  <1>2. CASE pc[c] = "idle"
    BY <1>1, <1>2 DEF StepsLeft
  <1>3. CASE pc[c] = "fetching"
    <2>1. StepsLeft(c) = 2 * left[c]
      BY <1>3 DEF StepsLeft
    <2> QED
      BY <1>1, <1>3, <2>1
  <1>4. CASE pc[c] = "requesting"
    <2>1. StepsLeft(c) = 2 * left[c] + 1
      BY <1>4 DEF StepsLeft
    <2> QED
      BY <1>1, <1>4, <2>1
  <1> QED
    BY <1>1, <1>2, <1>3, <1>4

(* Every step of a call brings it nearer to its end.                       *)
LEMMA StepsCountDown == IInv /\ [Next]_vars => StepFall
  <1> SUFFICES ASSUME IInv, [Next]_vars, NEW c \in Callers, pc[c] # "idle"
               PROVE  StepsLeft(c)' < StepsLeft(c) \/ UNCHANGED <<pc[c], left[c]>>
    BY DEF StepFall
  <1>1. /\ pc \in [Callers -> {"idle", "fetching", "requesting"}]
        /\ left \in [Callers -> 0 .. Endpoints] /\ Endpoints \in Nat
        /\ pc[c] = "fetching" => left[c] >= 1
    BY PoolAssumption DEF IInv, TypeOK, CallInv
  <1>2. ASSUME NEW d \in Callers, Charge(d), d = c
        PROVE  StepsLeft(c)' < StepsLeft(c)
    <2>1. pc[c] = "fetching" /\ pc'[c] = "requesting" /\ left'[c] = left[c] - 1
      BY <1>1, <1>2 DEF Charge
    <2>2. StepsLeft(c) = 2 * left[c] /\ StepsLeft(c)' = 2 * left'[c] + 1
      BY <2>1 DEF StepsLeft
    <2> QED
      BY <1>1, <2>1, <2>2
  <1>3. ASSUME NEW d \in Callers, InCall(d), ~Charge(d), d = c
        PROVE  StepsLeft(c)' < StepsLeft(c)
    <2>1. CASE Hangup(c)
      <3>1. StepsLeft(c)' = 0
        BY <1>1, <2>1 DEF Hangup, StepsLeft
      <3>2. pc[c] = "fetching" => StepsLeft(c) = 2 * left[c]
        BY DEF StepsLeft
      <3>3. pc[c] = "requesting" => StepsLeft(c) = 2 * left[c] + 1
        BY DEF StepsLeft
      <3>4. left[c] \in Nat /\ pc[c] \in {"fetching", "requesting"}
        BY <1>1
      <3> QED
        BY <1>1, <3>1, <3>2, <3>3, <3>4
    <2>2. ASSUME NEW rest \in 0 .. Endpoints,
                 pc' = [pc EXCEPT ![c] = "fetching"],
                 left' = [left EXCEPT ![c] = rest],
                 rest = IF pc[c] = "fetching" THEN left[c] - 1 ELSE left[c]
          PROVE  StepsLeft(c)' < StepsLeft(c)
      <3>1. pc'[c] = "fetching" /\ left'[c] = rest
        BY <1>1, <2>2
      <3>2. StepsLeft(c)' = 2 * rest
        BY <3>1 DEF StepsLeft
      <3>3. CASE pc[c] = "fetching"
        <4>1. StepsLeft(c) = 2 * left[c]
          BY <3>3 DEF StepsLeft
        <4> QED
          BY <1>1, <2>2, <3>2, <3>3, <4>1
      <3>4. CASE pc[c] = "requesting"
        <4>1. StepsLeft(c) = 2 * left[c] + 1
          BY <3>4 DEF StepsLeft
        <4> QED
          BY <1>1, <2>2, <3>2, <3>4, <4>1
      <3> QED
        BY <1>1, <3>3, <3>4
    <2> QED
      BY <1>3, <2>1, <2>2, CallTurns
  <1>4. ASSUME NEW d \in Callers, InCall(d), d # c
        PROVE  UNCHANGED <<pc[c], left[c]>>
    <2>1. CASE Charge(d)
      BY <1>1, <1>4, <2>1 DEF Charge
    <2>2. CASE ~Charge(d)
      BY <1>1, <1>4, <2>2, CallTurns DEF Hangup
    <2> QED
      BY <2>1, <2>2
  <1>5. CASE UNCHANGED <<pc, acct, left, holder>>
    BY <1>5
  <1>6. ASSUME NEW d \in Callers, NEW n, pc[d] = "idle",
               pc' = [pc EXCEPT ![d] = "fetching"], left' = [left EXCEPT ![d] = n]
        PROVE  UNCHANGED <<pc[c], left[c]>>
    BY <1>1, <1>6
  <1> QED
    BY <1>2, <1>3, <1>4, <1>5, <1>6, OutOfCall

(* A call that got an account is over after at most two steps for each     *)
(* endpoint, if it goes on at all (login.py:439-454).                      *)
THEOREM PoolCallsRunOut == Spec => []StepsBounded /\ StepsFall
  <1>1. IInv /\ [Next]_vars => [StepFall]_vars
    BY StepsCountDown
  <1> QED
    BY InitIInv, StepIInv, InitTurnInv, StepTurnInv, StepsCounted, <1>1, PTL
       DEF Spec, StepsFall
=============================================================================
