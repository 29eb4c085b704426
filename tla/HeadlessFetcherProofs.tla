------------------------- MODULE HeadlessFetcherProofs -------------------------
(* Safety of HeadlessFetcher for any number of callers, browsers and cap.  *)
EXTENDS HeadlessFetcher, FiniteSetTheorems, TLAPS

(* The lock word and the program counters agree; what a set-up works on is *)
(* a browser, and once a context is published there is always one.         *)
LockInv ==
  /\ \A c \in Callers : pc[c] \in Paging => holder = c
  /\ \A c \in Callers : pc[c] \in {"building", "scripting", "dressing"} => on[c] \in Contexts
  /\ \A c \in Callers : pc[c] \notin {"idle", "launching", "building"} => context # None

(* A context without cookies has somebody who is about to add them to it,  *)
(* unless a set-up failed.                                                 *)
DresserInv ==
  context # None /\ context \notin dressed =>
    \/ failed
    \/ \E c \in Callers : \/ pc[c] = "scripting"
                          \/ pc[c] = "dressing" /\ on[c] = context

IInv == TypeOK /\ LockInv /\ DresserInv

(* The invariant holds at the start.                                       *)
LEMMA InitIInv == Init => IInv
  <1> SUFFICES ASSUME Init PROVE IInv
    OBVIOUS
  <1>1. stealth \in BOOLEAN /\ crowded \in BOOLEAN /\ failed \in BOOLEAN /\ blamed \in BOOLEAN
    BY Zenon DEF Init
  <1>2. /\ used \in Nat /\ state \in {"active", "challenged"} /\ late \in Nat
        /\ context \in Contexts \cup {None} /\ running \subseteq Contexts
        /\ dressed \subseteq Contexts /\ holder \in Callers \cup {Nobody}
    BY DEF Init
  <1>3. /\ pc \in [Callers -> Admitted \cup Paging \cup {"idle"}]
        /\ on \in [Callers -> Contexts \cup {None}]
    BY DEF Init
  <1>4. LockInv /\ DresserInv
    BY DEF Init, LockInv, DresserInv, Paging
  <1> QED
    BY <1>1, <1>2, <1>3, <1>4, Zenon DEF IInv, TypeOK

(* Every step keeps the types and the lock,                                *)
LEMMA StepTypes == IInv /\ [Next]_vars => TypeOK' /\ LockInv'
  <1> SUFFICES ASSUME IInv, [Next]_vars
               PROVE  TypeOK' /\ LockInv'
    OBVIOUS
  <1> USE HeadlessAssumption
      DEF IInv, TypeOK, LockInv, Nobody, None, Paging, Admitted, SettingUp, Goto
  <1>1. ASSUME NEW c \in Callers, Begin(c) PROVE TypeOK' /\ LockInv'
    BY <1>1 DEF Begin
  <1>2. ASSUME NEW c \in Callers, Refuse(c) PROVE TypeOK' /\ LockInv'
    BY <1>2 DEF Refuse, vars
  <1>3. ASSUME NEW c \in Callers, Launched(c) PROVE TypeOK' /\ LockInv'
    <2>1. ASSUME NEW k \in Contexts, running' = running \cup {k}, dressed' = dressed \ {k},
                 Goto(c, "building", k), UNCHANGED holder
          PROVE  TypeOK' /\ LockInv'
      <3>1. TypeOK'
        BY <1>3, <2>1 DEF Launched
      <3>2. LockInv'
        BY <1>3, <2>1 DEF Launched
      <3> QED
        BY <3>1, <3>2
    <2>2. CASE Leave(c) /\ UNCHANGED <<running, dressed>>
      BY <1>3, <2>2 DEF Launched, Leave
    <2> QED
      BY <1>3, <2>1, <2>2 DEF Launched, Fresh
  <1>4. ASSUME NEW c \in Callers, Published(c) PROVE TypeOK' /\ LockInv'
    <2>1. CASE on[c] \in running /\ context' = on[c]
               /\ Goto(c, IF stealth THEN "dressing" ELSE "scripting", on[c])
               /\ UNCHANGED <<holder, failed>>
      <3>1. PICK label \in {"dressing", "scripting"} : Goto(c, label, on[c])
        BY <2>1
      <3> QED
        BY <1>4, <2>1, <3>1 DEF Published
    <2>2. CASE GiveUp(c) /\ UNCHANGED context
      BY <1>4, <2>2 DEF Published, GiveUp, Leave
    <2> QED
      BY <1>4, <2>1, <2>2 DEF Published
  <1>5. ASSUME NEW c \in Callers, Scripted(c) PROVE TypeOK' /\ LockInv'
    BY <1>5 DEF Scripted, GiveUp, Leave
  <1>6. ASSUME NEW c \in Callers, Dressed(c) PROVE TypeOK' /\ LockInv'
    BY <1>6 DEF Dressed, GiveUp, Leave
  <1>7. ASSUME NEW c \in Callers, Acquire(c) PROVE TypeOK' /\ LockInv'
    <2>1. late' \in Nat /\ used' \in Nat
      <3>1. late \in Nat /\ used \in Nat
        OBVIOUS
      <3>2. (late' = late \/ late' = late + 1) /\ used' = used + 1
        BY <1>7, Zenon DEF Acquire
      <3> HIDE DEF IInv
      <3> QED
        BY <3>1, <3>2
    <2>2. TypeOK'
      BY <1>7, <2>1 DEF Acquire
    <2>3. \A d \in Callers : pc[d] \notin Paging
      BY <1>7 DEF Acquire
    <2>4. LockInv'
      BY <1>7, <2>3 DEF Acquire
    <2> QED
      BY <2>2, <2>4
  <1>8. ASSUME NEW c \in Callers, Opened(c) PROVE TypeOK' /\ LockInv'
    BY <1>8 DEF Opened, Loading, Leave
  <1>9. ASSUME NEW c \in Callers, Settled(c) PROVE TypeOK' /\ LockInv'
    BY <1>9 DEF Settled, Leave
  <1>10. ASSUME NEW k \in Contexts, BrowserDies(k) PROVE TypeOK' /\ LockInv'
    BY <1>10 DEF BrowserDies
  <1>11. CASE UNCHANGED vars
    BY <1>11 DEF vars
  <1> QED
    BY <1>1, <1>2, <1>3, <1>4, <1>5, <1>6, <1>7, <1>8, <1>9, <1>10, <1>11
       DEF Next, Awaited

(* and a context without cookies keeps the call that will add them.        *)
LEMMA StepDresser == IInv /\ [Next]_vars => DresserInv'
  <1> SUFFICES ASSUME IInv, [Next]_vars
               PROVE  DresserInv'
    OBVIOUS
  <1> USE HeadlessAssumption DEF IInv, TypeOK, LockInv, DresserInv, None, Goto
  <1>1. ASSUME NEW c \in Callers, Begin(c) PROVE DresserInv'
    BY <1>1 DEF Begin
  <1>2. ASSUME NEW c \in Callers, Launched(c) PROVE DresserInv'
    BY <1>2 DEF Launched, Leave, Fresh
  <1>3. ASSUME NEW c \in Callers, Published(c) PROVE DresserInv'
    BY <1>3 DEF Published, GiveUp, Leave
  <1>4. ASSUME NEW c \in Callers, Scripted(c) PROVE DresserInv'
    BY <1>4 DEF Scripted, GiveUp, Leave
  <1>5. ASSUME NEW c \in Callers, Dressed(c) PROVE DresserInv'
    BY <1>5 DEF Dressed, GiveUp, Leave
  <1>6. ASSUME NEW c \in Callers, Acquire(c) PROVE DresserInv'
    BY <1>6 DEF Acquire
  <1>7. ASSUME NEW c \in Callers, Opened(c) PROVE DresserInv'
    BY <1>7 DEF Opened, Loading, Leave
  <1>8. ASSUME NEW c \in Callers, Settled(c) PROVE DresserInv'
    BY <1>8 DEF Settled, Leave
  <1>9. ASSUME NEW k \in Contexts, BrowserDies(k) PROVE DresserInv'
    BY <1>9 DEF BrowserDies
  <1>10. CASE (\E c \in Callers : Refuse(c)) \/ UNCHANGED vars
    BY <1>10 DEF Refuse, vars
  <1> QED
    BY <1>1, <1>2, <1>3, <1>4, <1>5, <1>6, <1>7, <1>8, <1>9, <1>10
       DEF Next, Awaited

(* So every step keeps the invariant.                                      *)
LEMMA StepIInv == IInv /\ [Next]_vars => IInv'
  BY StepTypes, StepDresser DEF IInv

(* The types of the fetcher and of its calls (headless.py:54-62).          *)
THEOREM HeadlessTypeOK == Spec => []TypeOK
  <1>1. IInv => TypeOK
    BY DEF IInv
  <1> QED
    BY InitIInv, StepIInv, <1>1, PTL DEF Spec

(* Pages follow one another (headless.py:141).                             *)
THEOREM HeadlessPaced == Spec => []OnePageAtATime
  <1>1. IInv => OnePageAtATime
    BY DEF IInv, LockInv, OnePageAtATime
  <1> QED
    BY InitIInv, StepIInv, <1>1, PTL DEF Spec

(* However many calls set up the context at once, what they leave has its  *)
(* cookies, unless a set-up failed (headless.py:84, 103, 120).             *)
THEOREM HeadlessBareIsTransient == Spec => []BareIsTransient
  <1>1. IInv => BareIsTransient
    BY DEF IInv, DresserInv, BareIsTransient
  <1> QED
    BY InitIInv, StepIInv, <1>1, PTL DEF Spec

-----------------------------------------------------------------------------
(* How the steps move the outstanding charges *)

(* A caller has one charge to come at most.                                *)
LEMMA ChargeBound ==
  ASSUME NEW S \in SUBSET (Callers \X {1})
  PROVE  /\ IsFiniteSet(S)
         /\ Cardinality(S) \in Nat
         /\ Cardinality(Callers) \in Nat
         /\ Cardinality(S) <= Cardinality(Callers)
  <1>1. IsFiniteSet(Callers) /\ Cardinality(Callers) \in Nat
    BY HeadlessAssumption, FS_CardinalityType
  <1>2. IsFiniteSet({1}) /\ Cardinality({1}) = 1
    BY FS_Singleton
  <1>3. /\ IsFiniteSet(Callers \X {1})
        /\ Cardinality(Callers \X {1}) = Cardinality(Callers) * 1
    BY <1>1, <1>2, FS_Product
  <1>4. IsFiniteSet(S) /\ Cardinality(S) <= Cardinality(Callers \X {1})
    BY <1>3, FS_Subset
  <1> QED
    BY <1>1, <1>3, <1>4, FS_CardinalityType

(* The pages still to be charged are finitely many, one per caller.        *)
LEMMA OutstandingFinite ==
  /\ IsFiniteSet(Outstanding)
  /\ Cardinality(Outstanding) \in Nat
  BY ChargeBound DEF Outstanding

(* Beginning a call adds its one page,                                     *)
LEMMA BeginOutstanding ==
  ASSUME IInv, NEW c \in Callers, Begin(c)
  PROVE  /\ Outstanding' = Outstanding \cup ({c} \X (1 .. 1))
         /\ {p \in Outstanding : p[1] = c} = {}
  <1>1. pc \in [Callers -> Admitted \cup Paging \cup {"idle"}]
    BY DEF IInv, TypeOK
  <1>2. pc[c] = "idle" /\ pc' = [pc EXCEPT ![c] = pc'[c]] /\ pc'[c] \in {"launching", "waiting"}
    BY <1>1 DEF Begin, Goto
  <1>3. 1 .. 1 = {1}
    OBVIOUS
  <1> QED
    BY <1>1, <1>2, <1>3 DEF Outstanding, Admitted, SettingUp

(* A step of a call that does not begin admits nobody.                     *)
LEMMA AwaitedOutstanding ==
  ASSUME IInv, NEW c \in Callers, Awaited(c)
  PROVE  Outstanding' \subseteq Outstanding
  <1>1. pc \in [Callers -> Admitted \cup Paging \cup {"idle"}]
    BY DEF IInv, TypeOK
  <1>2. CASE Launched(c) \/ Published(c) \/ Scripted(c) \/ Dressed(c)
    <2>1. pc[c] \in Admitted /\ \E l : pc' = [pc EXCEPT ![c] = l]
      BY <1>2 DEF Launched, Published, Scripted, Dressed, GiveUp, Leave, Goto,
                  Admitted, SettingUp
    <2> QED
      BY <1>1, <2>1 DEF Outstanding
  <1>3. CASE Opened(c) \/ Settled(c)
    <2>1. \E l \in Paging \cup {"idle"} : pc' = [pc EXCEPT ![c] = l]
      BY <1>3 DEF Opened, Settled, Loading, Leave, Goto, Paging
    <2>2. \A l \in Paging \cup {"idle"} : l \notin Admitted
      BY DEF Paging, Admitted, SettingUp
    <2> QED
      BY <1>1, <2>1, <2>2 DEF Outstanding
  <1> QED
    BY <1>2, <1>3 DEF Awaited

(* and taking the lock, which charges it, takes it away.                   *)
LEMMA AcquireOutstanding ==
  ASSUME IInv, NEW c \in Callers, Acquire(c)
  PROVE  /\ <<c, 1>> \in Outstanding
         /\ Outstanding' = Outstanding \ {<<c, 1>>}
  <1>1. pc \in [Callers -> Admitted \cup Paging \cup {"idle"}]
    BY DEF IInv, TypeOK
  <1>2. pc[c] = "waiting" /\ pc' = [pc EXCEPT ![c] = "opening"]
    BY DEF Acquire, Goto
  <1> QED
    BY <1>1, <1>2 DEF Outstanding, Admitted, SettingUp

-----------------------------------------------------------------------------
(* The fetcher implements the admission ledger *)

(* The start is that of the ledger.                                        *)
LEMMA LedgerInitMaps == Init => Ledger!Init
  BY DEF Init, Ledger!Init, Outstanding, Admitted, SettingUp

(* Every step is one of the ledger or a stutter.                           *)
LEMMA LedgerStepMaps == IInv /\ [Next]_vars => [Ledger!Next]_(Ledger!vars)
  <1> SUFFICES ASSUME IInv, [Next]_vars
               PROVE  Ledger!Next \/ UNCHANGED <<used, Outstanding>>
    BY DEF Ledger!vars
  <1>0. used \in Nat
    BY DEF IInv, TypeOK
  <1>1. ASSUME NEW c \in Callers, Begin(c) PROVE Ledger!Admit(c)
    <2>1. used < Cap /\ used' = used + 0
      BY <1>0, <1>1 DEF Begin, Healthy
    <2>2. 0 \in 0 .. 1 /\ 1 \in 0 .. 1 /\ 0 + 1 <= 1
      OBVIOUS
    <2> QED
      BY <1>1, <2>1, <2>2, BeginOutstanding DEF Ledger!Admit, Ledger!PermitsOf
  <1>2. ASSUME NEW c \in Callers, Acquire(c) PROVE Ledger!Spend
    <2>1. used' = used + 1 /\ 1 \in 0 .. 1
      BY <1>2 DEF Acquire
    <2>2. Outstanding' \in SUBSET Outstanding /\ Outstanding' # Outstanding
      BY <1>2, AcquireOutstanding
    <2> QED
      BY <2>1, <2>2 DEF Ledger!Spend
  <1>3. ASSUME NEW c \in Callers, Awaited(c) PROVE Ledger!Spend
    <2>0. used' = used
      BY <1>3, Zenon DEF Awaited, Launched, Published, Scripted, Dressed, Opened, Settled
    <2>1. used' = used + 0 /\ 0 \in 0 .. 1
      BY <1>0, <2>0
    <2>2. Outstanding' \in SUBSET Outstanding
      BY <1>3, AwaitedOutstanding
    <2> QED
      BY <2>1, <2>2 DEF Ledger!Spend
  <1>4. ASSUME NEW k \in Contexts, BrowserDies(k) PROVE UNCHANGED <<used, Outstanding>>
    BY <1>4 DEF BrowserDies, Outstanding
  <1>5. CASE (\E c \in Callers : Refuse(c)) \/ UNCHANGED vars
    BY <1>5 DEF Refuse, vars, Outstanding
  <1> QED
    BY <1>1, <1>2, <1>3, <1>4, <1>5 DEF Next, Ledger!Next

(* The cap is checked once per call and charged after the set-up and the   *)
(* wait for the lock: the ledger, with one charge per call (headless.py:   *)
(* 128, 142).                                                              *)
THEOREM HeadlessImplementsLedger == Spec => LedgerRefined
  BY InitIInv, StepIInv, LedgerInitMaps, LedgerStepMaps, PTL
     DEF Spec, LedgerRefined, Ledger!Spec

(* The argument of the ledger, with one charge per call: a call is let in  *)
(* below the cap, and every caller has one charge to come at most.         *)
ChargeInv ==
  /\ Cap = 0 => Outstanding = {}
  /\ Cap # 0 => used + Cardinality(Outstanding) <= Cap - 1 + Cardinality(Callers)
  /\ Cap = 0 => used = 0

(* A page is paid for by the admission that let its call in.               *)
LEMMA ChargeStep == IInv /\ ChargeInv /\ [Next]_vars => ChargeInv'
  <1> SUFFICES ASSUME IInv, ChargeInv, [Next]_vars
               PROVE  ChargeInv'
    OBVIOUS
  <1>1. /\ used \in Nat /\ Cap \in Nat /\ Cardinality(Callers) \in Nat
        /\ IsFiniteSet(Outstanding) /\ Cardinality(Outstanding) \in Nat
        /\ Cardinality(Outstanding') \in Nat
        /\ Cardinality(Outstanding') <= Cardinality(Callers)
    <2>1. Outstanding \in SUBSET (Callers \X {1}) /\ Outstanding' \in SUBSET (Callers \X {1})
      BY DEF Outstanding
    <2> QED
      BY <2>1, ChargeBound, HeadlessAssumption DEF IInv, TypeOK
  <1>2. ASSUME NEW c \in Callers, Begin(c) PROVE ChargeInv'
    <2>1. used < Cap /\ used' = used
      BY <1>2 DEF Begin, Healthy
    <2> QED
      BY <2>1, <1>1 DEF ChargeInv
  <1>3. ASSUME NEW c \in Callers, Acquire(c) PROVE ChargeInv'
    <2>1. <<c, 1>> \in Outstanding /\ Outstanding' = Outstanding \ {<<c, 1>>}
      BY <1>3, AcquireOutstanding
    <2>2. used' = used + 1
      BY <1>3 DEF Acquire
    <2>3. Cardinality(Outstanding') = Cardinality(Outstanding) - 1
      BY <2>1, <1>1, FS_RemoveElement
    <2> QED
      BY <2>1, <2>2, <2>3, <1>1 DEF ChargeInv
  <1>4. ASSUME NEW c \in Callers, Awaited(c) PROVE ChargeInv'
    <2>1. used' = used
      BY <1>4, Zenon DEF Awaited, Launched, Published, Scripted, Dressed, Opened, Settled
    <2>2. Outstanding' \in SUBSET Outstanding
      BY <1>4, AwaitedOutstanding
    <2>3. Cardinality(Outstanding') <= Cardinality(Outstanding)
      BY <2>2, <1>1, FS_Subset
    <2> QED
      BY <2>1, <2>2, <2>3, <1>1 DEF ChargeInv
  <1>5. CASE UNCHANGED <<used, Outstanding>>
    BY <1>5 DEF ChargeInv
  <1>6. ASSUME NEW k \in Contexts, BrowserDies(k) PROVE ChargeInv'
    BY <1>5, <1>6 DEF BrowserDies, Outstanding
  <1>7. CASE (\E c \in Callers : Refuse(c)) \/ UNCHANGED vars
    BY <1>5, <1>7 DEF Refuse, vars, Outstanding
  <1> QED
    BY <1>2, <1>3, <1>4, <1>6, <1>7 DEF Next

(* The cap is overshot by less than one page of every caller (headless.py: *)
(* 128, 142).                                                              *)
THEOREM HeadlessUsedBounded == Spec => []UsedBounded
  <1>1. Init => ChargeInv
    <2> SUFFICES ASSUME Init PROVE ChargeInv
      OBVIOUS
    <2>1. Outstanding = {} /\ used = 0
      BY LedgerInitMaps DEF Ledger!Init
    <2> QED
      BY <2>1, ChargeBound, HeadlessAssumption, FS_EmptySet DEF ChargeInv
  <1>2. IInv /\ ChargeInv => UsedBounded
    <2>1. Outstanding \in SUBSET (Callers \X {1})
      BY DEF Outstanding
    <2>2. Cardinality(Outstanding) \in Nat /\ Cardinality(Callers) \in Nat
      BY <2>1, ChargeBound
    <2> QED
      BY <2>2, HeadlessAssumption DEF IInv, TypeOK, ChargeInv, UsedBounded
  <1> QED
    BY InitIInv, StepIInv, ChargeStep, <1>1, <1>2, PTL DEF Spec

-----------------------------------------------------------------------------
(* What a challenged account still gets *)

(* Nothing was late before the wall: needed when it is met.                *)
LateInv ==
  /\ state = "active" => late = 0
  /\ LatePagesBounded

(* Pages asked for too late are those of calls admitted in time.           *)
LEMMA LateStep == IInv /\ LateInv /\ [Next]_vars => LateInv'
  <1> SUFFICES ASSUME IInv, LateInv, [Next]_vars
               PROVE  LateInv'
    OBVIOUS
  <1>1. IsFiniteSet(Outstanding) /\ Cardinality(Outstanding) \in Nat
    BY OutstandingFinite
  <1>2. late \in Nat /\ state \in {"active", "challenged"}
    BY DEF IInv, TypeOK
  <1>3. IsFiniteSet(Callers) /\ Cardinality(Callers) \in Nat
    BY HeadlessAssumption, FS_CardinalityType
  <1>4. ASSUME NEW c \in Callers, Begin(c) PROVE LateInv'
    <2>1. state' = "active" /\ late' = 0
      BY <1>4 DEF Begin, Healthy, LateInv
    <2> QED
      BY <2>1 DEF LateInv, LatePagesBounded
  <1>5. ASSUME NEW c \in Callers, Acquire(c) PROVE LateInv'
    <2>1. Cardinality(Outstanding') = Cardinality(Outstanding) - 1
      <3>1. <<c, 1>> \in Outstanding /\ Outstanding' = Outstanding \ {<<c, 1>>}
        BY <1>5, AcquireOutstanding
      <3>2. Cardinality(Outstanding \ {<<c, 1>>}) = Cardinality(Outstanding) - 1
        BY <3>1, <1>1, FS_RemoveElement
      <3> QED
        BY <3>1, <3>2
    <2>2. state' = state /\ (state = "active" => late' = late)
          /\ (state # "active" => late' = late + 1)
      BY <1>5, Zenon DEF Acquire
    <2> QED
      BY <2>1, <2>2, <1>1, <1>2, <1>3 DEF LateInv, LatePagesBounded
  <1>6. ASSUME NEW c \in Callers, Awaited(c) PROVE LateInv'
    <2>1. Outstanding' \subseteq Outstanding
      BY <1>6, AwaitedOutstanding
    <2>2. Cardinality(Outstanding') \in Nat /\ Cardinality(Outstanding') <= Cardinality(Outstanding)
      BY <2>1, <1>1, FS_Subset, FS_CardinalityType
    <2>3. late' = late
      BY <1>6 DEF Awaited, Launched, Published, Scripted, Dressed, Opened, Settled
    <2>4. CASE state' = state
      BY <2>2, <2>3, <2>4, <1>1, <1>2, <1>3 DEF LateInv, LatePagesBounded
    <2>5. CASE state' # state
      <3> DEFINE others == Callers \ {c}
      <3>1. Settled(c) /\ state' = "challenged"
        BY <1>6, <2>5 DEF Awaited, Launched, Published, Scripted, Dressed, Opened, Settled
      <3>2. pc[c] \notin Admitted
        BY <3>1 DEF Settled, Admitted, SettingUp
      <3>3. Outstanding' \in SUBSET (others \X {1})
        BY <2>1, <3>2 DEF Outstanding
      <3>4. IsFiniteSet(others) /\ Cardinality(others) = Cardinality(Callers) - 1
        BY <1>3, FS_RemoveElement
      <3>5. IsFiniteSet({1}) /\ Cardinality({1}) = 1
        BY FS_Singleton
      <3> HIDE DEF others
      <3>6. /\ IsFiniteSet(others \X {1})
            /\ Cardinality(others \X {1}) = Cardinality(others) * 1
        BY <3>4, <3>5, FS_Product
      <3>7. Cardinality(Outstanding') <= Cardinality(others \X {1})
        BY <3>3, <3>6, FS_Subset
      <3>8. Cardinality(Outstanding') <= Cardinality(Callers) - 1
        BY <3>4, <3>6, <3>7, <1>3, <2>2
      <3>9. late' = 0
        BY <2>3, <2>5, <3>1, <1>2 DEF LateInv
      <3> QED
        BY <3>1, <3>8, <3>9, <2>2, <1>3 DEF LateInv, LatePagesBounded
    <2> QED
      BY <2>4, <2>5
  <1>7. ASSUME NEW k \in Contexts, BrowserDies(k) PROVE LateInv'
    BY <1>7 DEF BrowserDies, LateInv, LatePagesBounded, Outstanding
  <1>8. CASE (\E c \in Callers : Refuse(c)) \/ UNCHANGED vars
    BY <1>8 DEF Refuse, vars, LateInv, LatePagesBounded, Outstanding
  <1> QED
    BY <1>4, <1>5, <1>6, <1>7, <1>8 DEF Next

(* Calls admitted before a wall was met open one page each on the          *)
(* challenged account, and nobody else does (headless.py:137-144).         *)
THEOREM HeadlessLateBounded == Spec => []LatePagesBounded
  <1>1. Init => LateInv
    BY DEF Init, LateInv, LatePagesBounded
  <1>2. LateInv => LatePagesBounded
    BY DEF LateInv
  <1> QED
    BY InitIInv, StepIInv, LateStep, <1>1, <1>2, PTL DEF Spec

-----------------------------------------------------------------------------
(* What calls that do not overlap a set-up can rely on *)

(* The one call that sets up is alone; what runs is the current context or *)
(* what it is building; and nobody works in a context without cookies.     *)
Calm ==
  /\ \A c, d \in Callers : pc[c] \in SettingUp /\ pc[d] # "idle" => c = d
  /\ \A c \in Callers : pc[c] \in {"launching", "building"} => context = None
  /\ \A c \in Callers : pc[c] \in {"scripting", "dressing"} \cup Paging => on[c] = context
  /\ \A c \in Callers : pc[c] # "bare"
  /\ \A k \in running : k = context \/ \E c \in Callers : pc[c] = "building" /\ on[c] = k
  /\ \/ context = None \/ context \in dressed
     \/ \E c \in Callers : pc[c] \in {"scripting", "dressing"}
  /\ blamed = FALSE

CalmInv == ~crowded /\ ~failed => Calm

CalmTypes ==
  /\ context \in Contexts \cup {None}
  /\ running \subseteq Contexts
  /\ pc \in [Callers -> Admitted \cup Paging \cup {"idle"}]
  /\ on \in [Callers -> Contexts \cup {None}]
  /\ \A c \in Callers : pc[c] \notin {"idle", "launching", "building"} => context # None

(* A call that is not in a set-up goes on, to a page only in the current   *)
(* context, and out of idleness only where nobody sets up.                 *)
LEMMA CalmMoves ==
  ASSUME Calm, CalmTypes, NEW c \in Callers, NEW l, NEW k, Goto(c, l, k),
         UNCHANGED <<context, running, dressed, blamed>>,
         pc[c] \notin {"building", "scripting", "dressing"},
         l \in {"idle", "waiting", "opening", "loading"},
         l \in {"opening", "loading"} => k = context,
         l # "idle" => \A d \in Callers : pc[d] \notin SettingUp
  PROVE  Calm'
  <1> USE DEF Calm, CalmTypes, SettingUp, Admitted, Paging, Goto
  <1>1. \A d \in Callers : pc'[d] = IF d = c THEN l ELSE pc[d]
    OBVIOUS
  <1>2. \A d \in Callers : on'[d] = IF d = c THEN k ELSE on[d]
    OBVIOUS
  <1>3. (\A d, e \in Callers : pc[d] \in SettingUp /\ pc[e] # "idle" => d = e)'
    BY <1>1
  <1>4. (\A d \in Callers : pc[d] \in {"launching", "building"} => context = None)'
    BY <1>1
  <1>5. (\A d \in Callers : pc[d] \in {"scripting", "dressing"} \cup Paging => on[d] = context)'
    BY <1>1, <1>2
  <1>6. (\A d \in Callers : pc[d] # "bare")'
    BY <1>1
  <1>7. (\A j \in running : j = context \/ \E d \in Callers : pc[d] = "building" /\ on[d] = j)'
    BY <1>1, <1>2
  <1>8. (\/ context = None \/ context \in dressed
         \/ \E d \in Callers : pc[d] \in {"scripting", "dressing"})'
    BY <1>1
  <1> QED
    BY <1>3, <1>4, <1>5, <1>6, <1>7, <1>8

(* Calm is preserved by whatever does not end it.                          *)
LEMMA CalmStep == IInv /\ CalmInv /\ [Next]_vars => CalmInv'
  <1> SUFFICES ASSUME IInv, CalmInv, [Next]_vars, ~crowded', ~failed'
               PROVE  Calm'
    BY DEF CalmInv
  <1>1. \A c \in Callers : ~GiveUp(c)
    BY Zenon DEF GiveUp
  <1>2. ASSUME NEW c \in Callers, Begin(c)
        PROVE  ~crowded /\ ~failed /\ \A d \in Callers : pc[d] \notin SettingUp
    BY <1>2, Zenon DEF Begin
  <1>3. ASSUME NEW c \in Callers, Awaited(c) \/ Acquire(c)
        PROVE  ~crowded /\ ~failed
    <2>1. crowded' = crowded /\ failed' = failed
      BY <1>1, <1>3 DEF Awaited, Acquire, Launched, Published, Scripted, Dressed, Opened,
                        Settled
    <2> QED
      BY <2>1, Zenon
  <1>4. ASSUME NEW k \in Contexts, BrowserDies(k) PROVE ~crowded /\ ~failed
    BY <1>4, Zenon DEF BrowserDies
  <1>5. ASSUME UNCHANGED vars \/ \E c \in Callers : Refuse(c) PROVE ~crowded /\ ~failed
    <2>1. crowded' = crowded /\ failed' = failed
      BY <1>5 DEF Refuse, vars
    <2> QED
      BY <2>1, Zenon
  <1>6. Calm
    BY <1>2, <1>3, <1>4, <1>5, Zenon DEF CalmInv, Next
  <1>7. CalmTypes /\ "none" \notin Contexts
    BY HeadlessAssumption DEF IInv, TypeOK, LockInv, CalmTypes
  <1> HIDE DEF IInv, CalmInv
  <1>8. ASSUME NEW c \in Callers, Begin(c) PROVE Calm'
    <2>1. CASE context = None
      <3>1. Goto(c, "launching", None) /\ pc[c] = "idle" /\ UNCHANGED <<context, running, dressed, blamed>>
        BY <1>8, <2>1 DEF Begin
      <3>2. \A d \in Callers : pc'[d] = IF d = c THEN "launching" ELSE pc[d]
        BY <1>7, <3>1 DEF CalmTypes, Goto
      <3>3. \A d \in Callers \ {c} : pc[d] = "idle"
        BY <1>2, <1>7, <1>8, <2>1 DEF CalmTypes, SettingUp, Admitted, Paging
      <3>4. running = {}
        BY <1>2, <1>6, <1>7, <1>8, <2>1 DEF Calm, CalmTypes, SettingUp, None
      <3> QED
        BY <1>6, <2>1, <3>1, <3>2, <3>3, <3>4 DEF Calm, SettingUp, Paging
    <2>2. CASE context # None
      BY <1>2, <1>6, <1>7, <1>8, <2>2, CalmMoves DEF Begin
    <2> QED
      BY <2>1, <2>2
  <1>9. ASSUME NEW c \in Callers, Launched(c) PROVE Calm'
    <2>1. UNCHANGED <<context, blamed>> /\ pc[c] = "launching"
      BY <1>9 DEF Launched
    <2>2. ASSUME NEW k \in Fresh, running' = running \cup {k}, dressed' = dressed \ {k},
                 Goto(c, "building", k)
          PROVE  Calm'
      <3>1. \A d \in Callers : /\ pc'[d] = IF d = c THEN "building" ELSE pc[d]
                               /\ on'[d] = IF d = c THEN k ELSE on[d]
        BY <1>7, <2>2 DEF CalmTypes, Goto
      <3>2. (\A d \in Callers \ {c} : pc[d] = "idle") /\ context = None
        BY <1>6, <2>1 DEF Calm, SettingUp
      <3>3. running = {}
        BY <1>6, <1>7, <2>1, <3>2 DEF Calm, CalmTypes, None
      <3> QED
        BY <1>6, <2>1, <2>2, <3>1, <3>2, <3>3 DEF Calm, SettingUp, Paging
    <2>3. CASE Leave(c) /\ UNCHANGED <<running, dressed>>
      BY <1>6, <1>7, <2>1, <2>3, CalmMoves DEF Leave
    <2> QED
      BY <1>9, <2>2, <2>3 DEF Launched
  <1>10. ASSUME NEW c \in Callers, Published(c) PROVE Calm'
    <2>1. PICK l \in {"scripting", "dressing"} : Goto(c, l, on[c])
      BY <1>1, <1>10 DEF Published
    <2>2. /\ pc[c] = "building" /\ on[c] \in running /\ context' = on[c]
          /\ UNCHANGED <<running, dressed, blamed>>
      BY <1>1, <1>10 DEF Published
    <2>3. \A d \in Callers : /\ pc'[d] = IF d = c THEN l ELSE pc[d]
                             /\ on'[d] = IF d = c THEN on[c] ELSE on[d]
      BY <1>7, <2>1 DEF CalmTypes, Goto
    <2>4. \A d \in Callers \ {c} : pc[d] = "idle"
      BY <1>6, <2>2 DEF Calm, SettingUp
    <2>5. \A k \in running : k = on[c]
      BY <1>6, <1>7, <2>2, <2>4 DEF Calm, CalmTypes, None
    <2>6. \A d \in Callers : d # c => pc'[d] = "idle"
      BY <2>3, <2>4
    <2>7. pc'[c] \in {"scripting", "dressing"} /\ on'[c] = context'
      BY <2>1, <2>2, <2>3
    <2>8. blamed' = FALSE /\ \A k \in running' : k = context'
      BY <1>6, <2>2, <2>5 DEF Calm
    <2> QED
      BY <2>6, <2>7, <2>8 DEF Calm, SettingUp, Paging
  <1>11. ASSUME NEW c \in Callers, Scripted(c) PROVE Calm'
    <2>1. /\ pc[c] = "scripting" /\ Goto(c, "dressing", context)
          /\ UNCHANGED <<context, running, dressed, blamed>>
      BY <1>1, <1>11 DEF Scripted
    <2> QED
      BY <1>6, <1>7, <2>1 DEF Calm, CalmTypes, SettingUp, Admitted, Paging, None, Goto
  <1>12. ASSUME NEW c \in Callers, Dressed(c) PROVE Calm'
    <2>1. /\ pc[c] = "dressing" /\ Goto(c, "waiting", None)
          /\ dressed' = dressed \cup {on[c]} /\ UNCHANGED <<context, running, blamed>>
      BY <1>1, <1>12 DEF Dressed
    <2> QED
      BY <1>6, <1>7, <2>1 DEF Calm, CalmTypes, SettingUp, Admitted, Paging, None, Goto
  <1>13. ASSUME NEW c \in Callers, Acquire(c) PROVE Calm'
    <2>1. \A d \in Callers : pc[d] \notin SettingUp
      BY <1>6, <1>13 DEF Acquire, Calm, SettingUp
    <2> QED
      BY <1>6, <1>7, <1>13, <2>1, CalmMoves DEF Acquire
  <1>14. ASSUME NEW c \in Callers, Opened(c) PROVE Calm'
    <2>1. /\ pc[c] = "opening" /\ on[c] = context /\ context # None
          /\ UNCHANGED <<context, running, dressed, blamed>>
      BY <1>6, <1>7, <1>14 DEF Opened, Calm, CalmTypes, Paging
    <2>2. \A d \in Callers : pc[d] \notin SettingUp
      BY <1>6, <2>1 DEF Calm, SettingUp
    <2>3. context \in dressed
      BY <1>6, <2>1, <2>2 DEF Calm, SettingUp
    <2>4. CASE Loading(c)
      BY <1>6, <1>7, <2>1, <2>2, <2>3, <2>4, CalmMoves DEF Loading
    <2>5. CASE Leave(c)
      BY <1>6, <1>7, <2>1, <2>5, CalmMoves DEF Leave
    <2> QED
      BY <1>14, <2>4, <2>5 DEF Opened
  <1>15. ASSUME NEW c \in Callers, Settled(c) PROVE Calm'
    <2>1. /\ pc[c] = "loading" /\ Goto(c, "idle", None)
          /\ UNCHANGED <<context, running, dressed>>
      BY <1>6, <1>15 DEF Settled, Leave, Calm
    <2>2. blamed' = blamed
      BY <1>6, <1>15, <2>1 DEF Settled, Calm
    <2> QED
      BY <1>6, <1>7, <2>1, <2>2, CalmMoves
  <1>16. ASSUME NEW k \in Contexts, BrowserDies(k) PROVE Calm'
    BY <1>6, <1>16 DEF BrowserDies, Calm
  <1>17. CASE (\E c \in Callers : Refuse(c)) \/ UNCHANGED vars
    BY <1>6, <1>17 DEF Refuse, vars, Calm
  <1> QED
    BY <1>8, <1>9, <1>10, <1>11, <1>12, <1>13, <1>14, <1>15, <1>16, <1>17
       DEF Next, Awaited

(* Nothing has overlapped and nothing has failed at the start.             *)
LEMMA InitCalm == Init => CalmInv
  BY DEF Init, CalmInv, Calm, SettingUp, Paging, None

(* A good account is marked challenged for want of cookies only where      *)
(* calls overlapped a set-up or one failed half-way (headless.py:65, 199). *)
THEOREM HeadlessFalseChallenge == Spec => []FalseChallengeNeedsRace
  <1>1. CalmInv => FalseChallengeNeedsRace
    BY DEF CalmInv, Calm, FalseChallengeNeedsRace
  <1> QED
    BY InitIInv, StepIInv, InitCalm, CalmStep, <1>1, PTL DEF Spec

(* Nor is a browser lost otherwise (headless.py:69, 84).                   *)
THEOREM HeadlessLeakNeedsRace == Spec => []LeakNeedsRace
  <1>1. CalmInv => LeakNeedsRace
    BY DEF CalmInv, Calm, LeakNeedsRace
  <1> QED
    BY InitIInv, StepIInv, InitCalm, CalmStep, <1>1, PTL DEF Spec

-----------------------------------------------------------------------------
(* What becomes of a call: the part of CallsEnd that needs no fairness *)

(* Whoever holds the lock has a page, for which it waits for nobody        *)
(* (headless.py:141-144).                                                  *)
LockInUse == holder # Nobody => pc[holder] \in Paging

(* The steps a call may still take from where it is.                       *)
StepsFrom(label) ==
  CASE label = "idle"         -> 0
    [] label = "loading"      -> 1
    [] label = "bare" -> 1
    [] label = "opening"      -> 2
    [] label = "waiting"      -> 3
    [] label = "dressing"     -> 4
    [] label = "scripting"    -> 5
    [] label = "building"     -> 6
    [] label = "launching"    -> 7

StepsLeft(c) == StepsFrom(pc[c])

(* A call in flight has steps left, at most those of a set-up and a page.  *)
StepsBounded ==
  \A c \in Callers : StepsLeft(c) \in 0 .. 7 /\ (StepsLeft(c) = 0 <=> pc[c] = "idle")

(* A step of the call uses one up, whether the browser runs or is dead; no *)
(* step of another call, and no crash, gives it one back.                  *)
StepFall ==
  \A c \in Callers :
    pc[c] # "idle" => StepsLeft(c)' < StepsLeft(c) \/ UNCHANGED <<pc[c], on[c]>>

StepsFall == [][StepFall]_vars

(* The lock is taken for a page, and given back with it.                   *)
LEMMA StepLockInUse == IInv /\ LockInUse /\ [Next]_vars => LockInUse'
  <1> SUFFICES ASSUME IInv, LockInUse, [Next]_vars, holder' # Nobody
               PROVE  pc'[holder'] \in Paging
    BY DEF LockInUse
  <1>1. /\ pc \in [Callers -> Admitted \cup Paging \cup {"idle"}]
        /\ holder \in Callers \cup {Nobody}
        /\ \A c \in Callers : pc[c] \in Paging => holder = c
        /\ holder # Nobody => pc[holder] \in Paging
    BY DEF IInv, TypeOK, LockInv, LockInUse
  <1> HIDE DEF IInv, LockInUse
  <1> USE <1>1
  <1>2. ASSUME NEW c \in Callers, NEW l, NEW k, Goto(c, l, k), holder' = holder,
               pc[c] \in Paging => l \in Paging
        PROVE  pc'[holder'] \in Paging
    BY <1>2 DEF Goto
  <1>3. ASSUME NEW c \in Callers, Leave(c) PROVE pc'[holder'] \in Paging
    BY <1>3 DEF Leave, Goto
  <1>4. ASSUME NEW c \in Callers, Acquire(c) PROVE pc'[holder'] \in Paging
    BY <1>4 DEF Acquire, Goto, Paging
  <1>5. ASSUME NEW c \in Callers, Begin(c) PROVE pc'[holder'] \in Paging
    BY <1>2, <1>5 DEF Begin, Paging
  <1>6. ASSUME NEW c \in Callers,
               Launched(c) \/ Published(c) \/ Scripted(c) \/ Dressed(c) \/ Settled(c)
        PROVE  pc'[holder'] \in Paging
    <2>1. ASSUME pc[c] \notin Paging, NEW l, NEW k, Goto(c, l, k), holder' = holder
          PROVE  pc'[holder'] \in Paging
      BY <2>1, <1>2
    <2>2. Launched(c) \/ Published(c) \/ Scripted(c) \/ Dressed(c) => pc[c] \notin Paging
      BY DEF Launched, Published, Scripted, Dressed, Paging
    <2>3. CASE Leave(c)
      BY <1>3, <2>3
    <2>4. ASSUME ~Leave(c)
          PROVE  pc[c] \notin Paging /\ holder' = holder /\ \E l, k : Goto(c, l, k)
      BY <1>6, <2>2, <2>4 DEF Launched, Published, Scripted, Dressed, Settled, GiveUp
    <2> QED
      BY <2>1, <2>3, <2>4
  <1>7. ASSUME NEW c \in Callers, Opened(c) PROVE pc'[holder'] \in Paging
    <2>1. CASE Loading(c) /\ UNCHANGED holder
      <3>1. PICK l \in Paging : Goto(c, l, on[c])
        BY <2>1, Zenon DEF Loading, Paging
      <3> QED
        BY <1>2, <2>1, <3>1
    <2>2. CASE Leave(c)
      BY <1>3, <2>2
    <2> QED
      BY <1>7, <2>1, <2>2 DEF Opened
  <1>8. CASE UNCHANGED <<pc, holder>>
    BY <1>8
  <1> QED
    BY <1>4, <1>5, <1>6, <1>7, <1>8 DEF Next, Awaited, Refuse, BrowserDies, vars

(* So no call waits for one that waits: the lock cannot be left taken by a *)
(* dead browser or a failed page (headless.py:141-206).                    *)
THEOREM HeadlessLockInUse == Spec => []LockInUse
  <1>1. Init => LockInUse
    BY DEF Init, LockInUse
  <1> QED
    BY InitIInv, StepIInv, StepLockInUse, <1>1, PTL DEF Spec

(* The steps left, place by place.                                         *)
LEMMA StepsTable ==
  /\ StepsFrom("idle") = 0 /\ StepsFrom("opening") = 2 /\ StepsFrom("waiting") = 3
  /\ StepsFrom("loading") = 1 /\ StepsFrom("bare") = 1
  /\ StepsFrom("dressing") = 4 /\ StepsFrom("scripting") = 5
  /\ StepsFrom("building") = 6 /\ StepsFrom("launching") = 7
  BY DEF StepsFrom

(* What the types say of the steps left.                                   *)
LEMMA StepsCounted == IInv => StepsBounded
  <1> SUFFICES ASSUME IInv, NEW c \in Callers
               PROVE  StepsLeft(c) \in 0 .. 7 /\ (StepsLeft(c) = 0 <=> pc[c] = "idle")
    BY DEF StepsBounded
  <1>1. pc[c] \in {"idle", "launching", "building", "scripting", "dressing", "waiting",
                   "opening", "loading", "bare"}
    BY DEF IInv, TypeOK, Admitted, SettingUp, Paging
  <1> QED
    BY <1>1, StepsTable DEF StepsLeft

(* Every step of a call brings it nearer to its end.                       *)
LEMMA StepsCountDown == IInv /\ [Next]_vars => StepFall
  <1> SUFFICES ASSUME IInv, [Next]_vars, NEW c \in Callers, pc[c] # "idle"
               PROVE  StepsLeft(c)' < StepsLeft(c) \/ UNCHANGED <<pc[c], on[c]>>
    BY DEF StepFall
  <1>1. /\ pc[c] \in {"launching", "building", "scripting", "dressing", "waiting",
                      "opening", "loading", "bare"}
        /\ DOMAIN pc = Callers /\ DOMAIN on = Callers
    BY DEF IInv, TypeOK, Admitted, SettingUp, Paging
  <1>2. ASSUME NEW d \in Callers, NEW l, NEW k, Goto(d, l, k)
        PROVE  pc'[c] = (IF c = d THEN l ELSE pc[c]) /\ on'[c] = (IF c = d THEN k ELSE on[c])
    <2>1. pc' = [pc EXCEPT ![d] = l] /\ on' = [on EXCEPT ![d] = k]
      BY <1>2 DEF Goto
    <2>2. DOMAIN pc = Callers /\ DOMAIN on = Callers
      BY <1>1
    <2> QED
      BY <2>1, <2>2
  <1>3. ASSUME NEW d \in Callers, d # c, Begin(d) \/ Acquire(d) \/ Awaited(d)
        PROVE  UNCHANGED <<pc[c], on[c]>>
    <2>1. PICK l, k : Goto(d, l, k)
      BY <1>3 DEF Begin, Acquire, Awaited, Launched, Published, Scripted, Dressed, Opened,
                  Settled, Loading, GiveUp, Leave
    <2> QED
      BY <1>2, <1>3, <2>1
  <1>4. CASE Awaited(c) \/ Acquire(c)
    <2>1. ASSUME Leave(c) PROVE StepsLeft(c)' < StepsLeft(c)
      <3>1. StepsLeft(c)' = 0
        BY <1>2, <2>1, StepsTable DEF Leave, StepsLeft
      <3> QED
        BY <1>1, <3>1, StepsTable DEF StepsLeft
    <2>2. CASE Acquire(c)
      BY <1>2, <2>2, StepsTable DEF Acquire, StepsLeft
    <2>3. CASE Launched(c)
      BY <1>2, <2>1, <2>3, StepsTable DEF Launched, StepsLeft
    <2>4. CASE Published(c)
      <3>1. pc'[c] \in {"dressing", "scripting"} \/ Leave(c)
        BY <1>2, <2>4 DEF Published, GiveUp
      <3> QED
        BY <2>1, <2>4, <3>1, StepsTable DEF Published, StepsLeft
    <2>5. CASE Scripted(c)
      BY <1>2, <2>1, <2>5, StepsTable DEF Scripted, GiveUp, StepsLeft
    <2>6. CASE Dressed(c)
      BY <1>2, <2>1, <2>6, StepsTable DEF Dressed, GiveUp, StepsLeft
    <2>7. CASE Opened(c)
      <3>1. pc'[c] \in {"loading", "bare"} \/ Leave(c)
        BY <1>2, <2>7 DEF Opened, Loading
      <3> QED
        BY <2>1, <2>7, <3>1, StepsTable DEF Opened, StepsLeft
    <2>8. CASE Settled(c)
      BY <2>1, <2>8 DEF Settled
    <2> QED
      BY <1>4, <2>2, <2>3, <2>4, <2>5, <2>6, <2>7, <2>8 DEF Awaited
  <1>5. ~Begin(c)
    BY DEF Begin
  <1>6. CASE UNCHANGED <<pc, on>>
    BY <1>6
  <1> QED
    BY <1>3, <1>4, <1>5, <1>6 DEF Next, Refuse, BrowserDies, vars

(* A call that was let in is over after at most a set-up and a page, if it *)
(* goes on at all (headless.py:65-123, 137-206).                           *)
THEOREM HeadlessCallsRunOut == Spec => []StepsBounded /\ StepsFall
  <1>1. IInv /\ [Next]_vars => [StepFall]_vars
    BY StepsCountDown
  <1> QED
    BY InitIInv, StepIInv, StepsCounted, <1>1, PTL DEF Spec, StepsFall
=============================================================================
