--------------------------- MODULE LoginSessionProofs ---------------------------
(* Safety of LoginSession for any number of callers and browsers.          *)
EXTENDS LoginSession, FiniteSetTheorems, TLAPS

Locked == {"pacing", "warming", "cookie", "sent", "closing", "relaunching",
           "relaunched", "relogging"}

(* The lock word and the program counters agree, and a call sends a second *)
(* request only after it has discarded a session.                          *)
LockInv ==
  \A c \in Callers :
    /\ pc[c] \in Locked => holder = c
    /\ pc[c] \notin {"warming", "cookie", "sent"} \cup
                    {"closing", "relaunching", "relaunched", "relogging"} => attempt[c] = 0
    /\ pc[c] \notin {"sent"} => attempt[c] <= 1

(* Only the holder makes self._context None, so there is a context from    *)
(* the assertion until the holder closes it, and nobody else closes what   *)
(* it works on.                                                            *)
SessionInv ==
  /\ context \notin closed
  /\ \A c \in Callers :
       /\ pc[c] \in {"warming", "cookie", "sent", "closing", "relaunched", "relogging"}
            => context # None
       /\ pc[c] \in {"sent", "relogging"} => on[c] \notin closed
       /\ pc[c] = "closing" => on[c] # None

(* As long as launches have not overlapped, one is in progress only when   *)
(* there is no session, and everyone means the same one.                   *)
SoloInv ==
  overlaps = 0 =>
    /\ \A c, d \in Callers :
         pc[c] \in Launching => context = None /\ (pc[d] \in Launching => c = d)
    /\ \A c \in Callers :
         /\ pc[c] \in {"sent", "closing"} => on[c] = context
         /\ pc[c] \in {"cookie", "sent"} => token[c] = context

(* The calls that launch, and the browsers that run or that the holder is  *)
(* about to close.                                                         *)
Launchers == {c \in Callers : pc[c] \in Launching}
Kept ==
  {k \in Contexts : k \in open \/ \E c \in Callers : pc[c] = "closing" /\ on[c] = k}

(* A launch in progress will leave a browser behind unless it is the only  *)
(* one and there is no session: the next to end makes the current one.     *)
Doomed ==
  LET n == Cardinality(Launchers)
  IN IF context = None /\ n > 0 THEN n - 1 ELSE n

(* What is left behind and what will be is paid for.                       *)
LeakInv ==
  /\ IsFiniteSet(Kept)
  /\ IsFiniteSet(Launchers)
  /\ overlaps < MaxTally /\ unclosed < MaxTally =>
       Cardinality(Kept \ {context}) + Doomed <= overlaps + unclosed

IInv == TypeOK /\ LockInv /\ SessionInv /\ SoloInv /\ LeakInv

(* The invariant holds at the start.                                       *)
LEMMA InitIInv == Init => IInv
  <1> SUFFICES ASSUME Init PROVE IInv
    OBVIOUS
  <1>1. loggedIn \in BOOLEAN
    BY Zenon DEF Init
  <1>2. /\ context \in Contexts \cup {None} /\ open \subseteq Contexts
        /\ closed \subseteq Contexts
        /\ overlaps \in 0 .. MaxTally /\ unclosed \in 0 .. MaxTally
        /\ holder \in Callers \cup {Nobody}
        /\ on \in [Callers -> Contexts \cup {None}]
        /\ token \in [Callers -> Contexts \cup {None}] /\ attempt \in [Callers -> 0 .. 2]
    BY LoginAssumption DEF Init
  <1>3. pc \in [Callers -> {"idle", "launching", "launched", "validating", "signing",
                           "waiting", "pacing", "warming", "cookie", "sent",
                           "closing", "relaunching", "relaunched", "relogging"}]
    BY DEF Init
  <1>4. TypeOK
    BY <1>1, <1>2, <1>3, Zenon DEF TypeOK
  <1>5. LockInv /\ SessionInv /\ SoloInv
    BY DEF Init, LockInv, SessionInv, SoloInv, Locked, Launching
  <1>6. LeakInv
    <2>1. Kept = {} /\ Launchers = {} /\ Kept \ {context} = {}
      BY DEF Init, Kept, Launchers, Launching
    <2> QED
      BY <2>1, FS_EmptySet DEF LeakInv, Doomed, Init
  <1> QED
    BY <1>4, <1>5, <1>6 DEF IInv

(* What TypeOK says of the variables but the flag.                         *)
Shape ==
  /\ context \in Contexts \cup {None}
  /\ open \subseteq Contexts
  /\ closed \subseteq Contexts
  /\ overlaps \in 0 .. MaxTally
  /\ unclosed \in 0 .. MaxTally
  /\ holder \in Callers \cup {Nobody}
  /\ pc \in [Callers -> {"idle", "launching", "launched", "validating", "signing",
                         "waiting", "pacing", "warming", "cookie", "sent",
                         "closing", "relaunching", "relaunched", "relogging"}]
  /\ on \in [Callers -> Contexts \cup {None}]
  /\ token \in [Callers -> Contexts \cup {None}]
  /\ attempt \in [Callers -> 0 .. 2]

(* Every step keeps the types of all but the flag,                         *)
LEMMA StepShape == IInv /\ [Next]_vars => Shape'
  <1> SUFFICES ASSUME IInv, [Next]_vars
               PROVE  Shape'
    OBVIOUS
  <1> USE LoginAssumption DEF IInv, TypeOK, Shape, LockInv, Locked, Goto, None, Nobody
  <1>1. ASSUME NEW c \in Callers, Begin(c) PROVE Shape'
    BY <1>1 DEF Begin, CountLaunch, OneMore
  <1>2. ASSUME NEW c \in Callers, Acquire(c) PROVE Shape'
    BY <1>2 DEF Acquire, histories
  <1>3. ASSUME NEW c \in Callers, Launched(c) PROVE Shape'
    BY <1>3 DEF Launched, Launch, Leave, Fresh
  <1>4. ASSUME NEW c \in Callers, Prepared(c) PROVE Shape'
    BY <1>4 DEF Prepared, Leave, histories
  <1>5. ASSUME NEW c \in Callers, Validated(c) PROVE Shape'
    BY <1>5 DEF Validated, Leave, histories
  <1>6. ASSUME NEW c \in Callers, SignedIn(c) PROVE Shape'
    BY <1>6 DEF SignedIn, Leave, histories
  <1>7. ASSUME NEW c \in Callers, Charge(c) PROVE Shape'
    BY <1>7 DEF Charge, Leave, histories
  <1>8. ASSUME NEW c \in Callers, ReadCookie(c) PROVE Shape'
    BY <1>8 DEF ReadCookie, Leave, histories
  <1>9. ASSUME NEW c \in Callers, Send(c) PROVE Shape'
    BY <1>9 DEF Send, Leave, histories
  <1>10. ASSUME NEW c \in Callers, Answer(c) PROVE Shape'
    BY <1>10 DEF Answer, Leave, histories
  <1>11. ASSUME NEW c \in Callers, Closed(c) PROVE Shape'
    <2>1. overlaps' \in 0 .. MaxTally /\ unclosed' \in 0 .. MaxTally
      BY <1>11 DEF Closed, CountLaunch, OneMore
    <2> QED
      BY <1>11, <2>1 DEF Closed, SessionInv
  <1>12. ASSUME NEW c \in Callers, Relaunched(c) PROVE Shape'
    BY <1>12 DEF Relaunched, Launch, Leave, Fresh
  <1>13. ASSUME NEW c \in Callers, Reprepared(c) PROVE Shape'
    BY <1>13 DEF Reprepared, Leave, histories
  <1>14. ASSUME NEW c \in Callers, Relogged(c) PROVE Shape'
    BY <1>14 DEF Relogged, Leave, histories
  <1>15. ASSUME NEW k \in Contexts, BrowserDies(k) PROVE Shape'
    BY <1>15 DEF BrowserDies, histories
  <1>16. CASE UNCHANGED vars
    BY <1>16 DEF vars
  <1> QED
    BY <1>1, <1>2, <1>3, <1>4, <1>5, <1>6, <1>7, <1>8, <1>9, <1>10, <1>11, <1>12, <1>13, <1>14, <1>15, <1>16 DEF Next, Awaited

(* and the flag, whose value is one step by itself for the provers;        *)
LEMMA StepFlag == IInv /\ [Next]_vars => loggedIn' \in BOOLEAN
  <1> SUFFICES ASSUME IInv, [Next]_vars
               PROVE  loggedIn' \in BOOLEAN
    OBVIOUS
  <1>1. loggedIn \in BOOLEAN
    BY Zenon DEF IInv, TypeOK
  <1>2. loggedIn' = loggedIn \/ loggedIn' = TRUE \/ loggedIn' = FALSE
    BY DEF Next, Awaited, vars, Begin, Acquire, Launched, Prepared, Validated, SignedIn,
           Charge, ReadCookie, Send, Answer, Closed, Relaunched, Reprepared, Relogged,
           BrowserDies
  <1> QED
    BY <1>1, <1>2, Zenon

(* together the types.                                                     *)
LEMMA StepType == IInv /\ [Next]_vars => TypeOK'
  BY StepShape, StepFlag, Zenon DEF Shape, TypeOK

(* Every step keeps the lock with the call that is inside it,              *)
LEMMA StepLock == IInv /\ [Next]_vars => LockInv'
  <1> SUFFICES ASSUME IInv, [Next]_vars
               PROVE  LockInv'
    OBVIOUS
  <1> USE LoginAssumption DEF IInv, TypeOK, LockInv, Locked, Goto, None, Nobody
  <1>1. ASSUME NEW c \in Callers, Begin(c) PROVE LockInv'
    BY <1>1 DEF Begin, CountLaunch, OneMore
  <1>2. ASSUME NEW c \in Callers, Acquire(c) PROVE LockInv'
    BY <1>2 DEF Acquire, histories
  <1>3. ASSUME NEW c \in Callers, Launched(c) PROVE LockInv'
    BY <1>3 DEF Launched, Launch, Leave, Fresh
  <1>4. ASSUME NEW c \in Callers, Prepared(c) PROVE LockInv'
    BY <1>4 DEF Prepared, Leave, histories
  <1>5. ASSUME NEW c \in Callers, Validated(c) PROVE LockInv'
    BY <1>5 DEF Validated, Leave, histories
  <1>6. ASSUME NEW c \in Callers, SignedIn(c) PROVE LockInv'
    BY <1>6 DEF SignedIn, Leave, histories
  <1>7. ASSUME NEW c \in Callers, Charge(c) PROVE LockInv'
    BY <1>7 DEF Charge, Leave, histories
  <1>8. ASSUME NEW c \in Callers, ReadCookie(c) PROVE LockInv'
    BY <1>8 DEF ReadCookie, Leave, histories
  <1>9. ASSUME NEW c \in Callers, Send(c) PROVE LockInv'
    BY <1>9 DEF Send, Leave, histories
  <1>10. ASSUME NEW c \in Callers, Answer(c) PROVE LockInv'
    BY <1>10 DEF Answer, Leave, histories
  <1>11. ASSUME NEW c \in Callers, Closed(c) PROVE LockInv'
    BY <1>11 DEF Closed, CountLaunch, OneMore
  <1>12. ASSUME NEW c \in Callers, Relaunched(c) PROVE LockInv'
    BY <1>12 DEF Relaunched, Launch, Leave, Fresh
  <1>13. ASSUME NEW c \in Callers, Reprepared(c) PROVE LockInv'
    BY <1>13 DEF Reprepared, Leave, histories
  <1>14. ASSUME NEW c \in Callers, Relogged(c) PROVE LockInv'
    BY <1>14 DEF Relogged, Leave, histories
  <1>15. ASSUME NEW k \in Contexts, BrowserDies(k) PROVE LockInv'
    BY <1>15 DEF BrowserDies, histories
  <1>16. CASE UNCHANGED vars
    BY <1>16 DEF vars
  <1> QED
    BY <1>1, <1>2, <1>3, <1>4, <1>5, <1>6, <1>7, <1>8, <1>9, <1>10, <1>11, <1>12, <1>13, <1>14, <1>15, <1>16 DEF Next, Awaited

(* who holds which context,                                                *)
LEMMA StepSession == IInv /\ [Next]_vars => SessionInv'
  <1> SUFFICES ASSUME IInv, [Next]_vars
               PROVE  SessionInv'
    OBVIOUS
  <1> USE LoginAssumption DEF IInv, TypeOK, LockInv, Locked, SessionInv, Goto, None, Nobody
  <1>1. ASSUME NEW c \in Callers, Begin(c) PROVE SessionInv'
    BY <1>1 DEF Begin, CountLaunch, OneMore
  <1>2. ASSUME NEW c \in Callers, Acquire(c) PROVE SessionInv'
    BY <1>2 DEF Acquire, histories
  <1>3. ASSUME NEW c \in Callers, Launched(c) PROVE SessionInv'
    BY <1>3 DEF Launched, Launch, Leave, Fresh
  <1>4. ASSUME NEW c \in Callers, Prepared(c) PROVE SessionInv'
    BY <1>4 DEF Prepared, Leave, histories
  <1>5. ASSUME NEW c \in Callers, Validated(c) PROVE SessionInv'
    BY <1>5 DEF Validated, Leave, histories
  <1>6. ASSUME NEW c \in Callers, SignedIn(c) PROVE SessionInv'
    BY <1>6 DEF SignedIn, Leave, histories
  <1>7. ASSUME NEW c \in Callers, Charge(c) PROVE SessionInv'
    BY <1>7 DEF Charge, Leave, histories
  <1>8. ASSUME NEW c \in Callers, ReadCookie(c) PROVE SessionInv'
    BY <1>8 DEF ReadCookie, Leave, histories
  <1>9. ASSUME NEW c \in Callers, Send(c) PROVE SessionInv'
    BY <1>9 DEF Send, Leave, histories
  <1>10. ASSUME NEW c \in Callers, Answer(c) PROVE SessionInv'
    BY <1>10 DEF Answer, Leave, histories
  <1>11. ASSUME NEW c \in Callers, Closed(c) PROVE SessionInv'
    BY <1>11 DEF Closed, CountLaunch, OneMore
  <1>12. ASSUME NEW c \in Callers, Relaunched(c) PROVE SessionInv'
    BY <1>12 DEF Relaunched, Launch, Leave, Fresh
  <1>13. ASSUME NEW c \in Callers, Reprepared(c) PROVE SessionInv'
    BY <1>13 DEF Reprepared, Leave, histories
  <1>14. ASSUME NEW c \in Callers, Relogged(c) PROVE SessionInv'
    BY <1>14 DEF Relogged, Leave, histories
  <1>15. ASSUME NEW k \in Contexts, BrowserDies(k) PROVE SessionInv'
    BY <1>15 DEF BrowserDies, histories
  <1>16. CASE UNCHANGED vars
    BY <1>16 DEF vars
  <1> QED
    BY <1>1, <1>2, <1>3, <1>4, <1>5, <1>6, <1>7, <1>8, <1>9, <1>10, <1>11, <1>12, <1>13, <1>14, <1>15, <1>16 DEF Next, Awaited

(* and, while no two launches overlapped, that there is only one.          *)
LEMMA StepSolo == IInv /\ [Next]_vars => SoloInv'
  <1> SUFFICES ASSUME IInv, [Next]_vars
               PROVE  SoloInv'
    OBVIOUS
  <1> USE LoginAssumption DEF IInv, TypeOK, LockInv, Locked, SessionInv, SoloInv, Launching, Goto, None, Nobody
  <1>1. ASSUME NEW c \in Callers, Begin(c) PROVE SoloInv'
    <2>1. CASE context = None
      <3>1. SUFFICES ASSUME overlaps' = 0 PROVE SoloInv'
        BY DEF SoloInv
      <3>2. overlaps = 0 /\ \A d \in Callers \ {c} : pc[d] \notin Launching
        BY <1>1, <2>1, <3>1 DEF Begin, CountLaunch, OneMore
      <3> QED
        BY <1>1, <2>1, <3>2 DEF Begin
    <2>2. CASE context # None
      BY <1>1, <2>2 DEF Begin
    <2> QED
      BY <2>1, <2>2
  <1>2. ASSUME NEW c \in Callers, Acquire(c) PROVE SoloInv'
    BY <1>2 DEF Acquire, histories
  <1>3. ASSUME NEW c \in Callers, Launched(c) PROVE SoloInv'
    BY <1>3 DEF Launched, Launch, Leave, Fresh
  <1>4. ASSUME NEW c \in Callers, Prepared(c) PROVE SoloInv'
    BY <1>4 DEF Prepared, Leave, histories
  <1>5. ASSUME NEW c \in Callers, Validated(c) PROVE SoloInv'
    BY <1>5 DEF Validated, Leave, histories
  <1>6. ASSUME NEW c \in Callers, SignedIn(c) PROVE SoloInv'
    BY <1>6 DEF SignedIn, Leave, histories
  <1>7. ASSUME NEW c \in Callers, Charge(c) PROVE SoloInv'
    BY <1>7 DEF Charge, Leave, histories
  <1>8. ASSUME NEW c \in Callers, ReadCookie(c) PROVE SoloInv'
    BY <1>8 DEF ReadCookie, Leave, histories
  <1>9. ASSUME NEW c \in Callers, Send(c) PROVE SoloInv'
    BY <1>9 DEF Send, Leave, histories
  <1>10. ASSUME NEW c \in Callers, Answer(c) PROVE SoloInv'
    BY <1>10 DEF Answer, Leave, histories
  <1>11. ASSUME NEW c \in Callers, Closed(c) PROVE SoloInv'
    <2>1. SUFFICES ASSUME overlaps' = 0 PROVE SoloInv'
      BY DEF SoloInv
    <2>2. overlaps = 0 /\ \A d \in Callers \ {c} : pc[d] \notin Launching
      BY <1>11, <2>1 DEF Closed, CountLaunch, OneMore
    <2> QED
      BY <1>11, <2>2 DEF Closed
  <1>12. ASSUME NEW c \in Callers, Relaunched(c) PROVE SoloInv'
    BY <1>12 DEF Relaunched, Launch, Leave, Fresh
  <1>13. ASSUME NEW c \in Callers, Reprepared(c) PROVE SoloInv'
    BY <1>13 DEF Reprepared, Leave, histories
  <1>14. ASSUME NEW c \in Callers, Relogged(c) PROVE SoloInv'
    BY <1>14 DEF Relogged, Leave, histories
  <1>15. ASSUME NEW k \in Contexts, BrowserDies(k) PROVE SoloInv'
    BY <1>15 DEF BrowserDies, histories
  <1>16. CASE UNCHANGED vars
    BY <1>16 DEF vars
  <1> QED
    BY <1>1, <1>2, <1>3, <1>4, <1>5, <1>6, <1>7, <1>8, <1>9, <1>10, <1>11, <1>12, <1>13, <1>14, <1>15, <1>16 DEF Next, Awaited

(* What there is to count, in numbers.                                     *)
LEMMA LeakCounts ==
  ASSUME IInv
  PROVE  /\ Cardinality(Launchers) \in Nat /\ (Cardinality(Launchers) = 0 <=> Launchers = {})
         /\ IsFiniteSet(Kept) /\ IsFiniteSet(Launchers)
         /\ \A k : IsFiniteSet(Kept \ {k}) /\ Cardinality(Kept \ {k}) \in Nat
         /\ \A k \in Kept : Cardinality(Kept) = Cardinality(Kept \ {k}) + 1
         /\ \A k : k \notin Kept => Cardinality(Kept) = Cardinality(Kept \ {k})
         /\ overlaps \in Nat /\ unclosed \in Nat /\ MaxTally \in Nat
  <1>1. IsFiniteSet(Kept) /\ IsFiniteSet(Launchers)
    BY DEF IInv, LeakInv
  <1>2. Cardinality(Kept) \in Nat /\ Cardinality(Launchers) \in Nat
    BY <1>1, FS_CardinalityType
  <1>3. Cardinality(Launchers) = 0 <=> Launchers = {}
    BY <1>1, FS_EmptySet
  <1>4. ASSUME NEW k
        PROVE  /\ IsFiniteSet(Kept \ {k}) /\ Cardinality(Kept \ {k}) \in Nat
               /\ k \in Kept => Cardinality(Kept) = Cardinality(Kept \ {k}) + 1
               /\ k \notin Kept => Cardinality(Kept) = Cardinality(Kept \ {k})
    <2>1. /\ IsFiniteSet(Kept \ {k})
          /\ Cardinality(Kept \ {k}) =
               IF k \in Kept THEN Cardinality(Kept) - 1 ELSE Cardinality(Kept)
      BY <1>1, FS_RemoveElement, Zenon
    <2>2. Cardinality(Kept \ {k}) \in Nat
      BY <2>1, FS_CardinalityType
    <2> QED
      BY <1>2, <2>1, <2>2
  <1>5. overlaps \in Nat /\ unclosed \in Nat /\ MaxTally \in Nat
    BY LoginAssumption DEF IInv, TypeOK
  <1> QED
    BY <1>1, <1>2, <1>3, <1>4, <1>5

(* Steps that launch nothing and forget nobody leave no browser behind.    *)
LEMMA QuietLeaks ==
  ASSUME IInv, Kept' \subseteq Kept \cup {context}, Launchers' \subseteq Launchers,
         UNCHANGED <<context, overlaps, unclosed>>
  PROVE  LeakInv'
  <1>0. /\ overlaps \in Nat /\ unclosed \in Nat /\ MaxTally \in Nat
        /\ Cardinality(Launchers) \in Nat
        /\ Cardinality(Kept \ {context}) \in Nat
    BY LeakCounts
  <1>1. IsFiniteSet(Kept') /\ IsFiniteSet(Launchers')
    BY LeakCounts, FS_AddElement, FS_Subset
  <1>2. /\ Cardinality(Launchers') \in Nat
        /\ Cardinality(Launchers') <= Cardinality(Launchers)
    BY <1>1, LeakCounts, FS_Subset, FS_CardinalityType
  <1>3. Kept' \ {context} \in SUBSET (Kept \ {context})
    OBVIOUS
  <1>4. /\ Cardinality(Kept' \ {context}) \in Nat
        /\ Cardinality(Kept' \ {context}) <= Cardinality(Kept \ {context})
    BY <1>3, LeakCounts, FS_Subset, FS_CardinalityType
  <1>5. Doomed' <= Doomed /\ Doomed \in Nat /\ Doomed' \in Nat
    BY <1>2, LeakCounts DEF Doomed
  <1>6. overlaps < MaxTally /\ unclosed < MaxTally =>
          Cardinality(Kept \ {context}) + Doomed <= overlaps + unclosed
    BY DEF IInv, LeakInv
  <1>7. overlaps' < MaxTally /\ unclosed' < MaxTally =>
          Cardinality(Kept' \ {context}) + Doomed' <= overlaps' + unclosed'
    BY <1>0, <1>4, <1>5, <1>6
  <1> QED
    BY <1>1, <1>7 DEF LeakInv

(* A launch that ends leaves behind what was current, for which its own    *)
(* doom was counted.                                                       *)
LEMMA LaunchLeaks ==
  ASSUME IInv, NEW c \in Callers, c \in Launchers, Launch,
         pc' = [pc EXCEPT ![c] = "launched"] \/ pc' = [pc EXCEPT ![c] = "relaunched"],
         on' = [on EXCEPT ![c] = None], UNCHANGED <<overlaps, unclosed>>
  PROVE  LeakInv'
  <1>0. /\ overlaps \in Nat /\ unclosed \in Nat /\ MaxTally \in Nat
        /\ Cardinality(Launchers) \in Nat
        /\ Cardinality(Kept \ {context}) \in Nat
    BY LeakCounts
  <1>1. PICK k \in Fresh : context' = k /\ open' = open \cup {k}
    BY DEF Launch
  <1>2. k \in Contexts /\ k # None /\ None \notin Kept
    BY <1>1, LoginAssumption DEF Fresh, Kept, None
  <1>3. Kept' \subseteq Kept \cup {k} /\ Launchers' = Launchers \ {c}
    BY <1>1, <1>2 DEF Kept, Launchers, Launching, IInv, TypeOK
  <1>4. /\ IsFiniteSet(Kept') /\ IsFiniteSet(Launchers')
        /\ Cardinality(Launchers') = Cardinality(Launchers) - 1
    <2>1. IsFiniteSet(Kept')
      BY <1>3, LeakCounts, FS_AddElement, FS_Subset
    <2>2. /\ IsFiniteSet(Launchers \ {c})
          /\ Cardinality(Launchers \ {c}) = Cardinality(Launchers) - 1
      BY LeakCounts, FS_RemoveElement
    <2> QED
      BY <1>3, <2>1, <2>2
  <1>5. Kept' \ {context'} \in SUBSET Kept
    BY <1>1, <1>3
  <1>6. Cardinality(Kept' \ {context'}) \in Nat
        /\ Cardinality(Kept' \ {context'}) <= Cardinality(Kept)
    BY <1>5, LeakCounts, FS_Subset, FS_CardinalityType
  <1>7. Doomed' = Cardinality(Launchers) - 1
    BY <1>1, <1>2, <1>4 DEF Doomed
  <1>8. Cardinality(Launchers) > 0
    BY LeakCounts
  <1>9. Cardinality(Kept) + Doomed' <= Cardinality(Kept \ {context}) + Doomed
    <2>1. CASE context = None
      <3>1. Cardinality(Kept) = Cardinality(Kept \ {context})
        BY <1>2, <2>1, LeakCounts
      <3>2. Doomed = Cardinality(Launchers) - 1
        BY <1>8, <2>1 DEF Doomed
      <3> QED
        BY <1>0, <1>7, <1>8, <3>1, <3>2
    <2>2. CASE context # None
      <3>1. \/ Cardinality(Kept) = Cardinality(Kept \ {context})
            \/ Cardinality(Kept) = Cardinality(Kept \ {context}) + 1
        BY LeakCounts
      <3>2. Doomed = Cardinality(Launchers)
        BY <2>2 DEF Doomed
      <3> QED
        BY <1>0, <1>7, <1>8, <3>1, <3>2
    <2> QED
      BY <2>1, <2>2
  <1>10. Doomed \in Nat /\ Doomed' \in Nat
    BY <1>0, <1>7, <1>8 DEF Doomed
  <1>11. overlaps < MaxTally /\ unclosed < MaxTally =>
           Cardinality(Kept \ {context}) + Doomed <= overlaps + unclosed
    BY DEF IInv, LeakInv
  <1>12. Cardinality(Kept) \in Nat /\ Cardinality(Kept \ {context}) \in Nat
    BY LeakCounts, FS_CardinalityType
  <1>13. overlaps' < MaxTally /\ unclosed' < MaxTally =>
           Cardinality(Kept' \ {context'}) + Doomed' <= overlaps' + unclosed'
    BY <1>0, <1>6, <1>9, <1>10, <1>11, <1>12
  <1> QED
    BY <1>4, <1>13 DEF LeakInv

(* A launch that begins is counted unless it is alone.                     *)
LEMMA BeginLeaks ==
  ASSUME IInv, NEW c \in Callers, c \notin Launchers, context = None, CountLaunch(c),
         pc' = [pc EXCEPT ![c] = "launching"], on' = [on EXCEPT ![c] = None],
         UNCHANGED <<context, open, unclosed>>
  PROVE  LeakInv'
  <1>0. /\ overlaps \in Nat /\ unclosed \in Nat /\ MaxTally \in Nat
        /\ Cardinality(Launchers) \in Nat
        /\ Cardinality(Kept \ {context}) \in Nat
    BY LeakCounts
  <1>1. Kept' \subseteq Kept /\ Launchers' = Launchers \cup {c}
    BY DEF Kept, Launchers, Launching, IInv, TypeOK
  <1>2. /\ IsFiniteSet(Launchers')
        /\ Cardinality(Launchers') = Cardinality(Launchers) + 1
    BY <1>1, LeakCounts, FS_AddElement
  <1>3. Kept' \ {context} \in SUBSET (Kept \ {context}) /\ Kept' \in SUBSET Kept
    BY <1>1
  <1>4. /\ IsFiniteSet(Kept')
        /\ Cardinality(Kept' \ {context}) \in Nat
        /\ Cardinality(Kept' \ {context}) <= Cardinality(Kept \ {context})
    BY <1>3, LeakCounts, FS_Subset, FS_CardinalityType
  <1>5. Doomed' = Cardinality(Launchers)
    BY <1>0, <1>2 DEF Doomed
  <1>6. overlaps < MaxTally /\ unclosed < MaxTally =>
          Cardinality(Kept \ {context}) + Doomed <= overlaps + unclosed
    BY DEF IInv, LeakInv
  <1>7. CASE Launchers = {}
    <2>1. overlaps' = overlaps
      BY <1>7 DEF CountLaunch, Launchers
    <2>2. Doomed = 0 /\ Doomed' = 0
      <3>1. Cardinality(Launchers) = 0
        BY <1>7, LeakCounts
      <3> QED
        BY <1>5, <3>1 DEF Doomed
    <2>3. overlaps' < MaxTally /\ unclosed' < MaxTally =>
            Cardinality(Kept' \ {context'}) + Doomed' <= overlaps' + unclosed'
      BY <1>0, <1>4, <1>6, <2>1, <2>2
    <2> QED
      BY <1>2, <1>4, <2>3 DEF LeakInv
  <1>8. CASE Launchers # {}
    <2>1. overlaps' = OneMore(overlaps)
      BY <1>8 DEF CountLaunch, Launchers
    <2>2. Cardinality(Launchers) > 0 /\ Doomed = Cardinality(Launchers) - 1
      <3>1. Cardinality(Launchers) # 0
        BY <1>8, LeakCounts
      <3> QED
        BY <1>0, <3>1 DEF Doomed
    <2>3. overlaps' < MaxTally /\ unclosed' < MaxTally =>
            Cardinality(Kept' \ {context'}) + Doomed' <= overlaps' + unclosed'
      BY <1>0, <1>4, <1>5, <1>6, <2>1, <2>2 DEF OneMore
    <2> QED
      BY <1>2, <1>4, <2>3 DEF LeakInv
  <1> QED
    BY <1>7, <1>8

(* The holder forgets what is current instead of what it closes; a browser *)
(* it fails to close is counted.                                           *)
LEMMA CloseLeaks ==
  ASSUME IInv, NEW c \in Callers, Closed(c)
  PROVE  LeakInv'
  <1>0. /\ overlaps \in Nat /\ unclosed \in Nat /\ MaxTally \in Nat
        /\ Cardinality(Launchers) \in Nat
        /\ Cardinality(Kept \ {context}) \in Nat
    BY LeakCounts
  <1>1. /\ context # None /\ context' = None /\ None \notin Kept
        /\ on[c] \in Contexts /\ on[c] \in Kept
        /\ \A d \in Callers : pc[d] = "closing" => d = c
    BY LoginAssumption
       DEF Closed, IInv, TypeOK, SessionInv, LockInv, Locked, Kept, None, Nobody
  <1>2. \A d \in Callers : pc'[d] # "closing"
    BY <1>1 DEF Closed, Goto, IInv, TypeOK
  <1>3. Kept' = open' /\ Kept' \in SUBSET Kept /\ Launchers' = Launchers \cup {c}
        /\ c \notin Launchers
    BY <1>1, <1>2 DEF Closed, Goto, Kept, Launchers, Launching, IInv, TypeOK
  <1>4. /\ IsFiniteSet(Launchers')
        /\ Cardinality(Launchers') = Cardinality(Launchers) + 1
    BY <1>3, LeakCounts, FS_AddElement
  <1>5. Doomed = Cardinality(Launchers) /\ Doomed' = Cardinality(Launchers)
    BY <1>0, <1>1, <1>4 DEF Doomed
  <1>6. IsFiniteSet(Kept') /\ Cardinality(Kept') \in Nat
    BY <1>3, LeakCounts, FS_Subset, FS_CardinalityType
  <1>7. Kept' \ {context'} = Kept'
    BY <1>1, <1>3
  <1>8. overlaps' = overlaps \/ overlaps' = OneMore(overlaps)
    BY DEF Closed, CountLaunch
  <1>9. overlaps < MaxTally /\ unclosed < MaxTally =>
          Cardinality(Kept \ {context}) + Doomed <= overlaps + unclosed
    BY DEF IInv, LeakInv
  <1>10. Cardinality(Kept \ {on[c]}) <= Cardinality(Kept \ {context})
         /\ Cardinality(Kept) <= Cardinality(Kept \ {context}) + 1
         /\ Cardinality(Kept) \in Nat
    <2>1. Cardinality(Kept) = Cardinality(Kept \ {on[c]}) + 1
          /\ Cardinality(Kept \ {on[c]}) \in Nat
      BY <1>1, LeakCounts
    <2>2. \/ Cardinality(Kept) = Cardinality(Kept \ {context})
          \/ Cardinality(Kept) = Cardinality(Kept \ {context}) + 1
      BY LeakCounts
    <2> QED
      BY <1>0, <2>1, <2>2
  <1>11. CASE Kept' \subseteq Kept \ {on[c]} /\ unclosed' = unclosed
    <2>1. Kept' \in SUBSET (Kept \ {on[c]})
      BY <1>11
    <2>2. Cardinality(Kept') <= Cardinality(Kept \ {on[c]})
          /\ Cardinality(Kept \ {on[c]}) \in Nat
      BY <2>1, LeakCounts, FS_Subset
    <2>3. Cardinality(Kept' \ {context'}) <= Cardinality(Kept \ {context})
      BY <1>0, <1>6, <1>7, <1>10, <2>2
    <2>4. overlaps' < MaxTally /\ unclosed' < MaxTally =>
            Cardinality(Kept' \ {context'}) + Doomed' <= overlaps' + unclosed'
      <3>1. overlaps' \in Nat /\ overlaps <= overlaps'
        BY <1>0, <1>8 DEF OneMore
      <3>2. Cardinality(Kept' \ {context'}) \in Nat
        BY <1>6, <1>7
      <3> QED
        BY <1>0, <1>5, <1>9, <1>11, <2>3, <3>1, <3>2
    <2> QED
      BY <1>4, <1>6, <2>4 DEF LeakInv
  <1>12. CASE unclosed' = OneMore(unclosed)
    <2>1. Cardinality(Kept') <= Cardinality(Kept)
      BY <1>3, LeakCounts, FS_Subset
    <2>2. overlaps' < MaxTally /\ unclosed' < MaxTally =>
            Cardinality(Kept' \ {context'}) + Doomed' <= overlaps' + unclosed'
      BY <1>5, <1>6, <1>7, <1>8, <1>9, <1>10, <1>12, <2>1, <1>0 DEF OneMore
    <2> QED
      BY <1>4, <1>6, <2>2 DEF LeakInv
  <1>13. \/ open' = open \ {on[c]} /\ unclosed' = unclosed
         \/ on[c] \in open /\ unclosed' = OneMore(unclosed)
         \/ on[c] \notin open /\ open' = open /\ unclosed' = unclosed
    BY DEF Closed
  <1>14. open' \subseteq Kept
    BY <1>3
  <1> QED
    BY <1>3, <1>11, <1>12, <1>13, <1>14

(* So what is left behind is paid for.                                     *)
LEMMA StepLeak == IInv /\ [Next]_vars => LeakInv'
  <1> SUFFICES ASSUME IInv, [Next]_vars
               PROVE  LeakInv'
    OBVIOUS
  <1>1. ASSUME NEW c \in Callers, pc[c] # "closing", Goto(c, pc'[c], on'[c]),
               pc'[c] = "closing" => on'[c] = context,
               pc'[c] \in Launching => pc[c] \in Launching,
               UNCHANGED <<context, open, overlaps, unclosed>>
        PROVE  LeakInv'
    <2>1. Kept' \subseteq Kept \cup {context} /\ Launchers' \subseteq Launchers
      BY <1>1 DEF Goto, Kept, Launchers, IInv, TypeOK
    <2> QED
      BY <1>1, <2>1, QuietLeaks
  <1>2. \A c \in Callers : \A l, k :
          Goto(c, l, k) => pc'[c] = l /\ on'[c] = k
    BY DEF Goto, IInv, TypeOK
  <1>3. ASSUME NEW c \in Callers, Begin(c) PROVE LeakInv'
    <2>1. CASE context = None
      BY <1>3, <2>1, BeginLeaks DEF Begin, Goto, Launchers, Launching
    <2>2. CASE context # None
      BY <1>1, <1>2, <1>3, <2>2 DEF Begin, Launching
    <2> QED
      BY <2>1, <2>2
  <1>4. ASSUME NEW c \in Callers, Launched(c) \/ Relaunched(c) PROVE LeakInv'
    <2>1. CASE Leave(c) /\ UNCHANGED <<context, open, closed>>
      BY <1>1, <1>2, <1>4, <2>1 DEF Launched, Relaunched, Leave, Launching
    <2>2. CASE Launch /\ (Goto(c, "launched", None) \/ Goto(c, "relaunched", None))
      <3>1. c \in Launchers /\ UNCHANGED <<overlaps, unclosed>>
        BY <1>4 DEF Launched, Relaunched, Launchers, Launching
      <3> QED
        BY <2>2, <3>1, LaunchLeaks DEF Goto
    <2> QED
      BY <1>4, <2>1, <2>2 DEF Launched, Relaunched
  <1>5. ASSUME NEW c \in Callers, Answer(c) PROVE LeakInv'
    BY <1>1, <1>2, <1>5 DEF Answer, Leave, histories, Launching
  <1>6. ASSUME NEW c \in Callers,
               \/ Acquire(c) \/ Prepared(c) \/ Validated(c) \/ SignedIn(c) \/ Charge(c)
               \/ ReadCookie(c) \/ Send(c) \/ Reprepared(c) \/ Relogged(c)
        PROVE  LeakInv'
    <2>1. \E l \in {"idle", "waiting", "validating", "signing", "pacing", "warming",
                   "cookie", "sent", "relogging"} : \E k : Goto(c, l, k)
      BY <1>6 DEF Acquire, Prepared, Validated, SignedIn, Charge, ReadCookie, Send,
                  Reprepared, Relogged, Leave
    <2>2. pc[c] # "closing" /\ UNCHANGED <<context, open, overlaps, unclosed>>
      BY <1>6 DEF Acquire, Prepared, Validated, SignedIn, Charge, ReadCookie, Send,
                  Reprepared, Relogged, histories
    <2> QED
      BY <1>1, <1>2, <2>1, <2>2 DEF Launching
  <1>7. ASSUME NEW c \in Callers, Closed(c) PROVE LeakInv'
    BY <1>7, CloseLeaks
  <1>8. ASSUME NEW k \in Contexts, BrowserDies(k) PROVE LeakInv'
    <2>1. Kept' \subseteq Kept \cup {context} /\ Launchers' \subseteq Launchers
          /\ UNCHANGED <<context, overlaps, unclosed>>
      BY <1>8 DEF BrowserDies, Kept, Launchers, histories
    <2> QED
      BY <2>1, QuietLeaks
  <1>9. CASE UNCHANGED vars
    <2>1. Kept' \subseteq Kept \cup {context} /\ Launchers' \subseteq Launchers
          /\ UNCHANGED <<context, overlaps, unclosed>>
      BY <1>9 DEF vars, Kept, Launchers
    <2> QED
      BY <2>1, QuietLeaks
  <1> QED
    BY <1>3, <1>4, <1>5, <1>6, <1>7, <1>8, <1>9 DEF Next, Awaited

(* So every step keeps the invariant.                                      *)
LEMMA StepIInv == IInv /\ [Next]_vars => IInv'
  BY StepType, StepLock, StepSession, StepSolo, StepLeak DEF IInv

(* The types of the session and of its calls (login.py:71-100).            *)
THEOREM LoginTypeOK == Spec => []TypeOK
  <1>1. IInv => TypeOK
    BY DEF IInv
  <1> QED
    BY InitIInv, StepIInv, <1>1, PTL DEF Spec

(* The requests of an account follow one another (login.py:371).           *)
THEOREM LoginPaced == Spec => []OneRequestAtATime
  <1>1. IInv => OneRequestAtATime
    BY DEF IInv, LockInv, Locked, OneRequestAtATime
  <1> QED
    BY InitIInv, StepIInv, <1>1, PTL DEF Spec

(* No call closes the browser another one's request is in flight on        *)
(* (login.py:311-332, 389).                                                *)
THEOREM LoginInFlightNotClosed == Spec => []InFlightNotClosed
  <1>1. IInv => InFlightNotClosed
    BY DEF IInv, SessionInv, InFlightNotClosed
  <1> QED
    BY InitIInv, StepIInv, <1>1, PTL DEF Spec

(* The current session's browser was not closed by a call: it is running   *)
(* or died by itself (login.py:145, 313-318).                              *)
THEOREM LoginCurrentNotClosed == Spec => []CurrentNotClosed
  <1>1. IInv => CurrentNotClosed
    BY DEF IInv, SessionInv, CurrentNotClosed
  <1> QED
    BY InitIInv, StepIInv, <1>1, PTL DEF Spec

(* However many calls launch, discard and sign in, no more browsers are    *)
(* left behind than launches overlapped and closes failed                  *)
(* (login.py:145, 300-301, 313-330).                                       *)
THEOREM LoginLeaksCounted == Spec => []LeaksCounted
  <1>1. ASSUME IInv, overlaps < MaxTally, unclosed < MaxTally
        PROVE  Cardinality(open \ {context}) <= overlaps + unclosed
    <2>1. open \ {context} \in SUBSET (Kept \ {context})
      BY <1>1 DEF IInv, TypeOK, Kept
    <2>2. /\ Cardinality(open \ {context}) \in Nat
          /\ Cardinality(open \ {context}) <= Cardinality(Kept \ {context})
      BY <1>1, <2>1, LeakCounts, FS_Subset, FS_CardinalityType
    <2>3. Doomed \in Nat
      BY <1>1, LeakCounts DEF Doomed
    <2>4. Cardinality(Kept \ {context}) + Doomed <= overlaps + unclosed
      BY <1>1 DEF IInv, LeakInv
    <2> QED
      <3>1. overlaps \in Nat /\ unclosed \in Nat
            /\ Cardinality(Kept \ {context}) \in Nat
        BY <1>1, LeakCounts
      <3> QED
        BY <2>2, <2>3, <2>4, <3>1
  <1>2. IInv => LeaksCounted
    BY <1>1 DEF LeaksCounted
  <1> QED
    BY InitIInv, StepIInv, <1>2, PTL DEF Spec

(* Only they mix the token and the cookies of two sessions                 *)
(* (login.py:378, 389).                                                    *)
THEOREM LoginTokenOfSession == Spec => []TokenOfSession
  <1>1. IInv => TokenOfSession
    BY DEF IInv, SoloInv, TokenOfSession
  <1> QED
    BY InitIInv, StepIInv, <1>1, PTL DEF Spec

-----------------------------------------------------------------------------
(* What becomes of a call: the part of CallsEnd that needs no fairness *)

(* Whoever holds the lock is between its delay and its answer, and waits   *)
(* for nobody, signing in again included (login.py:371-429).               *)
LockInUse == holder # Nobody => pc[holder] \in Locked

(* The steps a call may still take, from where it is and after n requests: *)
(* only the first of them may discard the session.                         *)
StepsFrom(label, n) ==
  CASE label = "idle"        -> 0
    [] label = "sent"        -> IF n = 1 THEN 8 ELSE 1
    [] label = "cookie"      -> IF n = 0 THEN 9 ELSE 2
    [] label = "warming"     -> IF n = 0 THEN 10 ELSE 3
    [] label = "relogging"   -> 4
    [] label = "relaunched"  -> 5
    [] label = "relaunching" -> 6
    [] label = "closing"     -> 7
    [] label = "pacing"      -> 11
    [] label = "waiting"     -> 12
    [] label = "signing"     -> 13
    [] label = "validating"  -> 14
    [] label = "launched"    -> 15
    [] label = "launching"   -> 16

StepsLeft(c) == StepsFrom(pc[c], attempt[c])

(* A call in flight has steps left, and there is an end to them.           *)
StepsBounded ==
  \A c \in Callers : StepsLeft(c) \in 0 .. 16 /\ (StepsLeft(c) = 0 <=> pc[c] = "idle")

(* A step of the call uses one up, whatever the browser does and whichever *)
(* session the others leave it.                                            *)
StepFall ==
  \A c \in Callers :
    pc[c] # "idle" => StepsLeft(c)' < StepsLeft(c) \/ UNCHANGED <<pc[c], attempt[c]>>

StepsFall == [][StepFall]_vars

(* A session is discarded after a request, so that a call cannot go round  *)
(* for ever: what is needed besides LockInv.                               *)
TriesInv ==
  /\ LockInUse
  /\ \A c \in Callers :
       pc[c] \in {"sent", "closing", "relaunching", "relaunched", "relogging"}
         => attempt[c] # 0

(* Every label's steps, in numbers.                                        *)
LEMMA StepsTable ==
  /\ \A n : /\ StepsFrom("idle", n) = 0
            /\ StepsFrom("relogging", n) = 4 /\ StepsFrom("relaunched", n) = 5
            /\ StepsFrom("relaunching", n) = 6 /\ StepsFrom("closing", n) = 7
            /\ StepsFrom("pacing", n) = 11 /\ StepsFrom("waiting", n) = 12
            /\ StepsFrom("signing", n) = 13 /\ StepsFrom("validating", n) = 14
            /\ StepsFrom("launched", n) = 15 /\ StepsFrom("launching", n) = 16
  /\ StepsFrom("warming", 0) = 10 /\ StepsFrom("warming", 1) = 3
  /\ StepsFrom("cookie", 0) = 9 /\ StepsFrom("cookie", 1) = 2
  /\ StepsFrom("sent", 1) = 8 /\ StepsFrom("sent", 2) = 1
  <1>1. \A n : /\ StepsFrom("idle", n) = 0
               /\ StepsFrom("relogging", n) = 4 /\ StepsFrom("relaunched", n) = 5
               /\ StepsFrom("relaunching", n) = 6 /\ StepsFrom("closing", n) = 7
               /\ StepsFrom("pacing", n) = 11 /\ StepsFrom("waiting", n) = 12
               /\ StepsFrom("signing", n) = 13 /\ StepsFrom("validating", n) = 14
               /\ StepsFrom("launched", n) = 15 /\ StepsFrom("launching", n) = 16
    BY DEF StepsFrom
  <1>2. StepsFrom("warming", 0) = 10 /\ StepsFrom("warming", 1) = 3
    BY DEF StepsFrom
  <1>3. StepsFrom("cookie", 0) = 9 /\ StepsFrom("cookie", 1) = 2
    BY DEF StepsFrom
  <1>4. StepsFrom("sent", 1) = 8 /\ StepsFrom("sent", 2) = 1
    BY DEF StepsFrom
  <1> QED
    BY <1>1, <1>2, <1>3, <1>4

(* The ways a call moves on: from one place to the next, out, or to a      *)
(* request that is counted.                                                *)
Onward ==
  {<<"launching", "launched">>, <<"launched", "validating">>, <<"validating", "waiting">>,
   <<"validating", "signing">>, <<"signing", "waiting">>, <<"waiting", "pacing">>,
   <<"pacing", "warming">>, <<"warming", "cookie">>, <<"sent", "closing">>,
   <<"closing", "relaunching">>, <<"relaunching", "relaunched">>,
   <<"relaunched", "relogging">>, <<"relogging", "warming">>}

Moves(c, l) ==
  /\ pc' = [pc EXCEPT ![c] = l]
  /\ <<pc[c], l>> \in Onward
  /\ l = "closing" => attempt[c] = 1
  /\ attempt' = attempt
  /\ holder' = IF l = "pacing" THEN c ELSE holder

Sends(c) ==
  /\ pc[c] = "cookie"
  /\ pc' = [pc EXCEPT ![c] = "sent"]
  /\ attempt' = [attempt EXCEPT ![c] = @ + 1]
  /\ holder' = holder

Starts(c) ==
  /\ pc[c] = "idle"
  /\ pc' = [pc EXCEPT ![c] = "launching"] \/ pc' = [pc EXCEPT ![c] = "waiting"]
     \/ pc' = [pc EXCEPT ![c] = "validating"]
  /\ UNCHANGED <<attempt, holder>>

(* Every step is one of these, of one call.                                *)
LEMMA StepShapes ==
  ASSUME [Next]_vars
  PROVE  \/ UNCHANGED <<pc, attempt, holder>>
         \/ \E c \in Callers :
              \/ Starts(c)
              \/ pc[c] # "idle" /\ Leave(c)
              \/ Sends(c)
              \/ \E l : Moves(c, l)
  <1> USE DEF Goto
  <1>1. ASSUME NEW c \in Callers, Begin(c) PROVE Starts(c)
    BY <1>1 DEF Begin, Starts
  <1>2. ASSUME NEW c \in Callers, Acquire(c) PROVE Moves(c, "pacing")
    BY <1>2 DEF Acquire, Moves, Onward
  <1>3. ASSUME NEW c \in Callers, Launched(c), ~Leave(c) PROVE Moves(c, "launched")
    BY <1>3 DEF Launched, Moves, Onward
  <1>4. ASSUME NEW c \in Callers, Prepared(c), ~Leave(c) PROVE Moves(c, "validating")
    BY <1>4 DEF Prepared, Moves, Onward
  <1>5. ASSUME NEW c \in Callers, Validated(c), ~Leave(c)
        PROVE  Moves(c, "waiting") \/ Moves(c, "signing")
    BY <1>5 DEF Validated, Moves, Onward
  <1>6. ASSUME NEW c \in Callers, SignedIn(c), ~Leave(c) PROVE Moves(c, "waiting")
    BY <1>6 DEF SignedIn, Moves, Onward
  <1>7. ASSUME NEW c \in Callers, Charge(c), ~Leave(c) PROVE Moves(c, "warming")
    BY <1>7 DEF Charge, Moves, Onward
  <1>8. ASSUME NEW c \in Callers, ReadCookie(c), ~Leave(c) PROVE Moves(c, "cookie")
    BY <1>8 DEF ReadCookie, Moves, Onward
  <1>9. ASSUME NEW c \in Callers, Send(c), ~Leave(c) PROVE Sends(c)
    BY <1>9 DEF Send, Sends
  <1>10. ASSUME NEW c \in Callers, Answer(c), ~Leave(c) PROVE Moves(c, "closing")
    BY <1>10 DEF Answer, Moves, Onward
  <1>11. ASSUME NEW c \in Callers, Closed(c) PROVE Moves(c, "relaunching")
    BY <1>11 DEF Closed, Moves, Onward
  <1>12. ASSUME NEW c \in Callers, Relaunched(c), ~Leave(c) PROVE Moves(c, "relaunched")
    BY <1>12 DEF Relaunched, Moves, Onward
  <1>13. ASSUME NEW c \in Callers, Reprepared(c), ~Leave(c) PROVE Moves(c, "relogging")
    BY <1>13 DEF Reprepared, Moves, Onward
  <1>14. ASSUME NEW c \in Callers, Relogged(c), ~Leave(c) PROVE Moves(c, "warming")
    BY <1>14 DEF Relogged, Moves, Onward
  <1>15. ASSUME NEW c \in Callers, Awaited(c) PROVE pc[c] # "idle"
    BY <1>15 DEF Awaited, Launched, Prepared, Validated, SignedIn, Charge, ReadCookie, Send,
                 Answer, Closed, Relaunched, Reprepared, Relogged
  <1>16. ASSUME NEW k \in Contexts, BrowserDies(k) PROVE UNCHANGED <<pc, attempt, holder>>
    BY <1>16 DEF BrowserDies
  <1>17. CASE UNCHANGED vars
    BY <1>17 DEF vars
  <1> QED
    BY <1>1, <1>2, <1>3, <1>4, <1>5, <1>6, <1>7, <1>8, <1>9, <1>10, <1>11, <1>12, <1>13,
       <1>14, <1>15, <1>16, <1>17, Zenon DEF Next, Awaited

(* Every step keeps the lock in use and the count of requests.             *)
LEMMA StepTries == IInv /\ TriesInv /\ [Next]_vars => TriesInv'
  <1> SUFFICES ASSUME IInv, TriesInv, [Next]_vars
               PROVE  TriesInv'
    OBVIOUS
  <1>1. /\ DOMAIN pc = Callers /\ DOMAIN attempt = Callers
        /\ \A c \in Callers : attempt[c] \in 0 .. 2
        /\ holder \in Callers \cup {Nobody}
        /\ \A c \in Callers : pc[c] \in Locked => holder = c
    BY DEF IInv, TypeOK, LockInv
  <1> HIDE DEF IInv
  <1> USE <1>1 DEF TriesInv, LockInUse, Locked
  <1>2. ASSUME NEW c \in Callers, Starts(c) PROVE TriesInv'
    BY <1>2 DEF Starts
  <1>3. ASSUME NEW c \in Callers, Leave(c) PROVE TriesInv'
    BY <1>3 DEF Leave, Goto
  <1>4. ASSUME NEW c \in Callers, Sends(c) PROVE TriesInv'
    BY <1>4 DEF Sends
  <1>5. ASSUME NEW c \in Callers, NEW l, Moves(c, l) PROVE TriesInv'
    BY <1>5 DEF Moves, Onward
  <1>6. CASE UNCHANGED <<pc, attempt, holder>>
    BY <1>6
  <1> QED
    BY <1>2, <1>3, <1>4, <1>5, <1>6, StepShapes

(* At the start nobody has the lock, and nothing was sent.                 *)
LEMMA InitTries == Init => TriesInv
  BY DEF Init, TriesInv, LockInUse

(* So no call waits for one that waits: a failed launch, a refused sign-in *)
(* or a failed assertion gives the lock back (login.py:371-429).           *)
THEOREM LoginLockInUse == Spec => []LockInUse
  <1>1. TriesInv => LockInUse
    BY DEF TriesInv
  <1> QED
    BY InitIInv, StepIInv, InitTries, StepTries, <1>1, PTL DEF Spec

(* What the invariants say of the steps left.                              *)
LEMMA StepsCounted == IInv /\ TriesInv => StepsBounded
  <1> SUFFICES ASSUME IInv, TriesInv, NEW c \in Callers
               PROVE  StepsLeft(c) \in 0 .. 16 /\ (StepsLeft(c) = 0 <=> pc[c] = "idle")
    BY DEF StepsBounded
  <1>1. /\ pc[c] \in {"idle", "launching", "launched", "validating", "signing",
                      "waiting", "pacing", "warming", "cookie", "sent",
                      "closing", "relaunching", "relaunched", "relogging"}
        /\ attempt[c] \in {0, 1, 2}
        /\ pc[c] \in {"warming", "cookie"} => attempt[c] \in {0, 1}
        /\ pc[c] = "sent" => attempt[c] \in {1, 2}
    BY DEF IInv, TypeOK, LockInv, TriesInv
  <1> QED
    BY <1>1, StepsTable DEF StepsLeft

(* Every step of a call brings it nearer to its end.                       *)
LEMMA StepsCountDown == IInv /\ TriesInv /\ [Next]_vars => StepFall
  <1> SUFFICES ASSUME IInv, TriesInv, [Next]_vars, NEW c \in Callers, pc[c] # "idle"
               PROVE  StepsLeft(c)' < StepsLeft(c) \/ UNCHANGED <<pc[c], attempt[c]>>
    BY DEF StepFall
  <1>1. /\ DOMAIN pc = Callers /\ DOMAIN attempt = Callers
        /\ attempt[c] \in {0, 1, 2}
        /\ pc[c] \in {"warming", "cookie"} => attempt[c] \in {0, 1}
        /\ pc[c] = "pacing" => attempt[c] = 0
        /\ pc[c] = "relogging" => attempt[c] = 1
        /\ pc[c] = "sent" => attempt[c] \in {1, 2}
    BY DEF IInv, TypeOK, LockInv, TriesInv
  <1>2. StepsLeft(c) \in 0 .. 16 /\ StepsLeft(c) # 0
    BY StepsCounted DEF StepsBounded
  <1>3. ASSUME NEW d \in Callers, Starts(d) PROVE UNCHANGED <<pc[c], attempt[c]>>
    BY <1>1, <1>3 DEF Starts
  <1>4. ASSUME NEW d \in Callers, d # c, Leave(d) \/ Sends(d) \/ \E l : Moves(d, l)
        PROVE  UNCHANGED <<pc[c], attempt[c]>>
    BY <1>1, <1>4 DEF Leave, Goto, Sends, Moves
  <1>5. CASE Leave(c)
    <2>1. pc'[c] = "idle"
      BY <1>1, <1>5 DEF Leave, Goto
    <2>2. StepsLeft(c)' = 0
      BY <2>1, StepsTable DEF StepsLeft
    <2> QED
      BY <1>2, <2>2
  <1>6. CASE Sends(c)
    <2>1. pc[c] = "cookie" /\ pc'[c] = "sent" /\ attempt'[c] = attempt[c] + 1
      BY <1>1, <1>6 DEF Sends
    <2>2. \/ StepsLeft(c) = 9 /\ StepsLeft(c)' = 8
          \/ StepsLeft(c) = 2 /\ StepsLeft(c)' = 1
      BY <1>1, <2>1, StepsTable DEF StepsLeft
    <2> QED
      BY <2>2
  <1>7. ASSUME NEW l, Moves(c, l) PROVE StepsLeft(c)' < StepsLeft(c)
    <2>1. pc'[c] = l /\ attempt'[c] = attempt[c] /\ <<pc[c], l>> \in Onward
          /\ (l = "closing" => attempt[c] = 1)
      BY <1>1, <1>7 DEF Moves
    <2>2. StepsLeft(c) = StepsFrom(pc[c], attempt[c])
          /\ StepsLeft(c)' = StepsFrom(l, attempt[c])
      BY <2>1 DEF StepsLeft
    <2>3. CASE l \in {"launched", "validating", "waiting", "signing", "pacing"}
      BY <2>1, <2>2, <2>3, StepsTable DEF Onward
    <2>4. CASE l \in {"relaunching", "relaunched", "relogging"}
      BY <2>1, <2>2, <2>4, StepsTable DEF Onward
    <2>5. CASE l = "closing"
      BY <1>1, <2>1, <2>2, <2>5, StepsTable DEF Onward
    <2>6. CASE l = "warming"
      BY <1>1, <2>1, <2>2, <2>6, StepsTable DEF Onward
    <2>7. CASE l = "cookie"
      BY <1>1, <2>1, <2>2, <2>7, StepsTable DEF Onward
    <2> QED
      BY <2>1, <2>3, <2>4, <2>5, <2>6, <2>7 DEF Onward
  <1>8. CASE UNCHANGED <<pc, attempt, holder>>
    BY <1>8
  <1> QED
    BY <1>3, <1>4, <1>5, <1>6, <1>7, <1>8, StepShapes

(* A call is over after a bounded number of steps, if it goes on at all,   *)
(* also where it throws its session away: it does that once                *)
(* (login.py:376-413).                                                     *)
THEOREM LoginCallsRunOut == Spec => []StepsBounded /\ StepsFall
  <1>1. IInv /\ TriesInv /\ [Next]_vars => [StepFall]_vars
    BY StepsCountDown
  <1> QED
    BY InitIInv, StepIInv, InitTries, StepTries, StepsCounted, <1>1, PTL
       DEF Spec, StepsFall
=============================================================================
