------------------------ MODULE ProfileAcquisitionProofs ------------------------
(***************************************************************************)
(* What is in MongoDB under a person's url, for any payloads, requests and *)
(* clock.  Every stored document is what the parser makes of its payload   *)
(* in a month no earlier than its fetched_at; the rest follows from what   *)
(* the parser does, of which the first part is about.                      *)
(***************************************************************************)
EXTENDS ProfileAcquisition, FiniteSetTheorems, SequenceTheorems, TLAPS

(* The document is what was made of its payload, in a month between its    *)
(* fetched_at and t.                                                       *)
Made(doc, t) ==
  /\ doc.payload \in Pages \cup Graphs
  /\ doc.at \in Start..t
  /\ \E m \in doc.at..t : doc.profile = Parse(Body[doc.payload], Asked, m)

DocsInv ==
  /\ docs = [u \in Urns |-> docs[u]]
  /\ \A u \in Urns : docs[u] = NoDoc \/ (Made(docs[u], now) /\ docs[u].profile.urn = u)

CallInv ==
  /\ pc \in [Callers -> PublicStages \cup {"idle", "lookup", "login", "upserting"}]
  /\ started \in [Callers -> {0} \cup Start..now]
  /\ \A c \in Callers : pc[c] \in PublicStages \cup {"login"} => started[c] # 0
  /\ carried = [c \in Callers |-> carried[c]]
  /\ \A c \in Callers : IF pc[c] = "upserting" THEN Made(carried[c], now)
                        ELSE carried[c] = NoDoc

IInv == now \in Start..(Start + Horizon) /\ DocsInv /\ CallInv

-----------------------------------------------------------------------------
(* Sequences and their parts *)

(* A set of numbers has a least one.                                       *)
LEMMA LeastOf ==
  ASSUME NEW S \in SUBSET Nat, S # {}
  PROVE  /\ Min(S) \in S
         /\ \A y \in S : Min(S) <= y
<1>1. PICK x \in S : \A y \in S : <<y, x>> \notin OpToRel(<, Nat)
  BY WFMin, NatLessThanWellFounded, Zenon
<1>2. \A y \in S : ~(y < x)
  BY <1>1, Zenon DEF OpToRel
<1>3. x \in S /\ \A y \in S : x <= y
  BY <1>2
<1> QED
  BY <1>3, Zenon DEF Min

(* Max is the greatest place of a set of places.                           *)
LEMMA GreatestIn ==
  ASSUME NEW n \in Nat, NEW S \in SUBSET (1..n), S # {}
  PROVE  Max(S) \in S /\ \A y \in S : Max(S) >= y
<1> DEFINE gaps == {n - s : s \in S}
<1>1. gaps \in SUBSET Nat /\ gaps # {}
  <2>1. \A s \in S : n - s \in Nat
    OBVIOUS
  <2> QED
    BY <2>1
<1>2. Min(gaps) \in gaps /\ \A g \in gaps : Min(gaps) <= g
  BY <1>1, LeastOf
<1>3. PICK x \in S : Min(gaps) = n - x
  BY <1>2
<1>4. ASSUME NEW y \in S PROVE x >= y
  <2>1. n - y \in gaps
    OBVIOUS
  <2>2. n - x <= n - y
    BY <2>1, <1>2, <1>3
  <2> QED
    BY <2>2
<1> QED
  BY <1>4, Zenon DEF Max

(* The places that are kept have ranks 1, 2, ..., each taken: as many      *)
(* ranks as places, and no two places of the same rank.                    *)
LEMMA RankTaken ==
  ASSUME NEW n \in Nat, NEW K \in SUBSET (1..n), NEW k \in 1..Cardinality(K)
  PROVE  \E i \in K : Cardinality({j \in K : j <= i}) = k
<1> DEFINE below(i) == {j \in K : j <= i}
           rank == [i \in K |-> Cardinality(below(i))]
           ranks == 1..Cardinality(K)
<1>1. IsFiniteSet(1..n)
  BY FS_Interval
<1>2. IsFiniteSet(K) /\ Cardinality(K) \in Nat
  <2>1. IsFiniteSet(K)
    BY <1>1, FS_Subset
  <2> QED
    BY <2>1, FS_CardinalityType
<1>3. ASSUME NEW i \in K
      PROVE  IsFiniteSet(below(i)) /\ Cardinality(below(i)) \in ranks
  <2>1. below(i) \in SUBSET K
    OBVIOUS
  <2>2. /\ IsFiniteSet(below(i))
        /\ Cardinality(below(i)) <= Cardinality(K)
    BY <1>2, <2>1, FS_Subset
  <2>3. Cardinality(below(i)) \in Nat
    BY <2>2, FS_CardinalityType
  <2>4. i \in below(i)
    OBVIOUS
  <2>5. Cardinality(below(i)) # 0
    BY <2>2, <2>4, FS_EmptySet
  <2> HIDE DEF below
  <2> QED
    BY <1>2, <2>2, <2>3, <2>5
<1>4. ASSUME NEW i \in K, NEW j \in K, i < j
      PROVE  Cardinality(below(i)) # Cardinality(below(j))
  <2>0. \A l \in K : l \in Nat
    OBVIOUS
  <2>1. \A l \in below(i) : l \in below(j)
    BY <1>4, <2>0
  <2>2. j \in below(j) /\ j \notin below(i)
    BY <1>4, <2>0
  <2>3. IsFiniteSet(below(j))
    BY <1>3
  <2> HIDE DEF below
  <2> QED
    BY <2>1, <2>2, <2>3, FS_Subset
<1>5. \A i, j \in K : rank[i] = rank[j] => i = j
  <2> SUFFICES ASSUME NEW i \in K, NEW j \in K, rank[i] = rank[j], i # j
               PROVE  FALSE
    OBVIOUS
  <2>1. i < j \/ j < i
    OBVIOUS
  <2> HIDE DEF below
  <2> QED
    BY <2>1, <1>4
<1>6. rank \in [K -> ranks]
  <2> HIDE DEF below, ranks
  <2> QED
    BY <1>3
<1> HIDE DEF rank
<1>7. rank \in Injection(K, ranks)
  BY <1>5, <1>6 DEF Injection, IsInjective
<1>8. IsFiniteSet(ranks) /\ Cardinality(ranks) = Cardinality(K)
  <2>1. 1 \in Int /\ Cardinality(K) \in Int
    BY <1>2
  <2>2. Cardinality(ranks) = IF 1 > Cardinality(K) THEN 0 ELSE Cardinality(K) - 1 + 1
    BY <2>1, FS_Interval
  <2>3. IsFiniteSet(ranks)
    BY <2>1, FS_Interval
  <2> QED
    BY <1>2, <2>2, <2>3
<1>9. rank \in Surjection(K, ranks)
  BY <1>7, <1>8, FS_Injection
<1>10. PICK i \in K : rank[i] = k
  BY <1>9 DEF Surjection
<1> QED
  BY <1>10 DEF rank

(* What is kept of a sequence is a sequence of what it has at those places. *)
LEMMA KeptSeq ==
  ASSUME NEW T, NEW s \in Seq(T), NEW K \in SUBSET DOMAIN s
  PROVE  /\ Kept(s, K) \in Seq({s[i] : i \in K})
         /\ Kept(s, K) = <<>> => K = {}
<1> DEFINE n == Len(s)
           rank(i) == Cardinality({j \in K : j <= i})
<1>1. n \in Nat /\ K \in SUBSET (1..n)
  OBVIOUS
<1>2. IsFiniteSet(1..n)
  BY <1>1, FS_Interval
<1>3. IsFiniteSet(K) /\ Cardinality(K) \in Nat
  <2>1. IsFiniteSet(K)
    BY <1>1, <1>2, FS_Subset
  <2> QED
    BY <2>1, FS_CardinalityType
<1> HIDE DEF n, rank
<1>4. ASSUME NEW k \in 1..Cardinality(K)
      PROVE  s[CHOOSE i \in K : rank(i) = k] \in {s[i] : i \in K}
  <2>1. \E i \in K : rank(i) = k
    BY <1>1, RankTaken DEF rank
  <2> QED
    BY <2>1
<1>5. Kept(s, K) = [k \in 1..Cardinality(K) |-> s[CHOOSE i \in K : rank(i) = k]]
  BY DEF Kept, rank
<1>6. Kept(s, K) \in Seq({s[i] : i \in K})
  <2> DEFINE f == [k \in 1..Cardinality(K) |-> s[CHOOSE i \in K : rank(i) = k]]
             U == {s[i] : i \in K}
  <2>1. f \in [1..Cardinality(K) -> U]
    BY <1>4
  <2>2. f \in Seq(U)
    <3> HIDE DEF f, U
    <3> QED
      BY <2>1, <1>3
  <2> QED
    BY <2>2, <1>5
<1>7. Kept(s, K) = <<>> => K = {}
  <2> SUFFICES ASSUME Kept(s, K) = <<>> PROVE K = {}
    OBVIOUS
  <2>1. 1..Cardinality(K) = {}
    BY <1>5
  <2>2. Cardinality(K) = 0
    BY <1>3, <2>1
  <2> QED
    BY <1>3, <2>2, FS_EmptySet
<1> QED
  BY <1>6, <1>7

(* What is kept lies at different places of the sequence, and every place  *)
(* to be kept is one of them.                                              *)
LEMMA KeptPlaces ==
  ASSUME NEW T, NEW s \in Seq(T), NEW K \in SUBSET DOMAIN s
  PROVE  \E place \in Bijection(DOMAIN Kept(s, K), K) :
           \A k \in DOMAIN Kept(s, K) : Kept(s, K)[k] = s[place[k]]
<1> DEFINE n == Len(s)
           rank(i) == Cardinality({j \in K : j <= i})
           ranks == 1..Cardinality(K)
           place == [k \in ranks |-> CHOOSE i \in K : rank(i) = k]
<1>1. n \in Nat /\ K \in SUBSET (1..n)
  OBVIOUS
<1>2. IsFiniteSet(K) /\ Cardinality(K) \in Nat
  <2>1. IsFiniteSet(1..n)
    BY <1>1, FS_Interval
  <2>2. IsFiniteSet(K)
    BY <1>1, <2>1, FS_Subset
  <2> QED
    BY <2>2, FS_CardinalityType
<1> HIDE DEF n, rank
<1>3. ASSUME NEW k \in ranks
      PROVE  place[k] \in K /\ rank(place[k]) = k
  <2>1. \E i \in K : rank(i) = k
    BY <1>1, RankTaken DEF rank
  <2> QED
    BY <2>1
<1>4. Kept(s, K) = [k \in ranks |-> s[place[k]]]
  BY DEF Kept, rank
<1>5. IsFiniteSet(ranks) /\ Cardinality(ranks) = Cardinality(K)
  <2>1. 1 \in Int /\ Cardinality(K) \in Int
    BY <1>2
  <2>2. Cardinality(ranks) = IF 1 > Cardinality(K) THEN 0 ELSE Cardinality(K) - 1 + 1
    BY <2>1, FS_Interval
  <2>3. IsFiniteSet(ranks)
    BY <2>1, FS_Interval
  <2> QED
    BY <1>2, <2>2, <2>3
<1> HIDE DEF ranks
<1>6. place \in [ranks -> K]
  BY <1>3
<1>7. DOMAIN Kept(s, K) = ranks /\ \A k \in ranks : Kept(s, K)[k] = s[place[k]]
  BY <1>4
<1> HIDE DEF place
<1>8. place \in Injection(ranks, K)
  BY <1>3, <1>6 DEF Injection, IsInjective
<1>9. place \in Bijection(ranks, K)
  BY <1>2, <1>5, <1>8, FS_Injection DEF Bijection
<1> QED
  BY <1>7, <1>9

(* A set of places of a sequence with something in common has a first.     *)
LEMMA FirstPlace ==
  ASSUME NEW T, NEW s \in Seq(T), NEW S \in SUBSET DOMAIN s, S # {}
  PROVE  \E j \in S : \A l \in 1..(j - 1) : l \in DOMAIN s /\ l \notin S
<1>1. S \in SUBSET Nat
  OBVIOUS
<1>2. PICK j \in S : \A y \in S : j <= y
  BY <1>1, LeastOf
<1>3. ASSUME NEW l \in 1..(j - 1) PROVE l \in DOMAIN s /\ l \notin S
  <2>1. l \in DOMAIN s /\ l < j
    OBVIOUS
  <2> QED
    BY <1>1, <1>2, <2>1
<1> QED
  BY <1>3

(* Of objects of one entityUrn the first is kept, and no other; all        *)
(* objects without one are.                                                *)
LEMMA FirstOfUrnOnce ==
  ASSUME NEW T, NEW s \in Seq(T)
  PROVE  LET F == FirstOfUrn(s)
         IN  /\ \E place \in Injection(DOMAIN F, DOMAIN s) :
                  \A k \in DOMAIN F : F[k] = s[place[k]]
             /\ \A k, l \in DOMAIN F : F[k].urn = F[l].urn /\ k # l => F[k].urn = NoEntityUrn
             /\ \A i \in DOMAIN s : \E k \in DOMAIN F :
                  /\ F[k].urn = s[i].urn
                  /\ s[i].urn = NoEntityUrn => F[k] = s[i]
<1> DEFINE K == {i \in DOMAIN s : \/ s[i].urn = NoEntityUrn
                                  \/ \A j \in 1..(i - 1) : s[j].urn # s[i].urn}
           F == FirstOfUrn(s)
<1>1. F = Kept(s, K) /\ K \in SUBSET DOMAIN s /\ K \in SUBSET Nat
  BY DEF FirstOfUrn
<1>2. PICK place \in Bijection(DOMAIN F, K) : \A k \in DOMAIN F : F[k] = s[place[k]]
  <2> HIDE DEF K, F
  <2> QED
    BY <1>1, KeptPlaces
<1>3. /\ \A k \in DOMAIN F : place[k] \in K
      /\ \A k, l \in DOMAIN F : place[k] = place[l] => k = l
      /\ \A i \in K : \E k \in DOMAIN F : place[k] = i
      /\ place \in Injection(DOMAIN F, DOMAIN s)
  <2> HIDE DEF K, F
  <2> QED
    BY <1>1, <1>2 DEF Bijection, Injection, Surjection, IsInjective
<1>4. \A i, j \in K : s[i].urn = s[j].urn => i = j \/ s[i].urn = NoEntityUrn
  <2> SUFFICES ASSUME NEW i \in K, NEW j \in K, s[i].urn = s[j].urn, i < j,
                      s[i].urn # NoEntityUrn
               PROVE  FALSE
    BY <1>1
  <2>1. i \in 1..(j - 1)
    OBVIOUS
  <2> QED
    BY <2>1
<1>5. ASSUME NEW i \in DOMAIN s
      PROVE  \E j \in K : s[j].urn = s[i].urn /\ (s[i].urn = NoEntityUrn => j = i)
  <2>1. CASE s[i].urn = NoEntityUrn
    BY <2>1
  <2>2. CASE s[i].urn # NoEntityUrn
    <3> DEFINE same == {j \in DOMAIN s : s[j].urn = s[i].urn}
    <3>1. PICK j \in same : \A l \in 1..(j - 1) : l \in DOMAIN s /\ l \notin same
      <4>1. same \in SUBSET DOMAIN s /\ same # {}
        OBVIOUS
      <4> HIDE DEF same
      <4> QED
        BY <4>1, FirstPlace
    <3> QED
      BY <2>2, <3>1
  <2> QED
    BY <2>1, <2>2
<1> HIDE DEF K, F
<1>6. \A k, l \in DOMAIN F : F[k].urn = F[l].urn /\ k # l => F[k].urn = NoEntityUrn
  BY <1>2, <1>3, <1>4
<1>7. \A i \in DOMAIN s : \E k \in DOMAIN F :
        F[k].urn = s[i].urn /\ (s[i].urn = NoEntityUrn => F[k] = s[i])
  BY <1>2, <1>3, <1>5
<1> QED
  BY <1>2, <1>3, <1>6, <1>7 DEF F

(* Keeping the first object of each urn leaves a sequence of the objects.  *)
LEMMA FirstOfUrnSeq ==
  ASSUME NEW T, NEW s \in Seq(T)
  PROVE  FirstOfUrn(s) \in Seq(T)
<1> DEFINE K == {i \in DOMAIN s : \/ s[i].urn = NoEntityUrn
                                  \/ \A j \in 1..(i - 1) : s[j].urn # s[i].urn}
           U == {s[i] : i \in K}
<1>1. FirstOfUrn(s) = Kept(s, K) /\ K \in SUBSET DOMAIN s
  BY DEF FirstOfUrn
<1>2. U \subseteq T
  OBVIOUS
<1> HIDE DEF K
<1>3. Kept(s, K) \in Seq(U)
  BY <1>1, KeptSeq
<1> HIDE DEF U
<1> QED
  BY <1>1, <1>2, <1>3, SeqMonotonic

(* The dictionary's keys in their order: the first object of each.         *)
Firsts(s) ==
  Kept(s, {i \in DOMAIN s : /\ GraphKey(s[i]) # NoEntityUrn
                            /\ \A j \in 1..(i - 1) : GraphKey(s[j]) # GraphKey(s[i])})

(* Each key that an object has is there once.                              *)
LEMMA FirstsOnce ==
  ASSUME NEW T, NEW s \in Seq(T)
  PROVE  LET F == Firsts(s)
         IN  /\ F \in Seq(T)
             /\ \A k \in DOMAIN F : F[k] \in ToSet(s) /\ GraphKey(F[k]) # NoEntityUrn
             /\ \A k, l \in DOMAIN F : GraphKey(F[k]) = GraphKey(F[l]) => k = l
             /\ \A i \in DOMAIN s : GraphKey(s[i]) # NoEntityUrn =>
                  \E k \in DOMAIN F : GraphKey(F[k]) = GraphKey(s[i])
<1> DEFINE K == {i \in DOMAIN s : /\ GraphKey(s[i]) # NoEntityUrn
                                  /\ \A j \in 1..(i - 1) : GraphKey(s[j]) # GraphKey(s[i])}
           F == Firsts(s)
           U == {s[i] : i \in K}
<1>1. F = Kept(s, K) /\ K \in SUBSET DOMAIN s /\ K \in SUBSET Nat
  BY DEF Firsts
<1>2. PICK place \in Bijection(DOMAIN F, K) : \A k \in DOMAIN F : F[k] = s[place[k]]
  <2> HIDE DEF K, F
  <2> QED
    BY <1>1, KeptPlaces
<1>3. /\ \A k \in DOMAIN F : place[k] \in K
      /\ \A k, l \in DOMAIN F : place[k] = place[l] => k = l
      /\ \A i \in K : \E k \in DOMAIN F : place[k] = i
  <2> HIDE DEF K, F
  <2> QED
    BY <1>2 DEF Bijection, Injection, Surjection, IsInjective
<1>4. \A i, j \in K : GraphKey(s[i]) = GraphKey(s[j]) => i = j
  <2> SUFFICES ASSUME NEW i \in K, NEW j \in K, GraphKey(s[i]) = GraphKey(s[j]), i < j
               PROVE  FALSE
    BY <1>1
  <2>1. i \in 1..(j - 1)
    OBVIOUS
  <2> QED
    BY <2>1
<1>5. ASSUME NEW i \in DOMAIN s, GraphKey(s[i]) # NoEntityUrn
      PROVE  \E j \in K : GraphKey(s[j]) = GraphKey(s[i])
  <2> DEFINE same == {j \in DOMAIN s : GraphKey(s[j]) = GraphKey(s[i])}
  <2>1. PICK j \in same : \A l \in 1..(j - 1) : l \in DOMAIN s /\ l \notin same
    <3>1. same \in SUBSET DOMAIN s /\ same # {}
      OBVIOUS
    <3> HIDE DEF same
    <3> QED
      BY <3>1, FirstPlace
  <2> QED
    BY <1>5, <2>1
<1>6. \A k \in K : GraphKey(s[k]) # NoEntityUrn
  OBVIOUS
<1>7. U \subseteq T
  OBVIOUS
<1> HIDE DEF K
<1>8. F \in Seq(U)
  BY <1>1, KeptSeq
<1> HIDE DEF F
<1>9. F \in Seq(T)
  <2> HIDE DEF U
  <2> QED
    BY <1>7, <1>8, SeqMonotonic
<1>10. \A k \in DOMAIN F : F[k] \in ToSet(s) /\ GraphKey(F[k]) # NoEntityUrn
  BY <1>1, <1>2, <1>3, <1>6 DEF ToSet
<1>11. \A k, l \in DOMAIN F : GraphKey(F[k]) = GraphKey(F[l]) => k = l
  BY <1>2, <1>3, <1>4
<1>12. \A i \in DOMAIN s : GraphKey(s[i]) # NoEntityUrn =>
         \E k \in DOMAIN F : GraphKey(F[k]) = GraphKey(s[i])
  BY <1>2, <1>3, <1>5
<1> QED
  BY <1>9, <1>10, <1>11, <1>12 DEF F

(* Collect returns objects whose type ends in the suffix.                  *)
LEMMA CollectSeq ==
  ASSUME NEW T, NEW s \in Seq(T), NEW suffix
  PROVE  Collect(s, suffix) \in Seq({o \in T : suffix \in EndsWith(o.type)})
<1> DEFINE K == {i \in DOMAIN s : suffix \in EndsWith(s[i].type)}
           U == {s[i] : i \in K}
           V == {o \in T : suffix \in EndsWith(o.type)}
<1>1. Collect(s, suffix) = Kept(s, K) /\ K \in SUBSET DOMAIN s
  BY DEF Collect
<1>2. U \subseteq V
  OBVIOUS
<1> HIDE DEF K
<1>3. Kept(s, K) \in Seq(U)
  BY <1>1, KeptSeq
<1> HIDE DEF U, V
<1>4. Kept(s, K) \in Seq(V)
  BY <1>2, <1>3, SeqMonotonic
<1> QED
  BY <1>1, <1>4 DEF V

(* The last copy of an object of the payload.                              *)
LastCopy(s, key) == Max({j \in DOMAIN s : GraphKey(s[j]) = key})

(* It has its key, and no copy comes after it.                             *)
LEMMA LastCopyIs ==
  ASSUME NEW s, s \in Seq(ToSet(s)), NEW i \in DOMAIN s
  PROVE  LET l == LastCopy(s, GraphKey(s[i]))
         IN  /\ l \in DOMAIN s /\ GraphKey(s[l]) = GraphKey(s[i])
             /\ \A j \in DOMAIN s : GraphKey(s[j]) = GraphKey(s[i]) => j <= l
<1> DEFINE S == {j \in DOMAIN s : GraphKey(s[j]) = GraphKey(s[i])}
<1>1. i \in S /\ Len(s) \in Nat /\ S \in SUBSET (1..Len(s))
  OBVIOUS
<1>2. Max(S) \in S /\ \A y \in S : Max(S) >= y
  <2> HIDE DEF S
  <2> QED
    BY <1>1, GreatestIn
<1>3. PICK l \in S : l = Max(S) /\ \A y \in S : l >= y
  BY <1>2
<1>4. LastCopy(s, GraphKey(s[i])) = l
  BY <1>3 DEF LastCopy
<1>5. l \in DOMAIN s /\ GraphKey(s[l]) = GraphKey(s[i])
  BY <1>3
<1>6. ASSUME NEW j \in DOMAIN s, GraphKey(s[j]) = GraphKey(s[i]) PROVE j <= l
  <2>1. j \in S
    BY <1>6
  <2>2. l >= j /\ l \in Nat /\ j \in Nat
    BY <1>1, <1>3, <2>1
  <2> QED
    BY <2>2
<1> QED
  BY <1>4, <1>5, <1>6

(* The dictionary has the last copy for each of its keys.                  *)
LEMMA ByUrnIs ==
  ASSUME NEW s
  PROVE  ByUrn(s) = [k \in DOMAIN Firsts(s) |-> s[LastCopy(s, GraphKey(Firsts(s)[k]))]]
BY DEF ByUrn, Firsts, LastCopy

(* Its objects are objects of the payload, and have each key once.         *)
LEMMA ByUrnSeq ==
  ASSUME NEW s, s \in Seq(ToSet(s))
  PROVE  /\ ByUrn(s) \in Seq(ToSet(s))
         /\ \A k, l \in DOMAIN ByUrn(s) :
              GraphKey(ByUrn(s)[k]) = GraphKey(ByUrn(s)[l]) => k = l
<1> DEFINE T == ToSet(s)
           F == Firsts(s)
           D == ByUrn(s)
           n == Len(F)
<1>1. /\ F \in Seq(T)
      /\ \A k \in DOMAIN F : F[k] \in ToSet(s)
      /\ \A k, l \in DOMAIN F : GraphKey(F[k]) = GraphKey(F[l]) => k = l
  BY FirstsOnce
<1>2. D = [k \in DOMAIN F |-> s[LastCopy(s, GraphKey(F[k]))]]
  BY ByUrnIs
<1> HIDE DEF D, F
<1>3. ASSUME NEW k \in DOMAIN F
      PROVE  D[k] \in T /\ GraphKey(D[k]) = GraphKey(F[k])
  <2>1. PICK i \in DOMAIN s : s[i] = F[k]
    BY <1>1 DEF ToSet
  <2>2. /\ LastCopy(s, GraphKey(F[k])) \in DOMAIN s
        /\ GraphKey(s[LastCopy(s, GraphKey(F[k]))]) = GraphKey(F[k])
    BY <2>1, LastCopyIs
  <2> QED
    BY <1>2, <2>2 DEF ToSet
<1>4. n \in Nat /\ DOMAIN F = 1..n
  BY <1>1
<1>5. D \in [1..n -> T]
  <2> HIDE DEF n, T
  <2> QED
    BY <1>2, <1>3, <1>4
<1>6. D \in Seq(T)
  <2> HIDE DEF n, T
  <2> QED
    BY <1>4, <1>5
<1>7. \A k, l \in DOMAIN D : GraphKey(D[k]) = GraphKey(D[l]) => k = l
  <2>1. DOMAIN D = DOMAIN F
    BY <1>2
  <2> QED
    BY <1>1, <1>3, <2>1
<1> QED
  BY <1>6, <1>7 DEF D

(* They are the last copies of all objects that have a key.                *)
LEMMA ByUrnNewest ==
  ASSUME NEW s, s \in Seq(ToSet(s))
  PROVE  ToSet(ByUrn(s)) = Newest(s)
<1> DEFINE F == Firsts(s)
           lasts == {i \in DOMAIN s :
                       /\ GraphKey(s[i]) # NoEntityUrn
                       /\ \A j \in DOMAIN s : GraphKey(s[j]) = GraphKey(s[i]) => j <= i}
           last(i) == LastCopy(s, GraphKey(s[i]))
<1>1. ByUrn(s) = [k \in DOMAIN F |-> s[LastCopy(s, GraphKey(F[k]))]]
  BY ByUrnIs
<1>2. /\ \A k \in DOMAIN F : F[k] \in ToSet(s) /\ GraphKey(F[k]) # NoEntityUrn
      /\ \A i \in DOMAIN s : GraphKey(s[i]) # NoEntityUrn =>
           \E k \in DOMAIN F : GraphKey(F[k]) = GraphKey(s[i])
  BY FirstsOnce
<1>3. ASSUME NEW i \in DOMAIN s, GraphKey(s[i]) # NoEntityUrn
      PROVE  last(i) \in lasts /\ (i \in lasts => last(i) = i)
  <2> DEFINE l == last(i)
  <2>1. /\ l \in DOMAIN s /\ GraphKey(s[l]) = GraphKey(s[i])
        /\ \A j \in DOMAIN s : GraphKey(s[j]) = GraphKey(s[i]) => j <= l
    BY LastCopyIs
  <2> HIDE DEF l
  <2>2. l \in lasts
    BY <1>3, <2>1
  <2>3. i \in lasts => l <= i
    BY <2>1
  <2>4. i <= l /\ i \in Nat /\ l \in Nat
    BY <2>1
  <2>5. i \in lasts => l = i
    <3> HIDE DEF lasts
    <3> QED
      BY <2>3, <2>4
  <2> HIDE DEF lasts, last
  <2> QED
    BY <2>2, <2>5 DEF l
<1> HIDE DEF F, lasts
<1>4. ASSUME NEW k \in DOMAIN F
      PROVE  s[LastCopy(s, GraphKey(F[k]))] \in {s[i] : i \in lasts}
  <2>1. PICK i \in DOMAIN s : s[i] = F[k] /\ GraphKey(s[i]) # NoEntityUrn
    BY <1>2 DEF ToSet
  <2> QED
    BY <2>1, <1>3
<1>5. ASSUME NEW i \in lasts
      PROVE  \E k \in DOMAIN F : s[LastCopy(s, GraphKey(F[k]))] = s[i]
  <2>1. i \in DOMAIN s /\ GraphKey(s[i]) # NoEntityUrn
    BY DEF lasts
  <2>2. PICK k \in DOMAIN F : GraphKey(F[k]) = GraphKey(s[i])
    BY <1>2, <2>1
  <2> QED
    BY <1>3, <2>1, <2>2
<1>6. ToSet(ByUrn(s)) = {s[LastCopy(s, GraphKey(F[k]))] : k \in DOMAIN F}
  BY <1>1 DEF ToSet
<1>7. ToSet(ByUrn(s)) = {s[i] : i \in lasts}
  BY <1>4, <1>5, <1>6
<1> QED
  BY <1>7 DEF lasts, Newest

(* A type of the newer family ends in the older suffix too.                *)
LEMMA DashIsBoth ==
  \A type :
    /\ ".identity.profile.Profile" \in EndsWith(type) => "Profile" \in EndsWith(type)
    /\ ".identity.profile.Position" \in EndsWith(type) => "Position" \in EndsWith(type)
<1> TAKE type
<1>1. EndsWith(type) \in {{".identity.profile.Profile", "Profile"}, {"Profile"},
                         {".identity.profile.Position", "Position"}, {"Position"}, {}}
  BY Zenon DEF EndsWith
<1> QED
  BY <1>1

(* What is taken for a position is one,                                    *)
LEMMA PositionsSeq ==
  ASSUME NEW T, NEW s \in Seq(T)
  PROVE  Positions(s) \in Seq({o \in T : "Position" \in EndsWith(o.type)})
<1> DEFINE P == {o \in T : "Position" \in EndsWith(o.type)}
           Q == {o \in T : ".identity.profile.Position" \in EndsWith(o.type)}
           dash == Collect(s, ".identity.profile.Position")
           all == Collect(s, "Position")
<1>1. dash \in Seq(Q) /\ all \in Seq(P)
  BY CollectSeq
<1>2. Q \subseteq P
  BY DashIsBoth
<1>3. Positions(s) = FirstOfUrn(dash \o all)
  BY DEF Positions
<1> HIDE DEF P, Q, dash, all
<1>4. dash \in Seq(P)
  BY <1>1, <1>2, SeqMonotonic
<1>5. dash \o all \in Seq(P)
  BY <1>1, <1>4, ConcatProperties
<1>6. Positions(s) \in Seq(P)
  BY <1>3, <1>5, FirstOfUrnSeq
<1> QED
  BY <1>6 DEF P

(* and what is taken for a profile object is one.                          *)
LEMMA ProfileObjectsSeq ==
  ASSUME NEW T, NEW s \in Seq(T)
  PROVE  ProfileObjects(s) \in Seq({o \in T : "Profile" \in EndsWith(o.type)})
<1> DEFINE P == {o \in T : "Profile" \in EndsWith(o.type)}
           Q == {o \in T : ".identity.profile.Profile" \in EndsWith(o.type)}
           dash == Collect(s, ".identity.profile.Profile")
           all == Collect(s, "Profile")
<1>1. dash \in Seq(Q) /\ all \in Seq(P)
  BY CollectSeq
<1>2. Q \subseteq P
  BY DashIsBoth
<1>3. ProfileObjects(s) \in {dash, all}
  BY DEF ProfileObjects
<1> HIDE DEF P, Q, dash, all
<1>4. dash \in Seq(P)
  BY <1>1, <1>2, SeqMonotonic
<1>5. ProfileObjects(s) \in Seq(P)
  BY <1>1, <1>3, <1>4
<1> QED
  BY <1>5 DEF P

(* A graph without a profile object that is taken has none at all.         *)
LEMMA ProfileObjectsNone ==
  ASSUME NEW T, NEW s \in Seq(T), ProfileObjects(s) = <<>>
  PROVE  {o \in ToSet(s) : "Profile" \in EndsWith(o.type)} = {}
<1> DEFINE K == {i \in DOMAIN s : "Profile" \in EndsWith(s[i].type)}
<1>1. Collect(s, "Profile") = <<>>
  BY DEF ProfileObjects
<1>2. Collect(s, "Profile") = Kept(s, K) /\ K \in SUBSET DOMAIN s
  BY DEF Collect
<1>3. K = {}
  <2> HIDE DEF K
  <2> QED
    BY <1>1, <1>2, KeptSeq
<1> QED
  BY <1>3 DEF ToSet

(* All of them are taken: the dash positions come first in the list and a  *)
(* second time among all, and are told again by their entityUrns.          *)
LEMMA PositionsOnce ==
  ASSUME NEW T, NEW s \in Seq(T),
         \A k, l \in DOMAIN s : GraphKey(s[k]) = GraphKey(s[l]) => k = l
  PROVE  LET F == Positions(s)
         IN  /\ F \in Surjection(DOMAIN F, {o \in ToSet(s) : "Position" \in EndsWith(o.type)})
             /\ \A k, l \in DOMAIN F : F[k] = F[l] /\ k # l =>
                  /\ F[k].urn = NoEntityUrn
                  /\ ".identity.profile.Position" \in EndsWith(F[k].type)
<1> DEFINE P == {o \in ToSet(s) : "Position" \in EndsWith(o.type)}
           IsDash(o) == ".identity.profile.Position" \in EndsWith(o.type)
           dash == Collect(s, ".identity.profile.Position")
           all == Collect(s, "Position")
           list == dash \o all
           F == Positions(s)
           K == {i \in DOMAIN s : "Position" \in EndsWith(s[i].type)}
<1>1. s \in Seq(ToSet(s))
  BY DEF ToSet
<1>2. F \in Seq(P)
  BY <1>1, PositionsSeq
<1>3. F = FirstOfUrn(list)
  BY DEF Positions
<1>4. dash \in Seq({o \in T : IsDash(o)}) /\ all \in Seq({o \in T : "Position" \in EndsWith(o.type)})
  BY CollectSeq
<1>5. PICK place \in Bijection(DOMAIN all, K) : \A k \in DOMAIN all : all[k] = s[place[k]]
  <2>1. all = Kept(s, K) /\ K \in SUBSET DOMAIN s
    BY DEF Collect
  <2> HIDE DEF all, K
  <2> QED
    BY <2>1, KeptPlaces
<1>6. /\ \A k \in DOMAIN all : place[k] \in K
      /\ \A k, l \in DOMAIN all : place[k] = place[l] => k = l
      /\ \A i \in K : \E k \in DOMAIN all : place[k] = i
  <2> HIDE DEF all, K
  <2> QED
    BY <1>5 DEF Bijection, Injection, Surjection, IsInjective
<1>7. \A k, l \in DOMAIN all : all[k] = all[l] => k = l
  <2>1. \A i \in K : i \in DOMAIN s
    OBVIOUS
  <2> HIDE DEF all, K
  <2> QED
    BY <1>5, <1>6, <2>1
<1>8. ASSUME NEW o \in P PROVE \E k \in DOMAIN all : all[k] = o
  <2>1. PICK i \in K : s[i] = o
    BY DEF ToSet
  <2> HIDE DEF all, K, P
  <2> QED
    BY <2>1, <1>5, <1>6
<1>9. dash \in Seq(T) /\ all \in Seq(T) /\ list \in Seq(T)
  <2> HIDE DEF dash, all
  <2>1. dash \in Seq(T)
    BY <1>4, SeqMonotonic
  <2>2. all \in Seq(T)
    BY <1>4, SeqMonotonic
  <2> QED
    BY <2>1, <2>2, ConcatProperties
<1>10. /\ Len(dash) \in Nat /\ DOMAIN dash = 1..Len(dash)
       /\ Len(all) \in Nat /\ DOMAIN all = 1..Len(all)
       /\ DOMAIN list = 1..(Len(dash) + Len(all))
       /\ \A k \in DOMAIN dash : list[k] = dash[k]
       /\ \A k \in DOMAIN all : list[Len(dash) + k] = all[k]
  <2> HIDE DEF dash, all
  <2> QED
    BY <1>9, ConcatProperties
<1>11. ASSUME NEW i \in DOMAIN list, ~IsDash(list[i])
       PROVE  i - Len(dash) \in DOMAIN all /\ list[i] = all[i - Len(dash)]
  <2>1. \A k \in DOMAIN dash : IsDash(dash[k])
    <3> HIDE DEF dash
    <3> QED
      BY <1>4
  <2>2. i \notin DOMAIN dash
    BY <1>10, <1>11, <2>1
  <2> HIDE DEF dash, all, list, IsDash
  <2>3. i - Len(dash) \in 1..Len(all) /\ i = Len(dash) + (i - Len(dash))
    BY <1>10, <2>2
  <2> QED
    BY <1>10, <2>3
<1> HIDE DEF list, F
<1>12. PICK at \in Injection(DOMAIN F, DOMAIN list) : \A k \in DOMAIN F : F[k] = list[at[k]]
  BY <1>3, <1>9, FirstOfUrnOnce
<1>13. /\ \A k \in DOMAIN F : at[k] \in DOMAIN list
       /\ \A k, l \in DOMAIN F : at[k] = at[l] => k = l
  BY <1>12 DEF Injection, IsInjective
<1>14. /\ \A k, l \in DOMAIN F : F[k].urn = F[l].urn /\ k # l => F[k].urn = NoEntityUrn
       /\ \A i \in DOMAIN list : \E k \in DOMAIN F :
            F[k].urn = list[i].urn /\ (list[i].urn = NoEntityUrn => F[k] = list[i])
  BY <1>3, <1>9, FirstOfUrnOnce
<1>15. ASSUME NEW k \in DOMAIN F, NEW l \in DOMAIN F, F[k] = F[l], k # l
       PROVE  F[k].urn = NoEntityUrn /\ IsDash(F[k])
  <2>1. F[k].urn = NoEntityUrn
    BY <1>14, <1>15
  <2>2. SUFFICES ASSUME ~IsDash(F[k]) PROVE FALSE
    BY <2>1
  <2>3. /\ at[k] - Len(dash) \in DOMAIN all /\ F[k] = all[at[k] - Len(dash)]
        /\ at[l] - Len(dash) \in DOMAIN all /\ F[l] = all[at[l] - Len(dash)]
    <3> HIDE DEF dash, all, IsDash
    <3>1. at[k] \in DOMAIN list /\ at[l] \in DOMAIN list
      BY <1>13
    <3>2. F[k] = list[at[k]] /\ F[l] = list[at[l]]
      BY <1>12
    <3>3. ~IsDash(list[at[k]]) /\ ~IsDash(list[at[l]])
      BY <1>15, <2>2, <3>2
    <3> QED
      BY <1>11, <3>1, <3>2, <3>3
  <2> HIDE DEF dash, all
  <2>4. at[k] - Len(dash) = at[l] - Len(dash)
    BY <1>7, <1>15, <2>3
  <2>5. at[k] \in Int /\ at[l] \in Int /\ Len(dash) \in Int
    <3>1. at[k] \in DOMAIN list /\ at[l] \in DOMAIN list
      BY <1>13
    <3> QED
      BY <1>10, <3>1
  <2>6. at[k] = at[l]
    BY <2>4, <2>5
  <2> QED
    BY <1>13, <1>15, <2>6
<1>16. ASSUME NEW o \in P PROVE \E k \in DOMAIN F : F[k] = o
  <2>1. PICK i \in DOMAIN list : list[i] = o
    <3>1. PICK k \in DOMAIN all : all[k] = o
      BY <1>8
    <3> HIDE DEF dash, all
    <3>2. Len(dash) + k \in DOMAIN list
      BY <1>10
    <3> QED
      BY <1>10, <3>1, <3>2
  <2>2. PICK k \in DOMAIN F : F[k].urn = o.urn /\ (o.urn = NoEntityUrn => F[k] = o)
    BY <1>14, <2>1
  <2>3. CASE o.urn # NoEntityUrn
    <3>1. F[k] \in P
      BY <1>2
    <3>2. PICK i1 \in DOMAIN s, i2 \in DOMAIN s : s[i1] = o /\ s[i2] = F[k]
      BY <3>1 DEF ToSet
    <3>3. GraphKey(s[i1]) = GraphKey(s[i2])
      BY <2>2, <2>3, <3>2 DEF GraphKey
    <3> QED
      BY <3>2, <3>3
  <2> QED
    BY <2>2, <2>3
<1>17. F \in Surjection(DOMAIN F, P)
  <2> HIDE DEF P
  <2>1. F \in [DOMAIN F -> P]
    BY <1>2
  <2> QED
    BY <1>16, <2>1 DEF Surjection
<1> QED
  BY <1>15, <1>17 DEF F

-----------------------------------------------------------------------------
(* What the parser makes of a payload *)

(* A record of what a role has.                                            *)
IsRole(role) ==
  role = [urn |-> role.urn, name |-> role.name, current |-> role.current,
          start |-> role.start, end |-> role.end, type |-> role.type]

(* Without a url, or that of one of the graph's profile objects; and what  *)
(* is current was judged in the month of the parse.                        *)
LEMMA GraphDocument ==
  ASSUME NEW g \in Graphs, NEW m
  PROVE  LET d == Parse(Body[g], Asked, m)
         IN  /\ \/ /\ NewestOf(Body[g].included, "Profile") = {}
                   /\ d.urn = EntityUrn(Body[g].root) /\ d.slug = NoSlug
                \/ \E o \in Profiles(g) :
                     d.urn = EntityUrn(o) /\ d.slug = o.slug /\ d.who = o.who
             /\ \A i \in DOMAIN d.experience :
                  /\ IsRole(d.experience[i])
                  /\ d.experience[i].start \in Dates
                  /\ d.experience[i].end \in Dates
                  /\ d.experience[i].current = IsCurrent(d.experience[i].end, m)
             /\ \E n \in Nat : DOMAIN d.experience = 1..n
             /\ d.updated \in Nat
             /\ d.urn \in Urns
<1> DEFINE inc == Body[g].included
           T == ToSet(inc)
           s == ByUrn(inc)
           d == FromGraph(Body[g], Asked, m)
           root == Body[g].root
           po == ProfileObjects(s)
           pos == Positions(s)
           Pos == {o \in T : "Position" \in EndsWith(o.type)}
<1>1. s \in Seq(T) /\ ToSet(s) = Newest(inc)
  BY PayloadAssumption, ByUrnSeq, ByUrnNewest DEF Objects
<1>2. Parse(Body[g], Asked, m) = d
  BY PayloadAssumption DEF Parse
<1>3. d.urn \in Urns
  <2>1. d.urn = FromGraph(Body[g], Asked, Start).urn
    BY DEF FromGraph, ReadGraph, Document
  <2> QED
    BY <2>1 DEF Urns
<1>4. po \in Seq(Profiles(g))
  BY <1>1, ProfileObjectsSeq DEF Profiles, Objects
<1>5. pos \in Seq(Pos)
  BY <1>1, PositionsSeq
<1>6. \A o \in Pos : o.start \in Dates /\ o.end \in Dates
  BY PayloadAssumption DEF Objects
<1>7. CASE po = <<>>
  <2>1. d = Document(EntityUrn(root), NoSlug, root.who, <<>>, root.headline, 0)
    BY <1>7 DEF FromGraph, ReadGraph
  <2>2. /\ d.urn = EntityUrn(root) /\ d.slug = NoSlug
        /\ d.experience = <<>> /\ d.updated = 0
    BY <2>1 DEF Document
  <2>4. NewestOf(inc, "Profile") = {}
    BY <1>1, <1>7, ProfileObjectsNone DEF NewestOf
  <2>3. DOMAIN d.experience = {} /\ DOMAIN d.experience = 1..0
    BY <2>2
  <2> HIDE DEF d
  <2> QED
    BY <1>2, <1>3, <2>2, <2>3, <2>4
<1>8. CASE po # <<>>
  <2>1. po[1] \in Profiles(g)
    BY <1>4, <1>8
  <2>2. /\ d.urn = EntityUrn(po[1]) /\ d.slug = po[1].slug /\ d.who = po[1].who
        /\ d.experience = [k \in DOMAIN pos |-> Experience(pos[k], m)]
        /\ d.updated = po[1].updated
    BY <1>8 DEF FromGraph, ReadGraph, Document
  <2> HIDE DEF d, po, pos, Pos
  <2>3. ASSUME NEW i \in DOMAIN d.experience
        PROVE  /\ IsRole(d.experience[i])
               /\ d.experience[i].start \in Dates
               /\ d.experience[i].end \in Dates
               /\ d.experience[i].current = IsCurrent(d.experience[i].end, m)
    <3>1. d.experience[i] = Experience(pos[i], m) /\ i \in DOMAIN pos
      BY <2>2
    <3>2. pos[i] \in Pos
      BY <1>5, <3>1
    <3> QED
      BY <3>1, <3>2, <1>6 DEF Experience, IsRole
  <2>4. (\E n \in Nat : DOMAIN d.experience = 1..n) /\ d.updated \in Nat
    <3>1. Len(pos) \in Nat /\ DOMAIN d.experience = 1..Len(pos)
      BY <1>5, <2>2
    <3> QED
      BY <2>1, <2>2, <3>1, PayloadAssumption
  <2> QED
    BY <1>2, <1>3, <2>1, <2>2, <2>3, <2>4
<1> QED
  BY <1>7, <1>8

(* What is made of a page lies under the urn made of the slug, in any      *)
(* month.                                                                  *)
LEMMA PageDocument ==
  ASSUME NEW p \in Pages, NEW m
  PROVE  LET d == Parse(Body[p], Asked, m)
         IN  /\ d.urn = MemberUrn(Asked) /\ d.slug = Asked /\ d.who = Body[p].who
             /\ \A i \in DOMAIN d.experience : d.experience[i] = PageRole(Body[p])
             /\ \E n \in Nat : DOMAIN d.experience = 1..n
             /\ d.updated \in Nat
             /\ d.urn \in Urns
<1>1. Parse(Body[p], Asked, m) = FromPage(Body[p], Asked)
  BY PayloadAssumption DEF Parse
<1>2. /\ DOMAIN <<>> = {} /\ DOMAIN <<>> = 1..0
      /\ DOMAIN <<PageRole(Body[p])>> = 1..1
      /\ \A i \in DOMAIN <<PageRole(Body[p])>> : i = 1
  OBVIOUS
<1>3. \A i \in DOMAIN FromPage(Body[p], Asked).experience :
        FromPage(Body[p], Asked).experience[i] = PageRole(Body[p])
  BY <1>2 DEF FromPage, Document
<1>4. \E n \in Nat : DOMAIN FromPage(Body[p], Asked).experience = 1..n
  BY <1>2 DEF FromPage, Document
<1> QED
  BY <1>1, <1>3, <1>4 DEF FromPage, Document, Urns

(* The two kinds of urn are apart.                                         *)
LEMMA UrnsApart ==
  ASSUME NEW g \in Graphs, NEW m
  PROVE  Parse(Body[g], Asked, m).urn # MemberUrn(Asked)
<1> DEFINE d == Parse(Body[g], Asked, m)
<1>1. UnknownUrn # MemberUrn(Asked)
  BY DEF MemberUrn, UnknownUrn
<1>2. \/ d.urn = EntityUrn(Body[g].root)
      \/ \E o \in Profiles(g) : d.urn = EntityUrn(o)
  BY GraphDocument
<1> HIDE DEF d
<1>3. d.urn # MemberUrn(Asked)
  BY <1>1, <1>2, PayloadAssumption DEF EntityUrn, MemberUrn
<1> QED
  BY <1>3 DEF d

-----------------------------------------------------------------------------
(* The invariant *)

(* A document stays what was made of its payload as time goes by.          *)
LEMMA MadeLater ==
  ASSUME NEW doc, NEW t \in Nat, NEW u \in Nat, t <= u, Made(doc, t)
  PROVE  Made(doc, u)
<1>1. Start \in Nat
  BY AcquisitionAssumption
<1>2. doc.at \in Start..t
  BY DEF Made
<1>3. PICK m \in doc.at..t : doc.profile = Parse(Body[doc.payload], Asked, m)
  BY DEF Made
<1>4. doc.at \in Start..u /\ m \in doc.at..u
  BY <1>1, <1>2
<1> QED
  BY <1>3, <1>4 DEF Made

(* What can be said of a document wherever it is.                          *)
LEMMA MadeFacts ==
  ASSUME NEW doc, NEW t \in Nat, Made(doc, t)
  PROVE  /\ doc # NoDoc
         /\ doc.payload \in Pages \cup Graphs
         /\ doc.at \in Start..t
         /\ doc.profile.urn \in Urns
         /\ doc.profile.urn = MemberUrn(Asked) <=> doc.payload \in Pages
<1>1. doc # NoDoc
  BY AcquisitionAssumption DEF Made, NoDoc
<1>2. doc.payload \in Pages \cup Graphs /\ doc.at \in Start..t
  BY DEF Made
<1>3. PICK m : doc.profile = Parse(Body[doc.payload], Asked, m)
  BY DEF Made
<1>4. CASE doc.payload \in Graphs
  <2>1. /\ Parse(Body[doc.payload], Asked, m).urn \in Urns
        /\ Parse(Body[doc.payload], Asked, m).urn # MemberUrn(Asked)
    BY <1>4, GraphDocument, UrnsApart
  <2>2. doc.payload \notin Pages
    BY <1>4, AcquisitionAssumption
  <2> QED
    BY <1>1, <1>2, <1>3, <2>1, <2>2
<1>5. CASE doc.payload \in Pages
  <2>1. /\ Parse(Body[doc.payload], Asked, m).urn \in Urns
        /\ Parse(Body[doc.payload], Asked, m).urn = MemberUrn(Asked)
    BY <1>5, PageDocument
  <2> QED
    BY <1>1, <1>2, <1>3, <1>5, <2>1
<1> QED
  BY <1>2, <1>4, <1>5

(* The invariant holds at the start.                                       *)
LEMMA InitIInv == Init => IInv
<1> SUFFICES ASSUME Init PROVE IInv
  OBVIOUS
<1>1. Start \in Nat /\ Horizon \in Nat /\ now = Start
  BY AcquisitionAssumption DEF Init
<1>2. now \in Start..(Start + Horizon)
  BY <1>1
<1>3. DocsInv
  BY DEF Init, DocsInv
<1>4. CallInv
  BY DEF Init, CallInv, PublicStages
<1> QED
  BY <1>2, <1>3, <1>4 DEF IInv

(* A request that ends leaves nothing behind.                              *)
LEMMA LeaveKeeps ==
  ASSUME IInv, NEW c \in Callers, Leave(c), UNCHANGED now
  PROVE  IInv'
<1>1. now' = now /\ docs' = docs
  BY DEF Leave
<1>2. DocsInv'
  BY <1>1 DEF IInv, DocsInv
<1>3. CallInv'
  BY <1>1 DEF IInv, CallInv, Leave, Goto, PublicStages
<1> QED
  BY <1>1, <1>2, <1>3 DEF IInv

(* A request that goes on to a stage keeps the clock it has read.          *)
LEMMA GoOnKeeps ==
  ASSUME IInv, NEW c \in Callers, pc[c] # "upserting", UNCHANGED now,
         NEW step \in {"lookup", "warmed", "search", "login"}, GoOn(c, step),
         step # "lookup" => pc[c] \in PublicStages
  PROVE  IInv'
<1>1. now' = now /\ docs' = docs
  BY DEF GoOn
<1>2. DocsInv'
  BY <1>1 DEF IInv, DocsInv
<1>3. CallInv'
  BY <1>1 DEF IInv, CallInv, GoOn, Goto, PublicStages
<1> QED
  BY <1>1, <1>2, <1>3 DEF IInv

(* The payload is parsed now.                                              *)
LEMMA TakeKeeps ==
  ASSUME IInv, NEW c \in Callers, UNCHANGED now,
         NEW payload \in Pages \cup Graphs, NEW at \in Start..now, Take(c, payload, at)
  PROVE  IInv'
<1> DEFINE doc == [profile |-> Parse(Body[payload], Asked, now),
                   at |-> at, payload |-> payload]
<1>1. now' = now /\ docs' = docs /\ started' = started
  BY DEF Take
<1>2. Start \in Nat /\ now \in Nat
  BY AcquisitionAssumption DEF IInv
<1>3. now \in at..now
  BY <1>2
<1>4. Made(doc, now)
  BY <1>3 DEF Made
<1>5. carried' = [carried EXCEPT ![c] = doc] /\ pc' = [pc EXCEPT ![c] = "upserting"]
  BY DEF Take, Goto
<1> HIDE DEF doc
<1>6. DocsInv'
  BY <1>1 DEF IInv, DocsInv
<1>7. CallInv'
  BY <1>1, <1>4, <1>5 DEF IInv, CallInv, PublicStages
<1> QED
  BY <1>1, <1>6, <1>7 DEF IInv

(* What is stored is what was carried, under its own urn.                  *)
LEMMA UpsertKeeps ==
  ASSUME IInv, NEW c \in Callers, Upsert(c), UNCHANGED now
  PROVE  IInv'
<1> DEFINE doc == carried[c]
           u == doc.profile.urn
<1>1. /\ now' = now
      /\ docs' = [docs EXCEPT ![u] = doc]
      /\ pc' = [pc EXCEPT ![c] = "idle"]
      /\ started' = [started EXCEPT ![c] = 0]
      /\ carried' = [carried EXCEPT ![c] = NoDoc]
  BY DEF Upsert, Goto
<1>2. Made(doc, now)
  BY DEF Upsert, IInv, CallInv
<1> HIDE DEF doc
<1>3. DocsInv'
  BY <1>1, <1>2 DEF IInv, DocsInv
<1>4. CallInv'
  BY <1>1 DEF IInv, CallInv, PublicStages
<1> QED
  BY <1>1, <1>3, <1>4 DEF IInv

(* A month going by keeps it.                                              *)
LEMMA TickKeeps ==
  ASSUME IInv, Tick
  PROVE  IInv'
<1>1. /\ Start \in Nat /\ Horizon \in Nat /\ now \in Start..(Start + Horizon)
      /\ now < Start + Horizon /\ now' = now + 1
      /\ UNCHANGED <<docs, pc, started, carried>>
  BY AcquisitionAssumption DEF IInv, Tick
<1>2. now \in Nat /\ now' \in Nat /\ now <= now' /\ now' \in Start..(Start + Horizon)
  BY <1>1
<1>3. \A doc : Made(doc, now) => Made(doc, now')
  BY <1>2, MadeLater
<1>4. DocsInv'
  BY <1>1, <1>3 DEF IInv, DocsInv
<1>5. Start..now \subseteq Start..now'
  BY <1>1, <1>2
<1>6. CallInv'
  BY <1>1, <1>3, <1>5 DEF IInv, CallInv
<1> QED
  BY <1>2, <1>4, <1>6 DEF IInv

(* Every step keeps the invariant.                                         *)
LEMMA StepIInv == IInv /\ [Next]_vars => IInv'
<1> SUFFICES ASSUME IInv, [Next]_vars
             PROVE  IInv'
  OBVIOUS
<1>0. Start \in Nat \ {0} /\ now \in Nat /\ Start <= now
  BY AcquisitionAssumption DEF IInv
<1>1. ASSUME NEW c \in Callers, Step(c), UNCHANGED now
      PROVE  IInv'
  <2>0. /\ pc[c] \in PublicStages \cup {"login"} => started[c] \in Start..now
        /\ now \in Start..now
    BY <1>0 DEF IInv, CallInv
  <2>1. CASE Begin(c)
    BY <1>1, <2>1, GoOnKeeps DEF Begin
  <2>2. CASE LookupHit(c) \/ Fail(c)
    BY <1>1, <2>2, LeaveKeeps DEF LookupHit, Fail
  <2>3. CASE LookupMiss(c)
    <3>1. /\ now' = now /\ docs' = docs /\ carried' = carried
          /\ pc[c] = "lookup" /\ pc' = [pc EXCEPT ![c] = "direct"]
          /\ started' = [started EXCEPT ![c] = now]
      BY <1>1, <2>3 DEF LookupMiss, Goto
    <3>2. DocsInv'
      BY <3>1 DEF IInv, DocsInv
    <3>3. now \in Start..now /\ now # 0
      BY <1>0
    <3>4. CallInv'
      BY <3>1, <3>3 DEF IInv, CallInv, PublicStages
    <3> QED
      BY <3>1, <3>2, <3>4 DEF IInv
  <2>4. CASE Direct(c)
    <3>1. pc[c] \in PublicStages /\ pc[c] # "upserting"
      BY <2>4 DEF Direct, PublicStages
    <3>2. CASE GoOn(c, "warmed")
      BY <1>1, <3>1, <3>2, GoOnKeeps
    <3>3. ASSUME NEW page \in Pages, Take(c, page, now)
          PROVE  IInv'
      BY <1>1, <2>0, <3>3, TakeKeeps
    <3> QED
      BY <2>4, <3>2, <3>3 DEF Direct
  <2>5. CASE Warmed(c)
    <3>1. pc[c] \in PublicStages /\ pc[c] # "upserting"
      BY <2>5 DEF Warmed, PublicStages
    <3>2. CASE GoOn(c, "search")
      BY <1>1, <3>1, <3>2, GoOnKeeps
    <3>3. ASSUME NEW page \in Pages, Take(c, page, now)
          PROVE  IInv'
      BY <1>1, <2>0, <3>3, TakeKeeps
    <3> QED
      BY <2>5, <3>2, <3>3 DEF Warmed
  <2>6. CASE Search(c)
    <3>1. pc[c] \in PublicStages /\ pc[c] # "upserting"
      BY <2>6 DEF Search, PublicStages
    <3>2. CASE GoOn(c, "login")
      BY <1>1, <3>1, <3>2, GoOnKeeps
    <3>3. ASSUME NEW page \in Pages, Take(c, page, now)
          PROVE  IInv'
      BY <1>1, <2>0, <3>3, TakeKeeps
    <3> QED
      BY <2>6, <3>2, <3>3 DEF Search
  <2>7. CASE Login(c)
    <3>1. ASSUME NEW g \in Graphs, Take(c, g, started[c])
          PROVE  IInv'
      BY <1>1, <2>0, <2>7, <3>1, TakeKeeps DEF Login
    <3> QED
      BY <1>1, <2>7, <3>1, LeaveKeeps DEF Login
  <2>8. CASE Upload(c)
    <3>1. PICK g \in Graphs : Take(c, g, now)
      BY <2>8 DEF Upload
    <3> QED
      BY <1>1, <2>0, <3>1, TakeKeeps
  <2>9. CASE Upsert(c)
    BY <1>1, <2>9, UpsertKeeps
  <2> QED
    BY <1>1, <2>1, <2>2, <2>3, <2>4, <2>5, <2>6, <2>7, <2>8, <2>9 DEF Step
<1>2. CASE Tick
  BY <1>2, TickKeeps
<1>3. CASE UNCHANGED vars
  <2>1. DocsInv' /\ CallInv'
    BY <1>3 DEF vars, IInv, DocsInv, CallInv, Made
  <2> QED
    BY <1>3, <2>1 DEF vars, IInv
<1> QED
  BY <1>1, <1>2, <1>3 DEF Next

(* It holds always.                                                        *)
LEMMA AcquisitionInvariant == Spec => []IInv
<1> QED
  BY InitIInv, StepIInv, PTL DEF Spec

-----------------------------------------------------------------------------
(* What is stored *)

(* What a stored document is known to be.                                  *)
LEMMA StoredFacts ==
  ASSUME IInv, NEW u \in Stored
  PROVE  /\ Made(docs[u], now)
         /\ docs[u].profile.urn = u
         /\ u \in Urns
         /\ now \in Nat /\ Start \in Nat
BY AcquisitionAssumption DEF IInv, DocsInv, Stored

(* Documents lie under their own urns, and a request carries one when and  *)
(* only when it is about to store it (storage/profiles.py:34-39,           *)
(* profile_service.py:68-79).                                              *)
THEOREM AcquisitionTypeOK == Spec => []TypeOK
<1>1. IInv => TypeOK
  <2> SUFFICES ASSUME IInv PROVE TypeOK
    OBVIOUS
  <2>1. \A u \in Urns : docs[u] # NoDoc =>
          /\ docs[u].profile.urn = u
          /\ docs[u].at \in Start..now
          /\ docs[u].payload \in Pages \cup Graphs
    <3> SUFFICES ASSUME NEW u \in Stored
                 PROVE  /\ docs[u].profile.urn = u
                        /\ docs[u].at \in Start..now
                        /\ docs[u].payload \in Pages \cup Graphs
      BY DEF Stored
    <3>1. Made(docs[u], now) /\ docs[u].profile.urn = u /\ now \in Nat
      BY StoredFacts
    <3> QED
      BY <3>1, MadeFacts
  <2>2. \A c \in Callers : carried[c] # NoDoc <=> pc[c] = "upserting"
    <3>1. now \in Nat
      BY AcquisitionAssumption DEF IInv
    <3> QED
      BY <3>1, MadeFacts DEF IInv, CallInv
  <2>3. \A c \in Callers : started[c] # 0 => started[c] \in Start..now
    BY DEF IInv, CallInv
  <2> QED
    BY <2>1, <2>2, <2>3 DEF TypeOK, IInv, CallInv
<1> QED
  BY AcquisitionInvariant, <1>1, PTL

(* Without a role of the company's urn the rules give 60 at most.          *)
LEMMA NotExact ==
  ASSUME NEW p, NEW res, NEW ms, ~HasKind(ms, {"current_exact_urn"})
  PROVE  RulesTotal(p, res, ms) \in Int /\ RulesTotal(p, res, ms) <= 60
<1>1. /\ currentRoleExactUrn(ms) = 0
      /\ currentRoleFuzzyName(ms) \in {0, 25}
      /\ parentSubsidiary(ms) \in {0, 15}
      /\ endedRecent(ms) \in {0, 5}
      /\ endedOld(ms) \in {0, -10}
      /\ noMatch(ms) \in {0, -50}
  BY DEF Weight, currentRoleExactUrn, currentRoleFuzzyName, parentSubsidiary,
         endedRecent, endedOld, noMatch
<1>2. /\ multipleCurrentRoles(p) \in {0, -10}
      /\ contractorOrAdvisor(ms) \in {0, -5}
      /\ ambiguousResolution(res) \in {0, -10}
      /\ timelineOverlap(p) \in {0, -5}
      /\ impossibleDates(p) \in {0, -10}
      /\ insufficientData(p) \in {0, -15, -20}
  BY DEF Weight, multipleCurrentRoles, contractorOrAdvisor, ambiguousResolution,
         timelineOverlap, impossibleDates, insufficientData
<1>3. /\ headlineMentionsCompany(p, res.company) \in {0, 5}
      /\ headlineExperienceConflict(p, res.company, ms) \in {0, -5}
      /\ profileFreshness(p) \in {10, 0, -10}
  BY DEF Weight, headlineMentionsCompany, headlineExperienceConflict, profileFreshness
<1> QED
  BY <1>1, <1>2, <1>3 DEF RulesTotal

(* Roles without a urn match no company by its urn.                        *)
LEMMA NoUrnNoYes ==
  ASSUME NEW q, NEW p, \A i \in DOMAIN p.experience : p.experience[i].urn = NoUrn
  PROVE  RulesSay(q, p) # "yes"
<1> DEFINE res == resolveCompanyFromProfile(q, p.experience)
           ms == matchRoles(p.experience, res.company)
<1>1. \A role, company :
        MatchOf(role, company).kind = "current_exact_urn" => role.urn # NoUrn
  BY DEF MatchOf, Match, UrnHit
<1>2. NoMatch[1].kind # "current_exact_urn" /\ DOMAIN NoMatch = {1}
  BY DEF NoMatch, Match
<1> DEFINE hits == {i \in DOMAIN p.experience : Hit(p.experience[i], res.company)}
<1>3. \/ ms = NoMatch
      \/ ms = [i \in hits |-> MatchOf(p.experience[i], res.company)]
  BY DEF matchRoles
<1>4. ~HasKind(ms, {"current_exact_urn"})
  <2> HIDE DEF res, ms
  <2> QED
    BY <1>1, <1>2, <1>3 DEF HasKind
<1>5. RulesSay(q, p) = VerdictOf(Clamp(RulesTotal(p, res, ms), 0, 100))
  BY DEF RulesSay
<1> HIDE DEF res, ms
<1>6. RulesTotal(p, res, ms) \in Int /\ RulesTotal(p, res, ms) <= 60
  BY <1>4, NotExact
<1>7. Clamp(RulesTotal(p, res, ms), 0, 100) < 70
  BY <1>6 DEF Clamp
<1> QED
  BY <1>5, <1>6, <1>7 DEF VerdictOf, Clamp

(* The rules never say yes on the strength of a public page, whatever it   *)
(* says and whoever is asked about (public.py:228-238).                    *)
THEOREM AcquisitionPublicNeverYes == Spec => []PublicNeverYes
<1>1. IInv => PublicNeverYes
  <2> SUFFICES ASSUME IInv, NEW u \in Stored, NEW q \in Queries,
                      docs[u].payload \in Pages
               PROVE  RulesSay(q, Seen(docs[u].profile, docs[u].at, now)) # "yes"
    BY DEF PublicNeverYes
  <2> DEFINE d == docs[u].profile
             seen == Seen(d, docs[u].at, now)
             page == docs[u].payload
  <2>1. Made(docs[u], now)
    BY StoredFacts
  <2>2. page \in Pages
    OBVIOUS
  <2>3. PICK m : d = Parse(Body[page], Asked, m)
    BY <2>1 DEF Made
  <2> HIDE DEF d, page
  <2>4. \A i \in DOMAIN d.experience : d.experience[i] = PageRole(Body[page])
    BY <2>2, <2>3, PageDocument
  <2>5. DOMAIN seen.experience = DOMAIN d.experience
    BY DEF Seen
  <2>6. ASSUME NEW i \in DOMAIN d.experience
        PROVE  seen.experience[i].urn = NoUrn
    <3>1. seen.experience[i] = [PageRole(Body[page]) EXCEPT !.start = DaysAgo(@, now),
                                                            !.end = DaysAgo(@, now)]
      BY <2>4 DEF Seen
    <3> QED
      BY <3>1 DEF PageRole
  <2> HIDE DEF seen
  <2> QED
    BY <2>5, <2>6, NoUrnNoYes DEF seen, d
<1> QED
  BY AcquisitionInvariant, <1>1, PTL

-----------------------------------------------------------------------------
(* Dates *)

(* The months of a date are numbers, and a year alone spans twelve of      *)
(* them.                                                                   *)
LEMMA DatesNat ==
  ASSUME NEW when \in Dates
  PROVE  /\ Months(when, 1) \in Nat /\ Months(when, 12) \in Nat
         /\ YearOnly(when) => Months(when, 12) = Months(when, 1) + 11
<1>1. when.year \in Nat /\ when.month \in 0..12
  BY DEF Dates, NoWhen
<1> QED
  BY <1>1 DEF Months, YearOnly

(* A role's dates and what was made of them, in a month that has been.     *)
LEMMA StoredRole ==
  ASSUME IInv, NEW u \in Stored, NEW i \in DOMAIN docs[u].profile.experience
  PROVE  LET role == docs[u].profile.experience[i]
         IN  \/ role.current /\ role.end = NoWhen
             \/ /\ role.end \in Dates
                /\ \E m \in docs[u].at..now : role.current = IsCurrent(role.end, m)
<1>1. PICK m \in docs[u].at..now :
        docs[u].profile = Parse(Body[docs[u].payload], Asked, m)
  BY StoredFacts DEF Made
<1>2. docs[u].payload \in Pages \cup Graphs
  BY StoredFacts, MadeFacts
<1> DEFINE d == Parse(Body[docs[u].payload], Asked, m)
           role == d.experience[i]
<1>3. CASE docs[u].payload \in Pages
  <2>1. \A k \in DOMAIN d.experience : d.experience[k] = PageRole(Body[docs[u].payload])
    BY <1>3, PageDocument
  <2> HIDE DEF d
  <2>2. role = PageRole(Body[docs[u].payload])
    BY <1>1, <2>1 DEF d
  <2> QED
    BY <1>1, <2>2 DEF PageRole, d
<1>4. CASE docs[u].payload \in Graphs
  <2>1. \A k \in DOMAIN d.experience :
          /\ d.experience[k].end \in Dates
          /\ d.experience[k].current = IsCurrent(d.experience[k].end, m)
    BY <1>4, GraphDocument
  <2> QED
    BY <1>1, <2>1
<1> QED
  BY <1>2, <1>3, <1>4

(* A role of which only the year of its end is known is either current or  *)
(* has been over for long (profile.py:45, roleMatcher.ts:112-119).         *)
THEOREM AcquisitionYearOnlyNeverRecent == Spec => []YearOnlyNeverRecent
<1>1. IInv => YearOnlyNeverRecent
  <2> SUFFICES ASSUME IInv, NEW u \in Stored,
                      NEW i \in DOMAIN docs[u].profile.experience,
                      YearOnly(docs[u].profile.experience[i].end),
                      ~docs[u].profile.experience[i].current
               PROVE  Seen(docs[u].profile, docs[u].at, now).experience[i].end
                        > RECENT_END_DAYS
    BY DEF YearOnlyNeverRecent
  <2> DEFINE role == docs[u].profile.experience[i]
             end == role.end
  <2>1. end \in Dates /\ end # NoWhen
    BY StoredRole DEF YearOnly
  <2>2. PICK m \in docs[u].at..now : ~IsCurrent(end, m)
    BY StoredRole
  <2>3. Seen(docs[u].profile, docs[u].at, now).experience[i] =
          [role EXCEPT !.start = DaysAgo(@, now), !.end = DaysAgo(@, now)]
    BY DEF Seen
  <2>4. docs[u].at \in Nat /\ now \in Nat /\ m \in Nat /\ m <= now
    <3>1. docs[u].at \in Start..now /\ now \in Nat /\ Start \in Nat
      BY StoredFacts, MadeFacts
    <3> QED
      BY <3>1
  <2> HIDE DEF end
  <2>5. Months(end, 12) < m
    BY <2>1, <2>2, <2>4, DatesNat DEF IsCurrent
  <2>6. DaysAgo(end, now) = 30 * (now - Months(end, 1))
    BY <2>1 DEF DaysAgo
  <2>7. DaysAgo(end, now) > RECENT_END_DAYS
    BY <2>1, <2>4, <2>5, <2>6, DatesNat DEF RECENT_END_DAYS, end
  <2> QED
    BY <2>3, <2>7 DEF end
<1> QED
  BY AcquisitionInvariant, <1>1, PTL

(* For as long as a document is answered, a role it calls current has not  *)
(* been over for longer than the document may be old (profile.py:140,      *)
(* profile_service.py:64).                                                 *)
THEOREM AcquisitionCurrentIsRecent == Spec => []CurrentIsRecent
<1>1. IInv => CurrentIsRecent
  <2> SUFFICES ASSUME IInv, NEW u \in Stored, Young(docs[u]),
                      NEW i \in DOMAIN docs[u].profile.experience,
                      docs[u].profile.experience[i].current,
                      docs[u].profile.experience[i].end # NoWhen
               PROVE  now - Months(docs[u].profile.experience[i].end, 12) < Hard
    BY DEF CurrentIsRecent
  <2> DEFINE end == docs[u].profile.experience[i].end
  <2>1. end \in Dates
    BY StoredRole
  <2>2. PICK m \in docs[u].at..now : IsCurrent(end, m)
    BY StoredRole
  <2>3. docs[u].at \in Nat /\ now \in Nat /\ m \in Nat /\ docs[u].at <= m
    <3>1. docs[u].at \in Start..now /\ now \in Nat /\ Start \in Nat
      BY StoredFacts, MadeFacts
    <3> QED
      BY <3>1
  <2>4. now - docs[u].at < Hard /\ Hard \in Nat
    BY AcquisitionAssumption DEF Young
  <2> HIDE DEF end
  <2>5. Months(end, 12) >= m /\ Months(end, 12) \in Nat
    BY <2>1, <2>2, DatesNat DEF IsCurrent, end
  <2> QED
    BY <2>3, <2>4, <2>5 DEF end
<1> QED
  BY AcquisitionInvariant, <1>1, PTL

-----------------------------------------------------------------------------
(* Growing old *)

(* A date as it is seen, and as it is seen a month later.                  *)
Later(days, then) ==
  \/ days = NoDate /\ then = NoDate
  \/ days \in Int \ {NoDate} /\ then \in Int \ {NoDate} /\ then = days + 30

(* A profile as it is seen, and as it is seen a month later.               *)
Aged(p, r) ==
  /\ \E n \in Nat : DOMAIN p.experience = 1..n
  /\ p.experience = [i \in DOMAIN p.experience |-> p.experience[i]]
  /\ r.experience = [i \in DOMAIN p.experience |-> r.experience[i]]
  /\ \A i \in DOMAIN p.experience :
       LET a == p.experience[i]
           b == r.experience[i]
       IN  /\ b.urn = a.urn /\ b.name = a.name /\ b.type = a.type
           /\ b.current = a.current
           /\ Later(a.start, b.start) /\ Later(a.end, b.end)
  /\ r.headline = p.headline
  /\ p.updated \in Int /\ r.updated \in Int /\ p.updated <= r.updated

(* The matches of the one and of the other: a role that ended recently may *)
(* become one that ended long ago.                                         *)
MatchesAged(ms, ns) ==
  /\ DOMAIN ms # {} /\ DOMAIN ms \in SUBSET Nat /\ DOMAIN ns = DOMAIN ms
  /\ \A i \in DOMAIN ms :
       /\ ns[i].role.name = ms[i].role.name /\ ns[i].role.type = ms[i].role.type
       /\ \/ ns[i].kind = ms[i].kind
          \/ /\ ms[i].kind = "ended_recent_at_company"
             /\ ns[i].kind = "ended_old_at_company"

(* A month does not change a date into none, nor the other way around.     *)
LEMMA DaysLater ==
  ASSUME NEW when \in Dates, NEW t \in Nat
  PROVE  Later(DaysAgo(when, t), DaysAgo(when, t + 1))
<1>1. CASE when = NoWhen
  BY <1>1 DEF DaysAgo, Later
<1>2. CASE when # NoWhen
  <2> DEFINE m == Months(when, 1)
  <2>1. m \in Nat
    BY DatesNat
  <2>2. DaysAgo(when, t) = 30 * (t - m) /\ DaysAgo(when, t + 1) = 30 * ((t + 1) - m)
    BY <1>2 DEF DaysAgo
  <2> HIDE DEF m
  <2>3. 30 * (t - m) \in Int \ {-1} /\ 30 * ((t + 1) - m) \in Int \ {-1}
    BY <2>1
  <2>4. 30 * ((t + 1) - m) = 30 * (t - m) + 30
    BY <2>1
  <2> QED
    BY <2>2, <2>3, <2>4 DEF Later, NoDate
<1> QED
  BY <1>1, <1>2

(* The company is found by the urns and the names of the roles, whatever   *)
(* their dates.                                                            *)
LEMMA SameCompany ==
  ASSUME NEW q, NEW p, NEW r, Aged(p, r)
  PROVE  resolveCompanyFromProfile(q, r.experience)
           = resolveCompanyFromProfile(q, p.experience)
<1> DEFINE e == p.experience
           f == r.experience
           firsts == {i \in DOMAIN e : IsFirst(i, e)}
<1>1. PICK n \in Nat : DOMAIN e = 1..n
  BY DEF Aged
<1>2. DOMAIN f = 1..n
  BY <1>1 DEF Aged
<1>3. \A i \in 1..n : f[i].urn = e[i].urn /\ f[i].name = e[i].name
  BY <1>1 DEF Aged
<1> HIDE DEF e, f
<1>4. \A i \in 1..n : CompanyOf(f[i]) = CompanyOf(e[i]) /\ Key(f[i]) = Key(e[i])
  BY <1>3 DEF CompanyOf, Key
<1>5. ASSUME NEW i \in 1..n PROVE IsFirst(i, f) <=> IsFirst(i, e)
  <2>1. \A j \in 1..(i - 1) : j \in 1..n
    OBVIOUS
  <2> QED
    BY <1>4, <2>1 DEF IsFirst
<1>6. {i \in DOMAIN f : IsFirst(i, f)} = firsts /\ firsts \subseteq 1..n
  BY <1>1, <1>2, <1>5
<1>7. Candidates(f) = [i \in firsts |-> CompanyOf(f[i])]
  BY <1>6 DEF Candidates
<1>8. Candidates(e) = [i \in firsts |-> CompanyOf(e[i])]
  BY DEF Candidates
<1> HIDE DEF firsts
<1>9. Candidates(f) = Candidates(e)
  BY <1>4, <1>6, <1>7, <1>8
<1> QED
  BY <1>9, Zenon DEF resolveCompanyFromProfile, e, f

(* The roles that match are the same, and so is what each matches as, but  *)
(* for an end that has become old.                                         *)
LEMMA MatchesLater ==
  ASSUME NEW p, NEW r, Aged(p, r), NEW company
  PROVE  MatchesAged(matchRoles(p.experience, company), matchRoles(r.experience, company))
<1> DEFINE e == p.experience
           f == r.experience
           hits(x) == {i \in DOMAIN x : Hit(x[i], company)}
<1>1. DOMAIN f = DOMAIN e /\ DOMAIN e \in SUBSET Nat
  BY DEF Aged
<1>2. ASSUME NEW i \in DOMAIN e
      PROVE  /\ f[i].urn = e[i].urn /\ f[i].name = e[i].name /\ f[i].type = e[i].type
             /\ f[i].current = e[i].current /\ Later(e[i].end, f[i].end)
  BY DEF Aged
<1> HIDE DEF e, f
<1>3. ASSUME NEW i \in DOMAIN e
      PROVE  /\ UrnHit(f[i], company) <=> UrnHit(e[i], company)
             /\ ParentHit(f[i], company) <=> ParentHit(e[i], company)
             /\ Hit(f[i], company) <=> Hit(e[i], company)
  BY <1>2 DEF UrnHit, ParentHit, Hit, Similarity
<1>4. hits(f) = hits(e)
  BY <1>1, <1>3
<1>5. ASSUME NEW i \in DOMAIN e
      PROVE  LET m == MatchOf(e[i], company)
                 n == MatchOf(f[i], company)
             IN  /\ n.role.name = m.role.name /\ n.role.type = m.role.type
                 /\ \/ n.kind = m.kind
                    \/ /\ m.kind = "ended_recent_at_company"
                       /\ n.kind = "ended_old_at_company"
  <2>1. MatchOf(e[i], company).role = e[i] /\ MatchOf(f[i], company).role = f[i]
    BY DEF MatchOf, Match
  <2>2. f[i].end # NoDate /\ f[i].end <= RECENT_END_DAYS
          => e[i].end # NoDate /\ e[i].end <= RECENT_END_DAYS
    BY <1>2 DEF Later, NoDate, RECENT_END_DAYS
  <2>3. \/ MatchOf(f[i], company).kind = MatchOf(e[i], company).kind
        \/ /\ MatchOf(e[i], company).kind = "ended_recent_at_company"
           /\ MatchOf(f[i], company).kind = "ended_old_at_company"
    <3>1. CASE e[i].current
      BY <1>2, <1>3, <3>1 DEF MatchOf, Match
    <3>2. CASE ~e[i].current
      BY <1>2, <2>2, <3>2 DEF MatchOf, Match
    <3> QED
      BY <3>1, <3>2
  <2> QED
    BY <1>2, <2>1, <2>3
<1>6. CASE company = NoCompany \/ hits(e) = {}
  <2>1. matchRoles(e, company) = NoMatch /\ matchRoles(f, company) = NoMatch
    BY <1>4, <1>6 DEF matchRoles
  <2>2. DOMAIN NoMatch = {1}
    BY DEF NoMatch
  <2> QED
    BY <2>1, <2>2 DEF MatchesAged, e, f
<1>7. CASE ~(company = NoCompany \/ hits(e) = {})
  <2>1. matchRoles(e, company) = [i \in hits(e) |-> MatchOf(e[i], company)]
    BY <1>7 DEF matchRoles
  <2>2. matchRoles(f, company) = [i \in hits(e) |-> MatchOf(f[i], company)]
    BY <1>4, <1>7 DEF matchRoles
  <2>3. hits(e) # {} /\ hits(e) \in SUBSET Nat /\ hits(e) \subseteq DOMAIN e
    BY <1>1, <1>7
  <2> HIDE DEF hits
  <2> QED
    BY <1>5, <2>1, <2>2, <2>3 DEF MatchesAged, e, f
<1> QED
  BY <1>6, <1>7

(* What the rules say of matches: an end that has become old is worth less. *)
LEMMA MatchRulesLater ==
  ASSUME NEW ms, NEW ns, MatchesAged(ms, ns)
  PROVE  /\ currentRoleExactUrn(ns) = currentRoleExactUrn(ms)
         /\ currentRoleFuzzyName(ns) = currentRoleFuzzyName(ms)
         /\ parentSubsidiary(ns) = parentSubsidiary(ms)
         /\ endedRecent(ns) <= endedRecent(ms)
         /\ endedOld(ns) <= endedOld(ms)
         /\ noMatch(ns) = noMatch(ms)
         /\ contractorOrAdvisor(ns) = contractorOrAdvisor(ms)
<1> DEFINE recent == "ended_recent_at_company"
           old == "ended_old_at_company"
<1>1. DOMAIN ns = DOMAIN ms
  BY DEF MatchesAged
<1>2. \A i \in DOMAIN ms : \/ ns[i].kind = ms[i].kind
                           \/ ms[i].kind = recent /\ ns[i].kind = old
  BY DEF MatchesAged
<1>3. ASSUME NEW K, recent \notin K, old \notin K
      PROVE  HasKind(ns, K) <=> HasKind(ms, K)
  BY <1>1, <1>2, <1>3 DEF HasKind
<1>4. Currents(ns) = Currents(ms)
  BY <1>1, <1>2 DEF Currents, Current
<1>5. HasKind(ns, {recent}) => HasKind(ms, {recent})
  BY <1>1, <1>2 DEF HasKind
<1>6. HasKind(ms, {old}) => HasKind(ns, {old})
  BY <1>1, <1>2 DEF HasKind
<1>7. First(ns).kind = "no_match" <=> First(ms).kind = "no_match"
  <2>1. Min(DOMAIN ms) \in DOMAIN ms
    BY LeastOf DEF MatchesAged
  <2> QED
    BY <1>1, <1>2, <2>1 DEF First
<1>8. HasCurrent(ns) <=> HasCurrent(ms)
  BY <1>4 DEF HasCurrent
<1>9. /\ currentRoleExactUrn(ns) = currentRoleExactUrn(ms)
      /\ currentRoleFuzzyName(ns) = currentRoleFuzzyName(ms)
      /\ parentSubsidiary(ns) = parentSubsidiary(ms)
  BY <1>3 DEF currentRoleExactUrn, currentRoleFuzzyName, parentSubsidiary, Weight
<1>10. endedRecent(ns) <= endedRecent(ms) /\ endedOld(ns) <= endedOld(ms)
  BY <1>5, <1>6, <1>8 DEF endedRecent, endedOld, Weight
<1>11. contractorOrAdvisor(ns) = contractorOrAdvisor(ms)
  <2>1. \A i \in DOMAIN ms :
          /\ ns[i].kind # "no_match" <=> ms[i].kind # "no_match"
          /\ ns[i].role.type = ms[i].role.type
    BY <1>2 DEF MatchesAged
  <2> QED
    BY <1>1, <2>1 DEF contractorOrAdvisor, Weight
<1> QED
  BY <1>7, <1>9, <1>10, <1>11 DEF noMatch, Weight

(* Roles that overlapped still do, impossible dates remain so, and data    *)
(* gets no fresher.                                                        *)
LEMMA DateRulesLater ==
  ASSUME NEW p, NEW r, Aged(p, r)
  PROVE  /\ profileFreshness(r) <= profileFreshness(p)
         /\ timelineOverlap(r) <= timelineOverlap(p)
         /\ impossibleDates(r) <= impossibleDates(p)
<1> DEFINE e == p.experience
           f == r.experience
<1>1. DOMAIN f = DOMAIN e
  BY DEF Aged
<1>2. ASSUME NEW i \in DOMAIN e
      PROVE  /\ f[i].urn = e[i].urn /\ f[i].name = e[i].name
             /\ f[i].current = e[i].current
             /\ Later(e[i].start, f[i].start) /\ Later(e[i].end, f[i].end)
  BY DEF Aged
<1>3. profileFreshness(r) <= profileFreshness(p)
  BY DEF Aged, profileFreshness
<1> HIDE DEF e, f
<1>4. ASSUME NEW i \in DOMAIN e, NEW j \in DOMAIN e, Overlap(e[i], e[j])
      PROVE  Overlap(f[i], f[j])
  <2>1. /\ e[i].start # NoDate /\ e[j].start # NoDate
        /\ Until(e[i]) # NoDate /\ Until(e[j]) # NoDate
    BY <1>4 DEF Overlap
  <2>2. /\ e[i].start \in Int /\ f[i].start = e[i].start + 30 /\ f[i].start # NoDate
        /\ e[j].start \in Int /\ f[j].start = e[j].start + 30 /\ f[j].start # NoDate
    BY <1>2, <2>1 DEF Later
  <2>3. ASSUME NEW k \in {i, j}
        PROVE  /\ Until(e[k]) \in Int /\ Until(f[k]) \in Int /\ Until(f[k]) # NoDate
               /\ Until(f[k]) <= Until(e[k]) + 30
    <3>1. CASE e[k].current
      BY <1>2, <3>1 DEF Until, NoDate
    <3>2. CASE ~e[k].current
      BY <1>2, <2>1, <3>2 DEF Until, Later
    <3> QED
      BY <3>1, <3>2
  <2>4. /\ f[i].urn = NoUrn \/ f[i].urn # f[j].urn
        /\ f[i].name # f[j].name
    BY <1>2, <1>4 DEF Overlap
  <2>5. (IF e[i].start < e[j].start THEN e[i].start ELSE e[j].start)
          - (IF Until(e[i]) > Until(e[j]) THEN Until(e[i]) ELSE Until(e[j])) > 365
    BY <1>4 DEF Overlap
  <2>6. (IF f[i].start < f[j].start THEN f[i].start ELSE f[j].start)
          - (IF Until(f[i]) > Until(f[j]) THEN Until(f[i]) ELSE Until(f[j])) > 365
    BY <2>2, <2>3, <2>5
  <2> QED
    BY <2>2, <2>3, <2>4, <2>6 DEF Overlap
<1>5. timelineOverlap(r) <= timelineOverlap(p)
  BY <1>1, <1>4 DEF timelineOverlap, Weight, e, f
<1>6. ASSUME NEW i \in DOMAIN e, Impossible(e[i])
      PROVE  Impossible(f[i])
  <2>1. /\ e[i].start \in Int /\ f[i].start = e[i].start + 30 /\ f[i].start # NoDate
    BY <1>2, <1>6 DEF Impossible, Later
  <2>2. CASE e[i].start > Since1950
    BY <2>1, <2>2, AcquisitionAssumption DEF Impossible
  <2>3. CASE ~e[i].current /\ e[i].end # NoDate /\ e[i].start < e[i].end
    BY <1>2, <2>1, <2>3 DEF Impossible, Later
  <2> QED
    BY <1>6, <2>2, <2>3 DEF Impossible
<1>7. impossibleDates(r) <= impossibleDates(p)
  BY <1>1, <1>6 DEF impossibleDates, Weight, e, f
<1> QED
  BY <1>3, <1>5, <1>7

(* The other rules say what they said.                                     *)
LEMMA OtherRulesLater ==
  ASSUME NEW p, NEW r, Aged(p, r), NEW ms, NEW ns, MatchesAged(ms, ns), NEW company
  PROVE  /\ multipleCurrentRoles(r) = multipleCurrentRoles(p)
         /\ headlineMentionsCompany(r, company) = headlineMentionsCompany(p, company)
         /\ headlineExperienceConflict(r, company, ns)
              = headlineExperienceConflict(p, company, ms)
         /\ insufficientData(r) = insufficientData(p)
<1>1. r.headline = p.headline
  BY DEF Aged
<1>2. multipleCurrentRoles(r) = multipleCurrentRoles(p)
  <2>1. CurrentRoles(r) = CurrentRoles(p)
    BY DEF CurrentRoles, Aged
  <2> QED
    BY <2>1 DEF multipleCurrentRoles
<1>3. HasBoth(r, company) = HasBoth(p, company) /\ InHeadline(r, company) = InHeadline(p, company)
  BY <1>1 DEF HasBoth, InHeadline
<1>4. Currents(ns) = Currents(ms)
  BY DEF Currents, Current, MatchesAged
<1>5. HasCurrent(ns) = HasCurrent(ms)
  BY <1>4 DEF HasCurrent
<1>6. HasCurrent(ms) => FirstCurrent(ns).role.name = FirstCurrent(ms).role.name
  <2> SUFFICES ASSUME HasCurrent(ms)
               PROVE  FirstCurrent(ns).role.name = FirstCurrent(ms).role.name
    OBVIOUS
  <2>1. Currents(ms) # {} /\ Currents(ms) \in SUBSET Nat /\ Currents(ms) \subseteq DOMAIN ms
    BY DEF HasCurrent, Currents, MatchesAged
  <2>2. Min(Currents(ms)) \in DOMAIN ms
    BY <2>1, LeastOf
  <2> QED
    BY <1>4, <2>2 DEF FirstCurrent, MatchesAged
<1>7. HeadlineConflict(r, company, ns) = HeadlineConflict(p, company, ms)
  <2>1. CASE HasCurrent(ms)
    BY <1>1, <1>3, <1>5, <1>6, <2>1 DEF HeadlineConflict
  <2>2. CASE ~HasCurrent(ms)
    BY <1>3, <1>5, <2>2 DEF HeadlineConflict
  <2> QED
    BY <2>1, <2>2
<1>8. insufficientData(r) = insufficientData(p)
  <2>1. /\ r.experience = <<>> <=> p.experience = <<>>
        /\ DOMAIN r.experience = DOMAIN p.experience
        /\ \A i \in DOMAIN p.experience : r.experience[i].name = p.experience[i].name
    BY DEF Aged
  <2> QED
    BY <2>1 DEF insufficientData, Weight
<1> QED
  BY <1>2, <1>3, <1>7, <1>8 DEF headlineMentionsCompany, headlineExperienceConflict

(* The sum is a number.                                                    *)
LEMMA RulesInt ==
  ASSUME NEW p, NEW res, NEW ms
  PROVE  /\ currentRoleExactUrn(ms) \in Int /\ currentRoleFuzzyName(ms) \in Int
         /\ parentSubsidiary(ms) \in Int
         /\ endedRecent(ms) \in Int /\ endedOld(ms) \in Int
         /\ noMatch(ms) \in Int /\ contractorOrAdvisor(ms) \in Int
         /\ profileFreshness(p) \in Int /\ multipleCurrentRoles(p) \in Int
         /\ headlineMentionsCompany(p, res.company) \in Int
         /\ ambiguousResolution(res) \in Int
         /\ timelineOverlap(p) \in Int /\ impossibleDates(p) \in Int
         /\ headlineExperienceConflict(p, res.company, ms) \in Int
         /\ insufficientData(p) \in Int
<1>1. /\ currentRoleExactUrn(ms) \in Int /\ currentRoleFuzzyName(ms) \in Int
      /\ parentSubsidiary(ms) \in Int
      /\ endedRecent(ms) \in Int /\ endedOld(ms) \in Int
      /\ noMatch(ms) \in Int /\ contractorOrAdvisor(ms) \in Int
  BY DEF Weight, currentRoleExactUrn, currentRoleFuzzyName, parentSubsidiary, endedRecent,
         endedOld, noMatch, contractorOrAdvisor
<1>2. /\ multipleCurrentRoles(p) \in Int /\ ambiguousResolution(res) \in Int
      /\ timelineOverlap(p) \in Int /\ impossibleDates(p) \in Int
      /\ insufficientData(p) \in Int
  BY DEF Weight, multipleCurrentRoles, ambiguousResolution, timelineOverlap,
         impossibleDates, insufficientData
<1>3. /\ headlineMentionsCompany(p, res.company) \in Int
      /\ headlineExperienceConflict(p, res.company, ms) \in Int
      /\ profileFreshness(p) \in Int
  BY DEF Weight, headlineMentionsCompany, headlineExperienceConflict, profileFreshness
<1> QED
  BY <1>1, <1>2, <1>3

(* What the rules say yes to was a yes a month before.                     *)
LEMMA YesWasYes ==
  ASSUME NEW q, NEW p, NEW r, Aged(p, r), RulesSay(q, r) = "yes"
  PROVE  RulesSay(q, p) = "yes"
<1> DEFINE res == resolveCompanyFromProfile(q, p.experience)
           ms == matchRoles(p.experience, res.company)
           ns == matchRoles(r.experience, res.company)
           before == RulesTotal(p, res, ms)
           after == RulesTotal(r, res, ns)
<1>1. RulesSay(q, p) = VerdictOf(Clamp(before, 0, 100))
  BY DEF RulesSay
<1>2. RulesSay(q, r) = VerdictOf(Clamp(after, 0, 100))
  BY SameCompany DEF RulesSay
<1>3. MatchesAged(ms, ns)
  BY MatchesLater
<1> HIDE DEF res, ms, ns
<1>4. before \in Int /\ after \in Int /\ after <= before
  <2>1. /\ currentRoleExactUrn(ns) = currentRoleExactUrn(ms)
        /\ currentRoleFuzzyName(ns) = currentRoleFuzzyName(ms)
        /\ parentSubsidiary(ns) = parentSubsidiary(ms)
        /\ endedRecent(ns) <= endedRecent(ms)
        /\ endedOld(ns) <= endedOld(ms)
        /\ noMatch(ns) = noMatch(ms)
        /\ contractorOrAdvisor(ns) = contractorOrAdvisor(ms)
    BY <1>3, MatchRulesLater
  <2>2. /\ profileFreshness(r) <= profileFreshness(p)
        /\ timelineOverlap(r) <= timelineOverlap(p)
        /\ impossibleDates(r) <= impossibleDates(p)
    BY DateRulesLater
  <2>3. /\ multipleCurrentRoles(r) = multipleCurrentRoles(p)
        /\ headlineMentionsCompany(r, res.company) = headlineMentionsCompany(p, res.company)
        /\ headlineExperienceConflict(r, res.company, ns)
             = headlineExperienceConflict(p, res.company, ms)
        /\ insufficientData(r) = insufficientData(p)
    BY <1>3, OtherRulesLater
  <2> QED
    BY <2>1, <2>2, <2>3, RulesInt DEF RulesTotal
<1> HIDE DEF before, after
<1>5. after >= 70
  BY <1>2, <1>4 DEF VerdictOf, Clamp
<1> QED
  BY <1>1, <1>4, <1>5 DEF VerdictOf, Clamp

(* A stored document is seen aged when a month has passed.                 *)
LEMMA StoredAges ==
  ASSUME IInv, NEW u \in Stored
  PROVE  Aged(Seen(docs[u].profile, docs[u].at, now),
              Seen(docs[u].profile, docs[u].at, now + 1))
<1> DEFINE at == docs[u].at
           d == docs[u].profile
           p == Seen(d, at, now)
           r == Seen(d, at, now + 1)
<1>1. PICK m \in at..now : d = Parse(Body[docs[u].payload], Asked, m)
  BY StoredFacts DEF Made
<1>2. docs[u].payload \in Pages \cup Graphs /\ at \in Start..now /\ now \in Nat /\ Start \in Nat
  BY StoredFacts, MadeFacts
<1>3. /\ \E n \in Nat : DOMAIN d.experience = 1..n
      /\ d.updated \in Nat
      /\ \A i \in DOMAIN d.experience :
           /\ IsRole(d.experience[i])
           /\ d.experience[i].start \in Dates /\ d.experience[i].end \in Dates
  <2> DEFINE x == Parse(Body[docs[u].payload], Asked, m)
  <2>1. CASE docs[u].payload \in Pages
    <3>1. /\ \E n \in Nat : DOMAIN x.experience = 1..n
          /\ x.updated \in Nat
          /\ \A i \in DOMAIN x.experience : x.experience[i] = PageRole(Body[docs[u].payload])
      BY <2>1, PageDocument
    <3>2. /\ IsRole(PageRole(Body[docs[u].payload]))
          /\ PageRole(Body[docs[u].payload]).start \in Dates
          /\ PageRole(Body[docs[u].payload]).end \in Dates
      BY DEF PageRole, Dates, IsRole
    <3> HIDE DEF x
    <3>3. d = x
      BY <1>1 DEF x
    <3> QED
      BY <3>1, <3>2, <3>3
  <2>2. CASE docs[u].payload \in Graphs
    <3>1. /\ \E n \in Nat : DOMAIN x.experience = 1..n
          /\ x.updated \in Nat
          /\ \A i \in DOMAIN x.experience :
               /\ IsRole(x.experience[i])
               /\ x.experience[i].start \in Dates /\ x.experience[i].end \in Dates
      BY <2>2, GraphDocument
    <3> HIDE DEF x
    <3>2. d = x
      BY <1>1 DEF x
    <3> QED
      BY <3>1, <3>2
  <2> QED
    BY <1>2, <2>1, <2>2
<1>4. at \in Nat
  BY <1>2
<1> HIDE DEF d, at
<1>5. p.experience = [i \in DOMAIN d.experience |->
                        [d.experience[i] EXCEPT !.start = DaysAgo(@, now),
                                                !.end = DaysAgo(@, now)]]
  BY DEF Seen
<1>6. r.experience = [i \in DOMAIN d.experience |->
                        [d.experience[i] EXCEPT !.start = DaysAgo(@, now + 1),
                                                !.end = DaysAgo(@, now + 1)]]
  BY DEF Seen
<1>7. /\ r.headline = p.headline
      /\ p.updated = 30 * (now - IF d.updated = 0 THEN at ELSE d.updated)
      /\ r.updated = 30 * ((now + 1) - IF d.updated = 0 THEN at ELSE d.updated)
  BY DEF Seen
<1> HIDE DEF p, r
<1>8. p.updated \in Int /\ r.updated \in Int /\ p.updated <= r.updated
  BY <1>2, <1>3, <1>4, <1>7
<1>9. /\ DOMAIN p.experience = DOMAIN d.experience
      /\ DOMAIN r.experience = DOMAIN d.experience
      /\ p.experience = [i \in DOMAIN p.experience |-> p.experience[i]]
      /\ r.experience = [i \in DOMAIN p.experience |-> r.experience[i]]
  BY <1>5, <1>6
<1>10. ASSUME NEW i \in DOMAIN d.experience
       PROVE  LET a == p.experience[i]
                  b == r.experience[i]
              IN  /\ b.urn = a.urn /\ b.name = a.name /\ b.type = a.type
                  /\ b.current = a.current
                  /\ Later(a.start, b.start) /\ Later(a.end, b.end)
  <2> DEFINE role == d.experience[i]
  <2>1. IsRole(role) /\ role.start \in Dates /\ role.end \in Dates
    BY <1>3
  <2>2. /\ p.experience[i] = [role EXCEPT !.start = DaysAgo(@, now), !.end = DaysAgo(@, now)]
        /\ r.experience[i] = [role EXCEPT !.start = DaysAgo(@, now + 1),
                                          !.end = DaysAgo(@, now + 1)]
    BY <1>5, <1>6
  <2>3. /\ Later(DaysAgo(role.start, now), DaysAgo(role.start, now + 1))
        /\ Later(DaysAgo(role.end, now), DaysAgo(role.end, now + 1))
    BY <1>2, <2>1, DaysLater
  <2> HIDE DEF role
  <2> QED
    BY <2>1, <2>2, <2>3 DEF IsRole
<1>11. Aged(p, r)
  BY <1>3, <1>7, <1>8, <1>9, <1>10 DEF Aged
<1> QED
  BY <1>11 DEF p, r, d, at

(* A month that passes makes no stored document say yes that said none,    *)
(* whoever is asked about (profile.py:140, rules.ts).                      *)
THEOREM AcquisitionAgeingNeverYes == Spec => AgeingNeverYes
<1>1. IInv /\ [Next]_vars =>
        [Tick => \A u \in Stored, q \in Queries :
           LET said(month) == RulesSay(q, Seen(docs[u].profile, docs[u].at, month))
           IN  said(now') = "yes" => said(now) = "yes"]_vars
  <2> SUFFICES ASSUME IInv, Tick, NEW u \in Stored, NEW q \in Queries,
                      RulesSay(q, Seen(docs[u].profile, docs[u].at, now')) = "yes"
               PROVE  RulesSay(q, Seen(docs[u].profile, docs[u].at, now)) = "yes"
    OBVIOUS
  <2>1. now' = now + 1
    BY DEF Tick
  <2> QED
    BY <2>1, StoredAges, YesWasYes
<1> QED
  BY AcquisitionInvariant, <1>1, PTL DEF Spec, AgeingNeverYes

-----------------------------------------------------------------------------
(* Which roles it has *)

(* A stored graph's document has the payload's positions, as they came     *)
(* last, and none twice that has an entityUrn or the older type            *)
(* (profile.py:128-134, voyager_graph.py:29-32).                           *)
THEOREM AcquisitionOneRolePerPosition == Spec => []OneRolePerPosition
<1>1. IInv => OneRolePerPosition
  <2> SUFFICES ASSUME IInv, NEW u \in Stored, docs[u].payload \in Graphs,
                      NewestOf(Body[docs[u].payload].included, "Profile") # {}
               PROVE  LET roles == docs[u].profile.experience
                          included == Body[docs[u].payload].included
                      IN  \E position \in Surjection(DOMAIN roles, NewestOf(included, "Position")) :
                            /\ \A i \in DOMAIN roles :
                                 /\ roles[i].urn = position[i].company
                                 /\ roles[i].start = position[i].start
                                 /\ roles[i].end = position[i].end
                            /\ \A i, j \in DOMAIN roles :
                                 position[i] = position[j] /\ i # j =>
                                   /\ position[i].urn = NoEntityUrn
                                   /\ ".identity.profile.Position" \in EndsWith(position[i].type)
    BY DEF OneRolePerPosition
  <2> DEFINE inc == Body[docs[u].payload].included
             s == ByUrn(inc)
             pos == Positions(s)
             roles == docs[u].profile.experience
  <2>1. PICK m : docs[u].profile = Parse(Body[docs[u].payload], Asked, m)
    BY StoredFacts DEF Made
  <2>2. docs[u].profile = ReadGraph(Body[docs[u].payload], m)
    BY <2>1, PayloadAssumption DEF Parse, FromGraph
  <2>3. inc \in Seq(ToSet(inc))
    BY PayloadAssumption DEF Objects
  <2>4. /\ s \in Seq(ToSet(inc)) /\ ToSet(s) = Newest(inc)
        /\ \A k, l \in DOMAIN s : GraphKey(s[k]) = GraphKey(s[l]) => k = l
    BY <2>3, ByUrnSeq, ByUrnNewest
  <2>5. ProfileObjects(s) # <<>>
    <3>1. \E o \in ToSet(s) : "Profile" \in EndsWith(o.type)
      BY <2>4 DEF NewestOf
    <3> HIDE DEF s
    <3> QED
      BY <2>4, <3>1, ProfileObjectsNone
  <2>6. roles = [k \in DOMAIN pos |-> Experience(pos[k], m)]
    BY <2>2, <2>5 DEF ReadGraph, Document
  <2>7. {o \in ToSet(s) : "Position" \in EndsWith(o.type)} = NewestOf(inc, "Position")
    BY <2>4 DEF NewestOf
  <2> HIDE DEF inc, s, pos, roles
  <2>8. /\ pos \in Surjection(DOMAIN pos, NewestOf(inc, "Position"))
        /\ \A k, l \in DOMAIN pos : pos[k] = pos[l] /\ k # l =>
             /\ pos[k].urn = NoEntityUrn
             /\ ".identity.profile.Position" \in EndsWith(pos[k].type)
    BY <2>4, <2>7, PositionsOnce DEF pos
  <2>9. /\ DOMAIN roles = DOMAIN pos
        /\ \A i \in DOMAIN roles : /\ roles[i].urn = pos[i].company
                                    /\ roles[i].start = pos[i].start
                                    /\ roles[i].end = pos[i].end
    BY <2>6 DEF Experience
  <2> QED
    BY <2>8, <2>9 DEF inc, roles
<1> QED
  BY AcquisitionInvariant, <1>1, PTL

-----------------------------------------------------------------------------
(* Whose document it is *)

(* From a graph: the document has no slug, or all that the document of one *)
(* of its profile objects has.                                             *)
LEMMA StoredGraph ==
  ASSUME IInv, NEW u \in Stored, docs[u].payload \in Graphs
  PROVE  \/ /\ NewestOf(Body[docs[u].payload].included, "Profile") = {}
            /\ docs[u].profile.slug = NoSlug
         \/ \E o \in Profiles(docs[u].payload) :
              /\ u = EntityUrn(o)
              /\ docs[u].profile.slug = o.slug
              /\ docs[u].profile.who = o.who
<1>1. Made(docs[u], now) /\ docs[u].profile.urn = u
  BY StoredFacts
<1>2. PICK m : docs[u].profile = Parse(Body[docs[u].payload], Asked, m)
  BY <1>1 DEF Made
<1>3. LET d == Parse(Body[docs[u].payload], Asked, m)
      IN  \/ NewestOf(Body[docs[u].payload].included, "Profile") = {} /\ d.slug = NoSlug
          \/ \E o \in Profiles(docs[u].payload) :
               d.urn = EntityUrn(o) /\ d.slug = o.slug /\ d.who = o.who
  BY GraphDocument
<1> QED
  BY <1>1, <1>2, <1>3

(* A stored page is under the urn made of the slug that was asked for.     *)
LEMMA StoredPage ==
  ASSUME IInv, NEW u \in Stored, docs[u].payload \in Pages
  PROVE  /\ u = MemberUrn(Asked)
         /\ docs[u].profile.slug = Asked
         /\ docs[u].profile.who = Body[docs[u].payload].who
<1>1. Made(docs[u], now) /\ docs[u].profile.urn = u
  BY StoredFacts
<1>2. PICK m : docs[u].profile = Parse(Body[docs[u].payload], Asked, m)
  BY <1>1 DEF Made
<1>3. LET d == Parse(Body[docs[u].payload], Asked, m)
      IN  d.urn = MemberUrn(Asked) /\ d.slug = Asked /\ d.who = Body[docs[u].payload].who
  BY PageDocument
<1> QED
  BY <1>1, <1>2, <1>3

(* The rules say yes of nobody but the person under her url: not of what a *)
(* page says, and a graph's document is under her url by her slug          *)
(* (public.py:228-238, profile.py:161-162).                                *)
THEOREM AcquisitionYesIsThePersons == Spec => []YesIsThePersons
<1>1. IInv /\ PublicNeverYes => YesIsThePersons
  <2> SUFFICES ASSUME IInv, PublicNeverYes, NEW u \in Found, NEW q \in Queries,
                      RulesSay(q, Seen(docs[u].profile, docs[u].at, now)) = "yes"
               PROVE  docs[u].profile.who = Person
    BY DEF YesIsThePersons
  <2>1. u \in Stored /\ docs[u].profile.slug = Asked
    BY DEF Found, Stored
  <2>2. docs[u].payload \notin Pages
    BY <2>1 DEF PublicNeverYes
  <2>3. docs[u].payload \in Graphs
    <3>1. Made(docs[u], now) /\ now \in Nat
      BY <2>1, StoredFacts
    <3> QED
      BY <2>2, <3>1, MadeFacts
  <2> QED
    BY <2>1, <2>3, StoredGraph, IdentityAssumption
<1> QED
  BY AcquisitionInvariant, AcquisitionPublicNeverYes, <1>1, PTL

(* A page never takes the place of a graph's document (public.py:243,      *)
(* profiles.py:34-39).                                                     *)
THEOREM AcquisitionNoDowngrade == Spec => NoDowngrade
<1>1. IInv /\ [Next]_vars =>
        [\A u \in Stored : docs[u].payload \in Graphs => docs'[u].payload \in Graphs]_vars
  <2> SUFFICES ASSUME IInv, Next, NEW u \in Stored, docs[u].payload \in Graphs
               PROVE  docs'[u].payload \in Graphs
    OBVIOUS
  <2>1. CASE docs' = docs
    BY <2>1
  <2>2. ASSUME NEW c \in Callers, Upsert(c)
        PROVE  docs'[u].payload \in Graphs
    <3> DEFINE doc == carried[c]
               v == doc.profile.urn
    <3>1. Made(doc, now) /\ now \in Nat
      BY <2>2, AcquisitionAssumption DEF Upsert, IInv, CallInv
    <3>2. docs' = [docs EXCEPT ![v] = doc] /\ docs = [w \in Urns |-> docs[w]] /\ u \in Urns
      BY <2>2 DEF Upsert, IInv, DocsInv, Stored
    <3>3. CASE v # u
      BY <3>2, <3>3
    <3>4. CASE v = u
      <4>1. u # MemberUrn(Asked)
        <5>1. Made(docs[u], now) /\ docs[u].profile.urn = u
          BY StoredFacts
        <5>2. docs[u].payload \notin Pages
          BY AcquisitionAssumption
        <5> QED
          BY <3>1, <5>1, <5>2, MadeFacts
      <4>2. doc.payload \in Graphs
        BY <3>1, <3>4, <4>1, MadeFacts
      <4> QED
        BY <3>2, <3>4, <4>2
    <3> QED
      BY <3>3, <3>4
  <2>3. ASSUME NEW c \in Callers, Step(c), ~Upsert(c)
        PROVE  docs' = docs
    BY <2>3 DEF Step, Begin, LookupHit, LookupMiss, Direct, Warmed, Search, Login,
                Upload, Fail, Leave, GoOn, Take
  <2>4. CASE Tick
    BY <2>1, <2>4 DEF Tick
  <2> QED
    BY <2>1, <2>2, <2>3, <2>4 DEF Next
<1> QED
  BY AcquisitionInvariant, <1>1, PTL DEF Spec, NoDowngrade

(* A fetch that a young document of the person would have made needless,   *)
(* had it been found, takes an older one under her url, made of a payload  *)
(* that calls her by another urn (profiles.py:28, public.py:243,           *)
(* profile.py:160).                                                        *)
THEOREM AcquisitionNeedlessFetchNeedsTwin == Spec => NeedlessFetchNeedsTwin
<1>1. ASSUME IInv, NEW u \in Stored, docs[u].profile.slug = Asked
      PROVE  u \in Called(docs[u].payload)
  <2>1. docs[u].payload \in Pages \cup Graphs
    <3>1. Made(docs[u], now) /\ now \in Nat
      BY <1>1, StoredFacts
    <3> QED
      BY <3>1, MadeFacts
  <2>2. CASE docs[u].payload \in Pages
    BY <1>1, <2>2, StoredPage DEF Called
  <2>3. CASE docs[u].payload \in Graphs
    <3>1. PICK o \in Profiles(docs[u].payload) : u = EntityUrn(o) /\ o.slug = Asked
      BY <1>1, <2>3, StoredGraph, IdentityAssumption
    <3>2. docs[u].payload \notin Pages
      BY <2>3, AcquisitionAssumption
    <3> QED
      BY <3>1, <3>2 DEF Called
  <2> QED
    BY <2>1, <2>2, <2>3
<1>2. IInv /\ [Next]_vars =>
        [\A c \in Callers, u \in Stored :
           LookupMiss(c) /\ Young(docs[u]) /\ docs[u].profile.who = Person
           /\ HasSlug(docs[u].payload)
             => \E w \in Found : /\ ~Young(docs[w])
                                 /\ \E name \in Called(docs[u].payload),
                                       other \in Called(docs[w].payload) : name # other]_vars
  <2> SUFFICES ASSUME IInv, NEW c \in Callers, LookupMiss(c),
                      NEW u \in Stored, Young(docs[u]), docs[u].profile.who = Person,
                      HasSlug(docs[u].payload)
               PROVE  \E w \in Found : /\ ~Young(docs[w])
                                       /\ \E name \in Called(docs[u].payload),
                                             other \in Called(docs[w].payload) : name # other
    OBVIOUS
  <2>1. docs[u].profile.slug = Asked
    <3>1. CASE docs[u].payload \in Pages
      BY <3>1, StoredPage
    <3>2. CASE docs[u].payload \notin Pages
      <4>1. docs[u].payload \in Graphs
        <5>1. Made(docs[u], now) /\ now \in Nat
          BY StoredFacts
        <5> QED
          BY <3>2, <5>1, MadeFacts
      <4> QED
        BY <3>2, <4>1, StoredGraph DEF HasSlug
    <3> QED
      BY <3>1, <3>2
  <2>2. u \in Found
    BY <2>1 DEF Found, Stored
  <2>3. PICK w \in Found : ~Young(docs[w])
    BY <2>2 DEF LookupMiss
  <2>4. u # w
    BY <2>3
  <2>5. w \in Stored /\ docs[w].profile.slug = Asked
    BY DEF Found, Stored
  <2>6. u \in Called(docs[u].payload) /\ w \in Called(docs[w].payload)
    BY <1>1, <2>1, <2>5
  <2> QED
    BY <2>3, <2>4, <2>6
<1> QED
  BY AcquisitionInvariant, <1>2, PTL DEF Spec, NeedlessFetchNeedsTwin
=============================================================================
