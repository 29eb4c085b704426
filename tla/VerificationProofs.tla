-------------------------- MODULE VerificationProofs --------------------------
(***************************************************************************)
(* What a verdict can mean, for every profile, company, similarity and     *)
(* answer of the LLM. The answer is computed in one step and then kept, so *)
(* the inductive part says what it was computed from: the result is the    *)
(* verdict of the rules' sum plus an adjustment in -30..30, 0 when nobody  *)
(* was asked; what was found out is what the resolver and the matcher make *)
(* of the query and the profile. The rest is arithmetic on the weights,    *)
(* and what the resolver's best candidate and the best match can be.       *)
(***************************************************************************)
EXTENDS Verification, FiniteSetTheorems, TLAPS

(* The weights that do not look at the company.                            *)
BaseTotal(p, res, ms) ==
    currentRoleExactUrn(ms) + currentRoleFuzzyName(ms)
  + parentSubsidiary(ms) + endedRecent(ms) + endedOld(ms)
  + noMatch(ms) + profileFreshness(p) + multipleCurrentRoles(p)
  + contractorOrAdvisor(ms) + ambiguousResolution(res)
  + timelineOverlap(p) + impossibleDates(p) + insufficientData(p)

(* The rules' confidence is within 5 of the clamped base.                  *)
RulesInv ==
  step \in {"asking", "recording", "answered"} =>
    /\ "method" \in DOMAIN resolution
    /\ \E d \in -5..5 :
         rules = Clamp(BaseTotal(profile, resolution, matches) + d, 0, 100)

ResultInv ==
  result # NoResult =>
    /\ result.verdict = VerdictOf(result.confidence)
    /\ \E a \in -30..30 :
         /\ ~asked => a = 0
         /\ result.confidence = Confidence(profile, resolution, matches, a)

Resolved == resolveCompanyFromProfile(query, profile.experience)

(* Only the aliases of the resolved company may have been added to.        *)
WithAliases(res, aliases) ==
  [method |-> res.method,
   company |-> [urn |-> res.company.urn, name |-> res.company.name,
                normalized |-> res.company.normalized, aliases |-> aliases,
                parent |-> res.company.parent],
   was_aliased |-> res.was_aliased]

(* What has been found out follows from the query and the profile, and the *)
(* LLM is asked only when the match is not strong.                         *)
FoundInv ==
  \/ /\ step \in {"idle", "fetching", "failed"}
     /\ resolution = NoResolution
     /\ result = NoResult
  \/ /\ step \in {"asking", "recording", "answered", "failed"}
     /\ profile \in Profiles
     /\ matches = matchRoles(profile.experience, Resolved.company)
     /\ \E aliases : resolution = WithAliases(Resolved, aliases)
     /\ ~asked \/ Resolved.company = NoCompany => resolution = Resolved
     /\ asked \/ step = "asking" => ~Strong(matches)

StepInv ==
  /\ step \in Steps
  /\ step # "idle" => query \in Queries
  /\ asked \in BOOLEAN
  /\ step \in {"idle", "fetching", "asking"} => result = NoResult
  /\ step \in {"idle", "fetching", "asking"} => ~asked
  /\ step \in {"recording", "answered"} => result # NoResult

IInv == StepInv /\ RulesInv /\ ResultInv /\ FoundInv

-----------------------------------------------------------------------------
(* Numbers and names *)

(* A set of numbers has a least one: induction, in the only form that the  *)
(* provers can instantiate.                                                *)
LEMMA LeastOf ==
  ASSUME NEW S \in SUBSET Nat, S # {}
  PROVE  /\ Min(S) \in S
         /\ \A y \in S : Min(S) <= y
<1>1. PICK x \in S : \A y \in S : <<y, x>> \notin OpToRel(<, Nat)
  BY WFMin, NatLessThanWellFounded, Zenon
<1>2. \A y \in S : ~(y < x)
  BY <1>1, Zenon DEF OpToRel
<1>3. x \in S /\ \A y \in S : x <= y
  BY <1>2
<1> QED
  BY <1>3, Zenon DEF Min

(* Max is the greatest of a set of numbers up to n.                        *)
LEMMA GreatestOf ==
  ASSUME NEW n \in Nat, NEW S \in SUBSET (0..n), S # {}
  PROVE  /\ Max(S) \in S
         /\ Max(S) \in Nat
         /\ \A y \in S : y <= Max(S)
<1> DEFINE gaps == {n - s : s \in S}
<1>1. gaps \in SUBSET Nat /\ gaps # {}
  <2>1. \A s \in S : n - s \in Nat
    OBVIOUS
  <2> QED
    BY <2>1
<1>2. Min(gaps) \in gaps /\ \A g \in gaps : Min(gaps) <= g
  BY <1>1, LeastOf
<1>3. PICK x \in S : Min(gaps) = n - x
  BY <1>2
<1>4. ASSUME NEW y \in S PROVE x >= y
  <2>1. n - y \in gaps
    OBVIOUS
  <2>2. n - x <= n - y
    BY <2>1, <1>2, <1>3
  <2> QED
    BY <2>2
<1>5. Max(S) \in S /\ \A y \in S : Max(S) >= y
  BY <1>4, Zenon DEF Max
<1>6. \A y \in S : y \in Nat
  OBVIOUS
<1> HIDE DEF gaps
<1> QED
  BY <1>5, <1>6

(* The elements of a sequence are finitely many.                           *)
LEMMA SeqFinite ==
  ASSUME NEW s, NEW n \in Nat, DOMAIN s = 1..n
  PROVE  IsFiniteSet(ToSet(s))
<1>1. IsFiniteSet(1..n)
  BY FS_Interval
<1> DEFINE f == [i \in 1..n |-> s[i]]
<1>2. f \in Surjection(1..n, ToSet(s))
  BY DEF Surjection, ToSet
<1> QED
  BY <1>1, <1>2, FS_Surjection

(* A part of a whole is between nothing and One,                           *)
LEMMA Ratio ==
  ASSUME NEW c \in Nat, NEW u \in Nat, u > 0, c <= u
  PROVE  (One * c) \div u \in 0..One
BY DEF One

(* and the whole is One.                                                   *)
LEMMA FullRatio ==
  ASSUME NEW u \in Nat, u > 0
  PROVE  (One * u) \div u = One
BY DEF One

(* A name has finitely many words,                                         *)
LEMMA ToSetFinite ==
  ASSUME NEW name \in Seq(Words)
  PROVE  IsFiniteSet(ToSet(name))
BY SeqFinite

(* also after legal suffixes have been taken off,                          *)
LEMMA StrippedSeq ==
  ASSUME NEW name \in Seq(Words)
  PROVE  Stripped(name) \in Seq(Words)
<1> DEFINE ns == {n \in DOMAIN name : CutAfter(n, name)} \cup {Len(name)}
<1>1. ns \in SUBSET Nat /\ ns # {} /\ \A n \in ns : n <= Len(name)
  OBVIOUS
<1>2. Min(ns) \in Nat /\ Min(ns) <= Len(name)
  BY <1>1, LeastOf
<1> HIDE DEF ns
<1>3. SubSeq(name, 1, Min(ns)) \in Seq(Words)
  BY <1>2
<1> QED
  BY <1>3 DEF Stripped, ns

(* Whatever is kept of a sequence is a sequence.                           *)
LEMMA KeptDomain ==
  ASSUME NEW s, NEW n \in Nat, NEW K \in SUBSET (1..n)
  PROVE  /\ Cardinality(K) \in Nat
         /\ DOMAIN Kept(s, K) = 1..Cardinality(K)
<1>1. IsFiniteSet(1..n)
  BY FS_Interval
<1>2. IsFiniteSet(K)
  BY <1>1, FS_Subset
<1> QED
  BY <1>2, FS_CardinalityType DEF Kept

(* and after normalization.                                                *)
LEMMA NormalizedFinite ==
  ASSUME NEW name \in Seq(Words)
  PROVE  /\ IsFiniteSet(ToSet(Normalized(name)))
         /\ Normalized(name) # <<>> => ToSet(Normalized(name)) # {}
<1>1. PICK n \in Nat : DOMAIN Plain(name) = 1..n
  <2> DEFINE s == Stripped(name)
             K == {i \in DOMAIN s : s[i] \in Latin}
  <2>1. s \in Seq(Words)
    BY StrippedSeq
  <2>2. Len(s) \in Nat /\ DOMAIN s = 1..Len(s)
    BY <2>1
  <2>3. K \in SUBSET (1..Len(s))
    BY <2>2
  <2>4. Plain(name) = Kept(s, K)
    BY DEF Plain
  <2> HIDE DEF s, K
  <2> QED
    BY <2>2, <2>3, <2>4, KeptDomain
<1>2. CASE WasAliased(name)
  <2>1. Normalized(name) \in Seq(Words)
    BY <1>2, NamesAssumption DEF WasAliased, Normalized
  <2> QED
    BY <2>1, ToSetFinite DEF ToSet
<1>3. CASE ~WasAliased(name)
  <2>1. Normalized(name) = Plain(name)
    BY <1>3 DEF Normalized
  <2>2. n = 0 => Plain(name) = <<>>
    BY <1>1 DEF Plain, Kept
  <2>3. n # 0 => ToSet(Plain(name)) # {}
    <3>1. n # 0 => 1 \in DOMAIN Plain(name)
      BY <1>1
    <3> QED
      BY <3>1 DEF ToSet
  <2> QED
    BY <1>1, <2>1, <2>2, <2>3, SeqFinite
<1> QED
  BY <1>2, <1>3

(* The similarity of two names is between nothing and One.                 *)
LEMMA RatioType ==
  ASSUME NEW a, NEW b, IsFiniteSet(ToSet(a)), IsFiniteSet(ToSet(b))
  PROVE  /\ TokenSetRatio(a, b) \in 0..One
         /\ ToSet(a) # {} => TokenSetRatio(a, a) = One
<1> DEFINE ta == ToSet(a)
           tb == ToSet(b)
<1> HIDE DEF ta, tb
<1>1. IsFiniteSet(ta) /\ IsFiniteSet(tb)
  BY DEF ta, tb
<1>2. /\ IsFiniteSet(ta \cup tb)
      /\ ta \cap tb \in SUBSET (ta \cup tb)
  BY <1>1, FS_Union
<1>3. /\ Cardinality(ta \cap tb) \in Nat /\ Cardinality(ta \cup tb) \in Nat
      /\ Cardinality(ta \cap tb) <= Cardinality(ta \cup tb)
  BY <1>2, FS_Subset, FS_CardinalityType
<1>4. ta # {} => Cardinality(ta \cup tb) > 0 /\ Cardinality(ta) > 0
  <2>1. Cardinality(ta) \in Nat
    BY <1>1, FS_CardinalityType
  <2>2. ta # {} => Cardinality(ta \cup tb) # 0 /\ Cardinality(ta) # 0
    BY <1>1, <1>2, FS_EmptySet
  <2> QED
    BY <1>3, <2>1, <2>2
<1>5. ta # {} => (One * Cardinality(ta \cap tb)) \div Cardinality(ta \cup tb) \in 0..One
  BY <1>3, <1>4, Ratio
<1>6. TokenSetRatio(a, b) \in 0..One
  <2>1. TokenSetRatio(a, b) =
          IF ta = {} \/ tb = {} THEN 0
          ELSE (One * Cardinality(ta \cap tb)) \div Cardinality(ta \cup tb)
    BY DEF TokenSetRatio, ta, tb
  <2>2. 0 \in 0..One
    BY DEF One
  <2> QED
    BY <1>5, <2>1, <2>2
<1>7. ta # {} => (One * Cardinality(ta)) \div Cardinality(ta) = One
  BY <1>1, <1>4, FullRatio, FS_CardinalityType
<1>8. ta # {} => TokenSetRatio(a, a) = One
  <2>1. ta \cap ta = ta /\ ta \cup ta = ta
    OBVIOUS
  <2>2. TokenSetRatio(a, a) = IF ta = {} \/ ta = {} THEN 0 
           ELSE (One * Cardinality(ta \cap ta)) \div Cardinality(ta \cup ta)
    BY DEF TokenSetRatio, ta
  <2> QED
    BY <2>1, <2>2, <1>7
<1> QED
  BY <1>6, <1>8 DEF ta

-----------------------------------------------------------------------------
(* Companies *)

(* So is the score of a candidate.                                         *)
LEMMA CandidateScoreType ==
  ASSUME NEW q \in Seq(Words), NEW role, role.name \in Seq(Words)
  PROVE  CandidateScore(Normalized(q), CompanyOf(role)) \in 0..One
<1> DEFINE qn == Normalized(q)
           c == CompanyOf(role)
           scores == {TokenSetRatio(qn, c.normalized)} \cup
                     {TokenSetRatio(qn, a) : a \in c.aliases}
<1>1. IsFiniteSet(ToSet(qn)) /\ IsFiniteSet(ToSet(c.normalized))
  BY NormalizedFinite DEF CompanyOf
<1>2. \A a \in c.aliases : IsFiniteSet(ToSet(a))
  BY ToSetFinite DEF CompanyOf
<1> HIDE DEF qn, c
<1>3. scores \in SUBSET (0..One) /\ scores # {}
  BY <1>1, <1>2, RatioType
<1>4. CandidateScore(qn, c) = Max(scores)
  BY DEF CandidateScore
<1> HIDE DEF scores
<1>5. One \in Nat
  BY DEF One
<1>6. Max(scores) \in scores
  BY <1>3, <1>5, GreatestOf
<1> QED
  BY <1>3, <1>4, <1>6 DEF qn, c

(* Of numbers indexed by numbers there is a first among the greatest.      *)
LEMMA FirstGreatest ==
  ASSUME NEW S \in SUBSET Nat, S # {}, NEW n \in Nat, NEW f \in [S -> 0..n]
  PROVE  \E i \in S : /\ \A j \in S : f[j] <= f[i]
                      /\ \A j \in S : j < i => f[j] < f[i]
<1> DEFINE values == {f[j] : j \in S}
<1>1. values \in SUBSET (0..n) /\ values # {}
  OBVIOUS
<1>2. PICK m \in S : \A j \in S : f[j] <= f[m]
  <2>1. Max(values) \in values /\ \A v \in values : v <= Max(values)
    BY <1>1, GreatestOf
  <2> QED
    BY <2>1
<1> DEFINE tops == {j \in S : f[j] = f[m]}
<1>3. tops \in SUBSET Nat /\ tops # {}
  OBVIOUS
<1>4. PICK i \in tops : \A j \in tops : i <= j
  BY <1>3, LeastOf
<1>5. ASSUME NEW j \in S PROVE f[j] <= f[i] /\ (j < i => f[j] < f[i])
  <2>1. j \in Nat /\ i \in Nat /\ f[j] \in Nat /\ f[m] \in Nat /\ f[i] = f[m]
    BY <1>4
  <2>2. f[j] = f[m] => j \in tops
    OBVIOUS
  <2>3. f[j] = f[m] => i <= j
    BY <1>4, <2>2
  <2> HIDE DEF tops
  <2>4. f[j] <= f[m]
    BY <1>2
  <2> QED
    BY <2>1, <2>3, <2>4
<1> QED
  BY <1>4, <1>5

(* The resolved company is one of a role, or none.                         *)
LEMMA ResolvedFrom ==
  ASSUME NEW q \in Seq(Words), NEW e, NEW n \in Nat, DOMAIN e = 1..n,
         \A i \in DOMAIN e : e[i].name \in Seq(Words)
  PROVE  /\ resolveCompanyFromProfile(q, e).method
              \in {"exact", "alias", "not_found", "fuzzy_dominant", "ambiguous"}
         /\ resolveCompanyFromProfile(q, e)
              = WithAliases(resolveCompanyFromProfile(q, e),
                            resolveCompanyFromProfile(q, e).company.aliases)
         /\ \/ resolveCompanyFromProfile(q, e).company = NoCompany
            \/ \E i \in DOMAIN e :
                 resolveCompanyFromProfile(q, e).company = CompanyOf(e[i])
<1> DEFINE cands == Candidates(e)
           S == {i \in DOMAIN e : IsFirst(i, e)}
           exact == {i \in DOMAIN cands : cands[i].normalized = Normalized(q)}
           Good(r) == /\ r.method \in {"exact", "alias", "not_found",
                                        "fuzzy_dominant", "ambiguous"}
                      /\ r = WithAliases(r, r.company.aliases)
                      /\ \/ r.company = NoCompany
                         \/ \E i \in DOMAIN e : r.company = CompanyOf(e[i])
<1>1. DOMAIN cands = S /\ \A i \in S : cands[i] = CompanyOf(e[i])
  BY DEF Candidates
<1>2. S \in SUBSET Nat /\ S \subseteq DOMAIN e
  OBVIOUS
<1> HIDE DEF cands, S
<1>3. \A m \in {"exact", "alias", "not_found", "fuzzy_dominant", "ambiguous"} :
        /\ Good(Resolution(m, NoCompany, q))
        /\ \A i \in S : Good(Resolution(m, cands[i], q))
  <2>1. ASSUME NEW m \in {"exact", "alias", "not_found", "fuzzy_dominant", "ambiguous"}
        PROVE  Good(Resolution(m, NoCompany, q))
    BY DEF Resolution, WithAliases, NoCompany
  <2>2. ASSUME NEW m \in {"exact", "alias", "not_found", "fuzzy_dominant", "ambiguous"},
               NEW i \in S
        PROVE  Good(Resolution(m, CompanyOf(e[i]), q))
    BY <1>2 DEF Resolution, WithAliases, CompanyOf
  <2> QED
    BY <2>1, <2>2, <1>1
<1> HIDE DEF Good
<1>4. CASE DOMAIN cands = {}
  BY <1>3, <1>4 DEF resolveCompanyFromProfile, cands, Good
<1>5. CASE exact # {}
  <2>1. Min(exact) \in S
    BY <1>1, <1>2, <1>5, LeastOf
  <2> QED
    BY <1>3, <1>5, <2>1 DEF resolveCompanyFromProfile, cands, Good
<1>6. CASE DOMAIN cands # {} /\ exact = {}
  <2> DEFINE score(i) == CandidateScore(Normalized(q), cands[i])
             Top(i) == /\ \A j \in DOMAIN cands : score(j) <= score(i)
                       /\ \A j \in DOMAIN cands : j < i => score(j) < score(i)
             top == CHOOSE i \in DOMAIN cands : Top(i)
             f == [i \in S |-> score(i)]
  <2>1. f \in [S -> 0..One] /\ One \in Nat
    <3>1. \A i \in S : score(i) \in 0..One
      BY <1>1, <1>2, CandidateScoreType
    <3>2. One \in Nat
      BY DEF One
    <3> HIDE DEF score
    <3> QED
      BY <3>1, <3>2
  <2>2. \E i \in S : /\ \A j \in S : f[j] <= f[i]
                     /\ \A j \in S : j < i => f[j] < f[i]
    BY <1>1, <1>2, <1>6, <2>1, FirstGreatest
  <2>3. \E i \in DOMAIN cands : Top(i)
    BY <1>1, <2>2
  <2>4. top \in S
    BY <1>1, <2>3
  <2>5. ResolveFuzzy(q, cands) \in {Resolution("not_found", NoCompany, q),
                                    Resolution("fuzzy_dominant", cands[top], q),
                                    Resolution("ambiguous", cands[top], q)}
    BY DEF ResolveFuzzy
  <2>6. Good(ResolveFuzzy(q, cands))
    BY <1>3, <2>4, <2>5
  <2>7. resolveCompanyFromProfile(q, e) = ResolveFuzzy(q, cands)
    BY <1>6 DEF resolveCompanyFromProfile, cands
  <2> QED
    BY <2>6, <2>7 DEF Good
<1> QED
  BY <1>4, <1>5, <1>6

-----------------------------------------------------------------------------
(* Every weight is one of its few values.                                  *)
LEMMA Weights ==
  ASSUME NEW p, NEW res, NEW ms
  PROVE  /\ currentRoleExactUrn(ms) \in {0, 65}
         /\ currentRoleFuzzyName(ms) \in {0, 25}
         /\ parentSubsidiary(ms) \in {0, 15}
         /\ endedRecent(ms) \in {0, 5}
         /\ endedOld(ms) \in {0, -10}
         /\ noMatch(ms) \in {0, -50}
         /\ profileFreshness(p) \in {10, 0, -10}
         /\ multipleCurrentRoles(p) \in {0, -10}
         /\ contractorOrAdvisor(ms) \in {0, -5}
         /\ ambiguousResolution(res) \in {0, -10}
         /\ timelineOverlap(p) \in {0, -5}
         /\ impossibleDates(p) \in {0, -10}
         /\ insufficientData(p) \in {0, -15, -20}
         /\ headlineMentionsCompany(p, res.company) \in {0, 5}
         /\ headlineExperienceConflict(p, res.company, ms) \in {0, -5}
<1>1. \A g, w : Weight(g, w) \in {0, w}
  BY DEF Weight
<1>2. profileFreshness(p) \in {10, 0, -10}
  BY DEF profileFreshness
<1>3. /\ currentRoleExactUrn(ms) \in {0, 65}
      /\ currentRoleFuzzyName(ms) \in {0, 25}
      /\ parentSubsidiary(ms) \in {0, 15}
      /\ endedRecent(ms) \in {0, 5}
      /\ endedOld(ms) \in {0, -10}
      /\ noMatch(ms) \in {0, -50}
  BY <1>1 DEF currentRoleExactUrn, currentRoleFuzzyName, parentSubsidiary,
              endedRecent, endedOld, noMatch
<1>4. /\ multipleCurrentRoles(p) \in {0, -10}
      /\ contractorOrAdvisor(ms) \in {0, -5}
      /\ ambiguousResolution(res) \in {0, -10}
      /\ timelineOverlap(p) \in {0, -5}
      /\ impossibleDates(p) \in {0, -10}
      /\ insufficientData(p) \in {0, -15, -20}
  BY <1>1 DEF multipleCurrentRoles, contractorOrAdvisor, ambiguousResolution,
              timelineOverlap, impossibleDates, insufficientData
<1>5. /\ headlineMentionsCompany(p, res.company) \in {0, 5}
      /\ headlineExperienceConflict(p, res.company, ms) \in {0, -5}
  BY <1>1 DEF headlineMentionsCompany, headlineExperienceConflict
<1> QED
  BY <1>2, <1>3, <1>4, <1>5

(* Every rule gives an integer.                                            *)
LEMMA WeightsInt ==
  ASSUME NEW p, NEW res, NEW ms
  PROVE  /\ currentRoleExactUrn(ms) \in Int /\ currentRoleFuzzyName(ms) \in Int
         /\ parentSubsidiary(ms) \in Int /\ endedRecent(ms) \in Int
         /\ endedOld(ms) \in Int /\ noMatch(ms) \in Int
         /\ profileFreshness(p) \in Int /\ multipleCurrentRoles(p) \in Int
         /\ contractorOrAdvisor(ms) \in Int /\ ambiguousResolution(res) \in Int
         /\ timelineOverlap(p) \in Int /\ impossibleDates(p) \in Int
         /\ insufficientData(p) \in Int
         /\ headlineMentionsCompany(p, res.company) \in Int
         /\ headlineExperienceConflict(p, res.company, ms) \in Int
<1>1. /\ currentRoleExactUrn(ms) \in Int /\ currentRoleFuzzyName(ms) \in Int
      /\ parentSubsidiary(ms) \in Int /\ endedRecent(ms) \in Int
      /\ endedOld(ms) \in Int /\ noMatch(ms) \in Int
  BY DEF Weight, currentRoleExactUrn, currentRoleFuzzyName, parentSubsidiary,
         endedRecent, endedOld, noMatch
<1>2. /\ multipleCurrentRoles(p) \in Int /\ contractorOrAdvisor(ms) \in Int
      /\ ambiguousResolution(res) \in Int /\ timelineOverlap(p) \in Int
      /\ impossibleDates(p) \in Int /\ insufficientData(p) \in Int
  BY DEF Weight, multipleCurrentRoles, contractorOrAdvisor, ambiguousResolution,
         timelineOverlap, impossibleDates, insufficientData
<1>3. /\ headlineMentionsCompany(p, res.company) \in Int
      /\ headlineExperienceConflict(p, res.company, ms) \in Int
      /\ profileFreshness(p) \in Int
  BY DEF Weight, headlineMentionsCompany, headlineExperienceConflict,
         profileFreshness
<1> QED
  BY <1>1, <1>2, <1>3

(* So does their sum.                                                      *)
LEMMA Totals ==
  ASSUME NEW p, NEW res, NEW ms
  PROVE  /\ BaseTotal(p, res, ms) \in Int
         /\ RulesTotal(p, res, ms) \in Int
         /\ \E d \in -5..5 : RulesTotal(p, res, ms) = BaseTotal(p, res, ms) + d
<1>1. headlineMentionsCompany(p, res.company)
        + headlineExperienceConflict(p, res.company, ms) \in -5..5
  BY Weights
<1>2. /\ currentRoleExactUrn(ms) \in Int /\ currentRoleFuzzyName(ms) \in Int
      /\ parentSubsidiary(ms) \in Int /\ endedRecent(ms) \in Int
      /\ endedOld(ms) \in Int /\ noMatch(ms) \in Int
      /\ profileFreshness(p) \in Int /\ multipleCurrentRoles(p) \in Int
      /\ contractorOrAdvisor(ms) \in Int /\ ambiguousResolution(res) \in Int
      /\ timelineOverlap(p) \in Int /\ impossibleDates(p) \in Int
      /\ insufficientData(p) \in Int
      /\ headlineMentionsCompany(p, res.company) \in Int
      /\ headlineExperienceConflict(p, res.company, ms) \in Int
  BY WeightsInt
<1>3. BaseTotal(p, res, ms) \in Int
  BY <1>2 DEF BaseTotal
<1>4. RulesTotal(p, res, ms) =
        BaseTotal(p, res, ms) + (headlineMentionsCompany(p, res.company)
          + headlineExperienceConflict(p, res.company, ms))
  BY <1>2 DEF BaseTotal, RulesTotal
<1> QED
  BY <1>1, <1>3, <1>4

(* The enrichment changes aliases, which the base does not look at.        *)
LEMMA EnrichedBase ==
  ASSUME NEW p, NEW res, NEW ms, NEW aliases, "method" \in DOMAIN res
  PROVE  /\ "method" \in DOMAIN Enriched(res, aliases)
         /\ BaseTotal(p, Enriched(res, aliases), ms) = BaseTotal(p, res, ms)
<1>1. /\ "method" \in DOMAIN Enriched(res, aliases)
      /\ Enriched(res, aliases).method = res.method
  BY DEF Enriched
<1>2. ambiguousResolution(Enriched(res, aliases)) = ambiguousResolution(res)
  BY <1>1 DEF ambiguousResolution
<1> QED
  BY <1>1, <1>2 DEF BaseTotal

(* The LLM only adds to the aliases of the company.                        *)
LEMMA EnrichedAliases ==
  ASSUME NEW res, NEW before, NEW aliases
  PROVE  \E after :
           Enriched(WithAliases(res, before), aliases) = WithAliases(res, after)
<1>1. CASE WithAliases(res, before).company = NoCompany
  BY <1>1 DEF Enriched
<1>2. CASE WithAliases(res, before).company # NoCompany
  BY <1>2 DEF Enriched, WithAliases
<1> QED
  BY <1>1, <1>2

(* The resolver always names its method.                                   *)
LEMMA ResolutionShape ==
  ASSUME NEW q, NEW e
  PROVE  "method" \in DOMAIN resolveCompanyFromProfile(q, e)
<1>1. \A m, c : "method" \in DOMAIN Resolution(m, c, q)
  BY DEF Resolution
<1>2. \A cands : "method" \in DOMAIN ResolveFuzzy(q, cands)
  BY <1>1 DEF ResolveFuzzy
<1> QED
  BY <1>1, <1>2 DEF resolveCompanyFromProfile

-----------------------------------------------------------------------------
(* The invariant holds at the start.                                       *)
LEMMA InitIInv == Init => IInv
BY DEF Init, IInv, StepInv, RulesInv, ResultInv, FoundInv, Steps

(* Any Result is the verdict of its confidence.                            *)
LEMMA ResultOf ==
  ASSUME NEW p, NEW res, NEW ms, NEW a, NEW issues
  PROVE  /\ Result(p, res, ms, a, issues) # NoResult
         /\ Result(p, res, ms, a, issues).confidence = Confidence(p, res, ms, a)
         /\ Result(p, res, ms, a, issues).verdict
              = VerdictOf(Result(p, res, ms, a, issues).confidence)
BY DEF Result, NoResult, VerdictOf

(* A profile has a sequence of roles, and data of some age.                *)
LEMMA ProfileShape ==
  ASSUME NEW p \in Profiles
  PROVE  /\ Len(p.experience) \in Nat
         /\ DOMAIN p.experience = 1..Len(p.experience)
         /\ \A i \in DOMAIN p.experience : p.experience[i].name \in Seq(Words)
BY VerificationAssumption

(* Normalizing, resolving and matching keep it,                            *)
LEMMA FetchedIInv ==
  ASSUME IInv, NEW p \in Profiles, Fetched(p)
  PROVE  IInv'
<1> DEFINE res == resolveCompanyFromProfile(query, p.experience)
           ms == matchRoles(p.experience, res.company)
<1> HIDE DEF res, ms
<1>1. CASE Throws(p.experience, res.company)
  <2>1. /\ step = "fetching" /\ step' = "failed" /\ result = NoResult
        /\ UNCHANGED <<query, asked, result, resolution>>
    BY <1>1 DEF Fetched, IInv, StepInv, res
  <2> QED
    BY <2>1 DEF IInv, StepInv, RulesInv, ResultInv, FoundInv, Steps
<1>2. CASE ~Throws(p.experience, res.company)
  <2>1. /\ profile' = p /\ resolution' = res /\ matches' = ms
        /\ rules' = Confidence(p, res, ms, 0)
        /\ asked' = asked /\ ~asked /\ result = NoResult
        /\ query' = query /\ query \in Queries
        /\ \/ step' = "recording" /\ result' = Result(p, res, ms, 0, {})
           \/ step' = "asking" /\ result' = result /\ ~Strong(ms)
    BY <1>2 DEF Fetched, IInv, StepInv, res, ms
  <2>2. PICK d \in -5..5 : RulesTotal(p, res, ms) = BaseTotal(p, res, ms) + d
    BY Totals
  <2>3. rules' = Clamp(BaseTotal(p, res, ms) + d, 0, 100)
    BY <2>1, <2>2, Totals DEF Confidence
  <2>4. "method" \in DOMAIN res
    BY ResolutionShape DEF res
  <2>8. res = WithAliases(res, res.company.aliases)
    BY <2>1, ProfileShape, ResolvedFrom, VerificationAssumption DEF res
  <2>9. Resolved' = res
    BY <2>1 DEF Resolved, res
  <2>10. FoundInv'
    BY <2>1, <2>8, <2>9 DEF FoundInv, ms
  <2>5. RulesInv'
    BY <2>1, <2>3, <2>4 DEF RulesInv
  <2>6. ResultInv'
    BY <2>1, ResultOf DEF ResultInv
  <2>7. StepInv'
    BY <2>1, ResultOf DEF StepInv, IInv, Steps
  <2> QED
    BY <2>5, <2>6, <2>7, <2>10 DEF IInv
<1> QED
  BY <1>1, <1>2

(* and so does a verdict, with or without the LLM.                         *)
LEMMA ConcludeIInv ==
  ASSUME IInv, NEW res, NEW a \in -30..30, NEW issues,
         "method" \in DOMAIN res,
         BaseTotal(profile, res, matches) = BaseTotal(profile, resolution, matches),
         \E aliases : res = WithAliases(Resolved, aliases),
         Resolved.company = NoCompany => res = Resolved,
         Conclude(res, a, issues)
  PROVE  IInv'
<1>1. /\ step = "asking" /\ step' = "recording" /\ asked' = TRUE /\ resolution' = res
      /\ result' = Result(profile, res, matches, a, issues)
      /\ UNCHANGED <<query, profile, matches, rules>>
  BY DEF Conclude
<1>2. RulesInv'
  BY <1>1 DEF RulesInv, IInv
<1>3. ResultInv'
  BY <1>1, ResultOf DEF ResultInv
<1>4. StepInv'
  BY <1>1, ResultOf DEF StepInv, IInv, Steps
<1>5. Resolved' = Resolved
  BY <1>1 DEF Resolved
<1>6. FoundInv'
  BY <1>1, <1>5 DEF IInv, FoundInv
<1> QED
  BY <1>2, <1>3, <1>4, <1>6 DEF IInv

(* Every step keeps the invariant.                                         *)
LEMMA StepIInv == IInv /\ [Next]_vars => IInv'
<1> SUFFICES ASSUME IInv, [Next]_vars PROVE IInv'
  OBVIOUS
<1>1. CASE UNCHANGED vars
  BY <1>1 DEF vars, IInv, StepInv, RulesInv, ResultInv, FoundInv, Resolved
<1>2. ASSUME NEW q \in Queries, Submit(q) PROVE IInv'
  BY <1>2 DEF Submit, IInv, StepInv, RulesInv, ResultInv, FoundInv, Resolved,
                   Steps
<1>3. ASSUME NEW p \in Profiles, Fetched(p) PROVE IInv'
  BY <1>3, FetchedIInv
<1>4. ASSUME NEW n \in Adjustments, NEW aliases \in LlmAliases,
             NEW issues \in SUBSET Issues, LlmAnswers(n, aliases, issues)
      PROVE  IInv'
  <2>1. Clamp(n, -30, 30) \in -30..30
    BY VerificationAssumption DEF Clamp
  <2>2. "method" \in DOMAIN resolution
    BY <1>4 DEF LlmAnswers, Conclude, IInv, RulesInv
  <2>3. PICK before : resolution = WithAliases(Resolved, before)
    BY <1>4 DEF LlmAnswers, Conclude, IInv, FoundInv
  <2>4. \E after : Enriched(resolution, aliases) = WithAliases(Resolved, after)
    BY <2>3, EnrichedAliases
  <2>5. Resolved.company = NoCompany => Enriched(resolution, aliases) = Resolved
    BY <1>4 DEF LlmAnswers, Conclude, IInv, FoundInv, Enriched
  <2> QED
    BY <1>4, <2>1, <2>2, <2>4, <2>5, EnrichedBase, ConcludeIInv DEF LlmAnswers
<1>5. CASE LlmUnavailable
  <2>1. "method" \in DOMAIN resolution
    BY <1>5 DEF LlmUnavailable, Conclude, IInv, RulesInv
  <2>2. 0 \in -30..30
    OBVIOUS
  <2>3. Conclude(resolution, 0, {"LLM unavailable"})
    BY <1>5, Zenon DEF LlmUnavailable
  <2>4. /\ \E aliases : resolution = WithAliases(Resolved, aliases)
        /\ Resolved.company = NoCompany => resolution = Resolved
    BY <1>5 DEF LlmUnavailable, Conclude, IInv, FoundInv
  <2> QED
    BY <2>1, <2>2, <2>3, <2>4, ConcludeIInv
<1>6. CASE Record
  BY <1>6 DEF Record, IInv, StepInv, RulesInv, ResultInv, FoundInv, Resolved,
                   Steps
<1>7. CASE Fail
  BY <1>7 DEF Fail, IInv, StepInv, RulesInv, ResultInv, FoundInv, Resolved,
                   Steps
<1>8. CASE Reply
  BY <1>8 DEF Reply, IInv, StepInv, RulesInv, ResultInv, FoundInv, Resolved,
                   Steps
<1> QED
  BY <1>1, <1>2, <1>3, <1>4, <1>5, <1>6, <1>7, <1>8 DEF Next

(* What is known of a verification at each of its steps                    *)
(* (verify.ts:24-141).                                                     *)
THEOREM VerificationInvariant == Spec => []IInv
BY InitIInv, StepIInv, PTL DEF Spec

(* What TypeOK says of more than the order of the steps.                   *)
Shape ==
  /\ query \in Queries \cup {NoQuery}
  /\ profile \in Profiles \cup {NoProfile}
  /\ rules \in 0..100
  /\ result.confidence \in 0..100
  /\ result.verdict \in {"yes", "no", "uncertain", "none"}
  /\ result.level \in {"low", "medium", "high", "none"}

(* A confidence is between 0 and 100.                                      *)
LEMMA ConfidenceType ==
  ASSUME NEW p, NEW res, NEW ms, NEW a \in Int
  PROVE  Confidence(p, res, ms, a) \in 0..100
BY Totals DEF Confidence, Clamp

(* A result has the verdict of its confidence.                             *)
LEMMA ResultType ==
  ASSUME NEW p, NEW res, NEW ms, NEW a \in Int, NEW issues
  PROVE  LET r == Result(p, res, ms, a, issues)
         IN  /\ r.confidence \in 0..100
             /\ r.verdict \in {"yes", "no", "uncertain", "none"}
             /\ r.level \in {"low", "medium", "high", "none"}
BY ConfidenceType DEF Result, VerdictOf, LevelOf

(* The types are kept as well.                                             *)
LEMMA StepShape == IInv /\ Shape /\ [Next]_vars => Shape'
<1> SUFFICES ASSUME IInv, Shape, [Next]_vars PROVE Shape'
  OBVIOUS
<1>1. ASSUME NEW p \in Profiles, Fetched(p) PROVE Shape'
  <2> DEFINE res == resolveCompanyFromProfile(query, p.experience)
             ms == matchRoles(p.experience, res.company)
  <2>1. /\ query' = query /\ profile' = p
        /\ rules' \in {rules, Confidence(p, res, ms, 0)}
        /\ result' \in {result, Result(p, res, ms, 0, {})}
    BY <1>1 DEF Fetched
  <2> HIDE DEF res, ms
  <2>2. /\ Confidence(p, res, ms, 0) \in 0..100
        /\ Result(p, res, ms, 0, {}).confidence \in 0..100
        /\ Result(p, res, ms, 0, {}).verdict \in {"yes", "no", "uncertain", "none"}
        /\ Result(p, res, ms, 0, {}).level \in {"low", "medium", "high", "none"}
    BY ConfidenceType, ResultType
  <2> QED
    BY <2>1, <2>2 DEF Shape
<1>2. ASSUME NEW res, NEW a \in Int, NEW issues, Conclude(res, a, issues) PROVE Shape'
  BY <1>2, ResultType DEF Conclude, Shape
<1>3. ASSUME NEW n \in Adjustments, NEW aliases \in LlmAliases,
             NEW issues \in SUBSET Issues, LlmAnswers(n, aliases, issues)
      PROVE  Shape'
  <2>1. Clamp(n, -30, 30) \in Int
    BY VerificationAssumption DEF Clamp
  <2> QED
    BY <1>2, <1>3, <2>1 DEF LlmAnswers
<1>4. CASE LlmUnavailable
  <2>1. 0 \in Int
    OBVIOUS
  <2> QED
    BY <1>2, <1>4, <2>1, Zenon DEF LlmUnavailable
<1>5. CASE \/ \E q \in Queries : Submit(q)
           \/ Record \/ Fail \/ Reply \/ UNCHANGED vars
  BY <1>5 DEF Submit, Record, Fail, Reply, vars, Shape, NoResult
<1> QED
  BY <1>1, <1>3, <1>4, <1>5 DEF Next

(* The confidence of an answer and of the rules is within 0..100, and an   *)
(* answer exists exactly while there is one to record or to return.        *)
THEOREM VerificationTypeOK == Spec => []TypeOK
<1>1. Init => Shape
  BY DEF Init, Shape, NoResult
<1>2. IInv /\ Shape => TypeOK
  BY DEF IInv, StepInv, Shape, TypeOK, Steps, Decided
<1> QED
  BY <1>1, <1>2, InitIInv, StepIInv, StepShape, PTL DEF Spec

-----------------------------------------------------------------------------
(* A yes takes 70 points, and the LLM gives 30 at most.                    *)
LEMMA YesTakes70 ==
  ASSUME IInv, result.verdict = "yes"
  PROVE  /\ RulesTotal(profile, resolution, matches) >= 40
         /\ ~asked => RulesTotal(profile, resolution, matches) >= 70
<1>1. result # NoResult
  BY DEF NoResult
<1>2. PICK a \in -30..30 :
        /\ ~asked => a = 0
        /\ result.confidence = Confidence(profile, resolution, matches, a)
  BY <1>1 DEF IInv, ResultInv
<1>3. result.confidence >= 70
  BY <1>1 DEF IInv, ResultInv, VerdictOf
<1> QED
  BY <1>2, <1>3, Totals DEF Confidence, Clamp

(* Without a current role the rules give 20 points at most.                *)
LEMMA NotCurrent ==
  ASSUME NEW p, NEW res, NEW ms, ~HasCurrent(ms)
  PROVE  RulesTotal(p, res, ms) <= 20
<1>1. /\ currentRoleExactUrn(ms) = 0
      /\ currentRoleFuzzyName(ms) = 0
      /\ parentSubsidiary(ms) = 0
  BY DEF HasCurrent, Currents, HasKind, Current, currentRoleExactUrn,
         currentRoleFuzzyName, parentSubsidiary, Weight
<1> QED
  BY <1>1, Weights DEF RulesTotal

(* Without a role of the company's urn they give 60 at most.               *)
LEMMA NotExact ==
  ASSUME NEW p, NEW res, NEW ms, ~HasKind(ms, {"current_exact_urn"})
  PROVE  RulesTotal(p, res, ms) <= 60
<1>1. currentRoleExactUrn(ms) = 0
  BY DEF currentRoleExactUrn, Weight
<1> QED
  BY <1>1, Weights DEF RulesTotal

(* Nobody is said to work at a company where no role is current.           *)
THEOREM VerificationYesNeedsCurrentRole == Spec => []YesNeedsCurrentRole
<1>1. IInv => YesNeedsCurrentRole
  <2> SUFFICES ASSUME IInv, result.verdict = "yes", ~HasCurrent(matches)
               PROVE  FALSE
    BY DEF YesNeedsCurrentRole
  <2>1. RulesTotal(profile, resolution, matches) >= 40
    BY YesTakes70
  <2>2. RulesTotal(profile, resolution, matches) <= 20
    BY NotCurrent
  <2> QED
    BY <2>1, <2>2, Totals
<1> QED
  BY <1>1, VerificationInvariant, PTL

(* The rules alone say yes only for a role with the company's urn.         *)
THEOREM VerificationRulesYesIsExact == Spec => []RulesYesIsExact
<1>1. IInv => RulesYesIsExact
  <2> SUFFICES ASSUME IInv, result.verdict = "yes", ~asked,
                      ~HasKind(matches, {"current_exact_urn"})
               PROVE  FALSE
    BY DEF RulesYesIsExact
  <2>1. RulesTotal(profile, resolution, matches) >= 70
    BY YesTakes70, Totals
  <2>2. RulesTotal(profile, resolution, matches) <= 60
    BY NotExact
  <2> QED
    BY <2>1, <2>2, Totals
<1> QED
  BY <1>1, VerificationInvariant, PTL

(* The LLM moves the confidence by 40 at most.                             *)
THEOREM VerificationLlmSwing == Spec => []LlmSwing
<1>1. IInv => LlmSwing
  <2> SUFFICES ASSUME IInv, Decided PROVE Swing <= 40
    BY DEF LlmSwing
  <2> DEFINE base == BaseTotal(profile, resolution, matches)
             total == RulesTotal(profile, resolution, matches)
  <2>1. PICK d \in -5..5 : rules = Clamp(base + d, 0, 100)
    BY DEF IInv, RulesInv, Decided
  <2>2. PICK a \in -30..30 : result.confidence = Clamp(total + a, 0, 100)
    BY DEF IInv, StepInv, ResultInv, Decided, Confidence
  <2>3. base \in Int
    BY Totals
  <2>4. PICK e \in -5..5 : total = base + e
    BY Totals
  <2> HIDE DEF base, total
  <2>5. base + d \in Int /\ total + a \in Int
        /\ total + a <= base + d + 40 /\ base + d <= total + a + 40
    BY <2>3, <2>4
  <2> QED
    BY <2>1, <2>2, <2>5 DEF Swing, Clamp
<1> QED
  BY <1>1, VerificationInvariant, PTL

-----------------------------------------------------------------------------
(* No company of a profile has a parent, so that no role is its parent's.  *)
LEMMA NoParent ==
  ASSUME NEW e, NEW company, company.parent = NoUrn
  PROVE  ~HasKind(matchRoles(e, company), {"current_parent_subsidiary"})
<1>1. ~HasKind(NoMatch, {"current_parent_subsidiary"})
  BY DEF HasKind, NoMatch, Match
<1>2. \A role : MatchOf(role, company).kind # "current_parent_subsidiary"
  BY DEF MatchOf, Match, ParentHit
<1>3. \A hits : ~HasKind([i \in hits |-> MatchOf(e[i], company)],
                        {"current_parent_subsidiary"})
  BY <1>2 DEF HasKind
<1> QED
  BY <1>1, <1>3 DEF matchRoles

(* A stale profile costs 10: without the parent's 15 the rules give 60.    *)
LEMMA StaleTotal ==
  ASSUME NEW p, NEW res, NEW ms, p.updated \in Nat, p.updated > 365,
         ~HasKind(ms, {"current_parent_subsidiary"})
  PROVE  RulesTotal(p, res, ms) <= 60
<1>1. profileFreshness(p) = -10 /\ parentSubsidiary(ms) = 0
  BY DEF profileFreshness, parentSubsidiary, Weight
<1>2. currentRoleExactUrn(ms) # 0 =>
        currentRoleFuzzyName(ms) = 0 /\ endedRecent(ms) = 0
  <2>1. HasKind(ms, {"current_exact_urn"}) => HasCurrent(ms)
    BY DEF HasKind, HasCurrent, Currents, Current
  <2> QED
    BY <2>1 DEF currentRoleExactUrn, currentRoleFuzzyName, endedRecent, Weight
<1> QED
  BY <1>1, <1>2, Weights DEF RulesTotal

(* The company that was resolved is one of the profile's, or none.         *)
LEMMA ResolvedOf ==
  ASSUME IInv, result # NoResult \/ resolution # NoResolution
  PROVE  /\ profile \in Profiles
         /\ matches = matchRoles(profile.experience, Resolved.company)
         /\ \E aliases : resolution = WithAliases(Resolved, aliases)
         /\ ~asked \/ Resolved.company = NoCompany => resolution = Resolved
         /\ Decided /\ asked => ~Strong(matches)
         /\ \/ Resolved.company = NoCompany
            \/ \E i \in DOMAIN profile.experience :
                 Resolved.company = CompanyOf(profile.experience[i])
<1>1. /\ query \in Queries /\ profile \in Profiles
      /\ matches = matchRoles(profile.experience, Resolved.company)
      /\ \E aliases : resolution = WithAliases(Resolved, aliases)
      /\ ~asked \/ Resolved.company = NoCompany => resolution = Resolved
      /\ Decided /\ asked => ~Strong(matches)
  BY DEF IInv, StepInv, FoundInv, Decided
<1>2. query \in Seq(Words)
  BY <1>1, VerificationAssumption
<1> QED
  BY <1>1, <1>2, ProfileShape, ResolvedFrom DEF Resolved

(* The rules never say yes on data that is over a year old.                *)
THEOREM VerificationStaleIsNotYes == Spec => []StaleIsNotYes
<1>1. IInv => StaleIsNotYes
  <2> SUFFICES ASSUME IInv, result.verdict = "yes", ~asked, ~(profile.updated <= 365)
               PROVE  FALSE
    BY DEF StaleIsNotYes
  <2>1. result # NoResult
    BY DEF NoResult
  <2>2. /\ profile \in Profiles
        /\ matches = matchRoles(profile.experience, Resolved.company)
        /\ Resolved.company.parent = NoUrn
    <3>1. \A role : CompanyOf(role).parent = NoUrn
      BY DEF CompanyOf
    <3>2. NoCompany.parent = NoUrn
      BY DEF NoCompany
    <3> QED
      BY <2>1, <3>1, <3>2, ResolvedOf
  <2>3. profile.updated \in Nat /\ profile.updated > 365
    BY <2>2, VerificationAssumption
  <2>4. RulesTotal(profile, resolution, matches) <= 60
    BY <2>2, <2>3, NoParent, StaleTotal
  <2>5. RulesTotal(profile, resolution, matches) >= 70
    BY YesTakes70
  <2> QED
    BY <2>4, <2>5, Totals
<1> QED
  BY <1>1, VerificationInvariant, PTL

-----------------------------------------------------------------------------
(* The role of which a company was made, when it has a urn or a name left. *)
LEMMA OwnHit ==
  ASSUME NEW role, role.name \in Seq(Words),
         role.urn # NoUrn \/ Normalized(role.name) # <<>>
  PROVE  Hit(role, CompanyOf(role))
<1> DEFINE n == Normalized(role.name)
           c == CompanyOf(role)
           ratios == {TokenSetRatio(n, m) : m \in {c.normalized, c.name} \cup c.aliases}
<1>1. CASE role.urn # NoUrn
  BY <1>1 DEF Hit, UrnHit, CompanyOf
<1>2. CASE n # <<>>
  <2>1. /\ c.normalized = n
        /\ IsFiniteSet(ToSet(n)) /\ ToSet(n) # {}
    BY <1>2, NormalizedFinite DEF CompanyOf
  <2>2. \A m \in {c.normalized, c.name} \cup c.aliases : IsFiniteSet(ToSet(m))
    BY <2>1, ToSetFinite DEF CompanyOf
  <2>3. Similarity(role, c) = Max(ratios)
    BY DEF Similarity
  <2> HIDE DEF n, c
  <2>4. ratios \subseteq 0..One /\ One \in ratios
    BY <2>1, <2>2, RatioType
  <2> HIDE DEF ratios
  <2>5. One \in Nat /\ One = 10000
    BY DEF One
  <2>6. Max(ratios) \in Nat /\ One <= Max(ratios)
    <3>1. ratios \in SUBSET (0..One) /\ ratios # {} /\ One \in Nat
      BY <2>4, <2>5
    <3>2. Max(ratios) \in Nat /\ \A y \in ratios : y <= Max(ratios)
      BY <3>1, GreatestOf
    <3> QED
      BY <2>4, <3>2
  <2> QED
    BY <2>3, <2>5, <2>6 DEF Hit, FUZZY_NAME_THRESHOLD, c
<1> QED
  BY <1>1, <1>2

(* What the resolver accepts, the matcher does not lose.                   *)
THEOREM VerificationResolvedMatches == Spec => []ResolvedMatches
<1>1. IInv => ResolvedMatches
  <2> SUFFICES ASSUME IInv, resolution.company # NoCompany,
                      \/ resolution.company.urn # NoUrn
                      \/ resolution.company.normalized # <<>>
               PROVE  ~HasKind(matches, {"no_match"})
    BY DEF ResolvedMatches
  <2> DEFINE e == profile.experience
             company == Resolved.company
  <2>1. resolution # NoResolution
    BY DEF NoResolution
  <2>2. company # NoCompany
    <3>1. Resolved.company = NoCompany => resolution = Resolved
      BY <2>1, ResolvedOf
    <3> QED
      BY <3>1
  <2>3. company.urn # NoUrn \/ company.normalized # <<>>
    <3>1. \E aliases : resolution = WithAliases(Resolved, aliases)
      BY <2>1, ResolvedOf
    <3> QED
      BY <3>1 DEF WithAliases
  <2>4. PICK i \in DOMAIN e : company = CompanyOf(e[i])
    BY <2>1, <2>2, ResolvedOf
  <2>5. e[i].name \in Seq(Words) /\ matches = matchRoles(e, company)
    BY <2>1, <2>4, ResolvedOf, ProfileShape
  <2> HIDE DEF e, company
  <2>6. Hit(e[i], company)
    BY <2>3, <2>4, <2>5, OwnHit DEF CompanyOf
  <2> DEFINE hits == {j \in DOMAIN e : Hit(e[j], company)}
  <2>7. matches = [j \in hits |-> MatchOf(e[j], company)]
    BY <2>2, <2>4, <2>5, <2>6 DEF matchRoles
  <2>8. \A role : MatchOf(role, company).kind # "no_match"
    BY DEF MatchOf, Match
  <2> QED
    BY <2>7, <2>8 DEF HasKind
<1> QED
  BY <1>1, VerificationInvariant, PTL

-----------------------------------------------------------------------------
(* One role with the name asked for: it is the only candidate, and exact.  *)
LEMMA OneExact ==
  ASSUME NEW q, NEW e, DOMAIN e = {1}, Normalized(e[1].name) = Normalized(q)
  PROVE  \E m \in {"exact", "alias"} :
           resolveCompanyFromProfile(q, e) = Resolution(m, CompanyOf(e[1]), q)
<1> DEFINE cands == Candidates(e)
           exact == {i \in DOMAIN cands : cands[i].normalized = Normalized(q)}
<1>1. {i \in DOMAIN e : IsFirst(i, e)} = {1}
  BY DEF IsFirst
<1>2. DOMAIN cands = {1} /\ cands[1] = CompanyOf(e[1])
  BY <1>1 DEF Candidates
<1> HIDE DEF cands
<1>3. exact = {1}
  BY <1>2 DEF CompanyOf
<1>4. Min(exact) = 1
  BY <1>3, LeastOf
<1> QED
  BY <1>2, <1>3, <1>4 DEF resolveCompanyFromProfile, cands

(* A role with the company's urn matches it, and is strong.                *)
LEMMA OneMatch ==
  ASSUME NEW e, DOMAIN e = {1}, e[1].current, e[1].urn # NoUrn
  PROVE  LET ms == matchRoles(e, CompanyOf(e[1]))
         IN  /\ DOMAIN ms = {1}
             /\ ms[1] = Match("current_exact_urn", e[1], One)
             /\ First(ms) = ms[1]
             /\ HasCurrent(ms)
             /\ Strong(ms)
<1> DEFINE c == CompanyOf(e[1])
           hits == {i \in DOMAIN e : Hit(e[i], c)}
           ms == matchRoles(e, c)
<1>1. UrnHit(e[1], c) /\ c # NoCompany
  BY DEF UrnHit, CompanyOf, NoCompany
<1>2. hits = {1}
  BY <1>1 DEF Hit
<1>3. ms = [i \in hits |-> MatchOf(e[i], c)]
  BY <1>1, <1>2 DEF matchRoles
<1>4. DOMAIN ms = {1} /\ ms[1] = Match("current_exact_urn", e[1], One)
  BY <1>1, <1>2, <1>3 DEF MatchOf
<1> HIDE DEF ms
<1>5. Currents(ms) = {1}
  BY <1>4 DEF Currents, Current, Match
<1>6. Min({1}) = 1
  BY LeastOf
<1>7. First(ms) = ms[1] /\ FirstCurrent(ms) = ms[1]
  BY <1>4, <1>5, <1>6 DEF First, FirstCurrent
<1>8. HasCurrent(ms) /\ Strong(ms)
  BY <1>4, <1>5, <1>7 DEF HasCurrent, Strong, STRONG_MATCH_THRESHOLD, Match, One
<1> QED
  BY <1>4, <1>7, <1>8 DEF ms

(* What a clean match is worth: 65 and 10, and 5 less at the worst.        *)
LEMMA CleanTotal ==
  ASSUME NEW p, NEW res, NEW ms, p.updated \in Nat, p.updated <= 90,
         DOMAIN p.experience = {1}, p.experience # <<>>, ~IsBlank(p.experience[1].name),
         p.experience[1].type = "full_time", ~Impossible(p.experience[1]),
         res.method \in {"exact", "alias"},
         DOMAIN ms = {1}, ms[1] = Match("current_exact_urn", p.experience[1], One),
         First(ms) = ms[1], HasCurrent(ms)
  PROVE  RulesTotal(p, res, ms) >= 70
<1>1. /\ currentRoleExactUrn(ms) = 65 /\ endedRecent(ms) = 0
      /\ endedOld(ms) = 0 /\ noMatch(ms) = 0
  BY DEF currentRoleExactUrn, endedRecent, endedOld, noMatch, HasKind, Match, Weight
<1>2. profileFreshness(p) = 10 /\ insufficientData(p) = 0 /\ ambiguousResolution(res) = 0
  BY DEF profileFreshness, insufficientData, ambiguousResolution, Weight
<1>3. contractorOrAdvisor(ms) = 0
  BY DEF contractorOrAdvisor, Match, Weight
<1>4. multipleCurrentRoles(p) = 0
  <2>1. CurrentRoles(p) \in SUBSET {1}
    BY DEF CurrentRoles
  <2>2. Cardinality(CurrentRoles(p)) <= 1 /\ Cardinality(CurrentRoles(p)) \in Nat
    <3>1. IsFiniteSet({1}) /\ Cardinality({1}) = 1
      BY FS_Singleton
    <3>2. /\ IsFiniteSet(CurrentRoles(p))
          /\ Cardinality(CurrentRoles(p)) <= Cardinality({1})
      BY <2>1, <3>1, FS_Subset
    <3> QED
      BY <3>1, <3>2, FS_CardinalityType
  <2> QED
    BY <2>2 DEF multipleCurrentRoles, Weight
<1>5. timelineOverlap(p) = 0 /\ impossibleDates(p) = 0
  BY DEF timelineOverlap, impossibleDates, Weight
<1> QED
  BY <1>1, <1>2, <1>3, <1>4, <1>5, Weights DEF RulesTotal

(* Person at company, exact match, fresh profile: yes, whatever the        *)
(* headline, and the LLM is not asked.                                     *)
THEOREM VerificationCleanMatchIsYes == Spec => []CleanMatchIsYes
<1>1. IInv => CleanMatchIsYes
  <2> SUFFICES ASSUME IInv, Decided, CleanMatch
               PROVE  result.verdict = "yes" /\ ~asked
    BY DEF CleanMatchIsYes
  <2> DEFINE e == profile.experience
             ms == matchRoles(e, CompanyOf(e[1]))
  <2>1. result # NoResult
    BY DEF IInv, StepInv, Decided
  <2>2. /\ profile \in Profiles
        /\ matches = matchRoles(e, Resolved.company)
        /\ ~asked => resolution = Resolved
        /\ asked => ~Strong(matches)
    BY <2>1, ResolvedOf
  <2>3. /\ DOMAIN e = {1} /\ e # <<>>
        /\ e[1].current /\ e[1].urn # NoUrn /\ e[1].type = "full_time"
        /\ Normalized(e[1].name) = Normalized(query)
        /\ ~Impossible(e[1]) /\ ~IsBlank(e[1].name)
        /\ profile.updated <= 90 /\ profile.updated \in Nat
    <3>1. DOMAIN e = {1}
      BY <2>2, ProfileShape DEF CleanMatch
    <3> QED
      BY <3>1, <2>2, VerificationAssumption DEF CleanMatch
  <2>4. PICK m \in {"exact", "alias"} :
          Resolved = Resolution(m, CompanyOf(e[1]), query)
    BY <2>3, OneExact DEF Resolved
  <2>5. matches = ms
    BY <2>2, <2>4 DEF Resolution
  <2>6. /\ DOMAIN matches = {1}
        /\ matches[1] = Match("current_exact_urn", e[1], One)
        /\ First(matches) = matches[1] /\ HasCurrent(matches) /\ Strong(matches)
    BY <2>3, <2>5, OneMatch
  <2>7. ~asked /\ resolution = Resolved
    BY <2>2, <2>6
  <2>8. resolution.method \in {"exact", "alias"}
    BY <2>4, <2>7 DEF Resolution
  <2>9. RulesTotal(profile, resolution, matches) >= 70
    BY <2>3, <2>6, <2>8, CleanTotal
  <2>10. /\ result.verdict = VerdictOf(result.confidence)
         /\ result.confidence = Confidence(profile, resolution, matches, 0)
    BY <2>1, <2>7 DEF IInv, ResultInv
  <2>11. result.confidence >= 70
    BY <2>9, <2>10, Totals DEF Confidence, Clamp
  <2> QED
    BY <2>7, <2>10, <2>11 DEF VerdictOf
<1> QED
  BY <1>1, VerificationInvariant, PTL
=============================================================================
