---------------------------- MODULE Verification ----------------------------
(***************************************************************************)
(* One verification at a time (verifier/src/pipeline/verify.ts behind      *)
(* verifier/src/routes/verify.ts): normalize the url, fetch the profile,   *)
(* resolve the company, match the roles, ask the LLM when the match is not *)
(* strong, score, decide, record, answer.  Calls share nothing, so one at  *)
(* a time is enough; what is synchronous between two awaits is one action. *)
(***************************************************************************)
EXTENDS Scoring

CONSTANTS Queries,      \* company names users ask for
          Profiles,     \* profiles the fetcher may answer
          Adjustments,  \* numbers the LLM may answer, in range or not
          LlmAliases,   \* sets of aliases the LLM may answer
          Issues        \* issues the LLM may raise

ASSUME VerificationAssumption ==
  /\ Adjustments \subseteq Int
  /\ Queries \subseteq Seq(Words)
  /\ \A p \in Profiles :
       /\ p.updated \in Nat
       /\ p.experience \in Seq(ToSet(p.experience))
       /\ \A i \in DOMAIN p.experience : p.experience[i].name \in Seq(Words)

VARIABLES step,        \* where the call is
          query,       \* input.company
          profile,     \* what the fetcher answered
          resolution,  \* the resolved company
          matches,     \* its roles
          asked,       \* the LLM has been asked
          rules,       \* history: the rules' confidence without the LLM
          result       \* the answer

vars == <<step, query, profile, resolution, matches, asked, rules, result>>

NoQuery == <<>>
NoProfile == [experience |-> <<>>, headline |-> NoHeadline, updated |-> 0]
NoResolution == [method |-> "none", company |-> NoCompany, was_aliased |-> FALSE]
NoResult == [verdict |-> "none", confidence |-> 0, level |-> "none", reasons |-> {}]

Init ==
  /\ step = "idle"
  /\ query = NoQuery
  /\ profile = NoProfile
  /\ resolution = NoResolution
  /\ matches = NoMatch
  /\ asked = FALSE
  /\ rules = 0
  /\ result = NoResult

STRONG_MATCH_THRESHOLD == 7000

(* The first current match, not the best.                                  *)
Strong(ms) ==
  HasCurrent(ms) /\ FirstCurrent(ms).similarity >= STRONG_MATCH_THRESHOLD

(* The adjustment goes into the rules' sum and is added to it.             *)
ConfidenceTwice(p, res, ms, adjustment) ==
  Clamp(RulesTotal(p, res, ms) + adjustment + adjustment, 0, 100)

Confidence(p, res, ms, adjustment) ==
  Clamp(RulesTotal(p, res, ms) + adjustment, 0, 100)

(* The LLM's issues are added when the level is already decided.           *)
Result(p, res, ms, adjustment, issues) ==
  LET confidence == Confidence(p, res, ms, adjustment)
      reasons == Reasons(p, res, ms)
  IN  [verdict |-> VerdictOf(confidence),
       confidence |-> confidence,
       level |-> LevelOf(reasons, VerdictOf(confidence)),
       reasons |-> reasons \cup issues]

-----------------------------------------------------------------------------
Submit(q) ==
  /\ step = "idle"
  /\ step' = "fetching"
  /\ query' = q
  /\ UNCHANGED <<profile, resolution, matches, asked, rules, result>>

(* normalizeCompany throws on an empty name: of a candidate, or of any     *)
(* role when there is a company to match it with.                          *)
Throws(experience, company) ==
  \E i \in DOMAIN experience :
    /\ experience[i].name = <<>>
    /\ IsFirst(i, experience) \/ company # NoCompany

Fetched(p) ==
  /\ step = "fetching"
  /\ profile' = p
  /\ LET res == resolveCompanyFromProfile(query, p.experience)
         ms == matchRoles(p.experience, res.company)
     IN  IF Throws(p.experience, res.company)
           THEN step' = "failed" /\ UNCHANGED <<resolution, matches, rules, result>>
           ELSE /\ resolution' = res
                /\ matches' = ms
                /\ rules' = Confidence(p, res, ms, 0)
                /\ IF Strong(ms)
                     THEN step' = "recording" /\ result' = Result(p, res, ms, 0, {})
                     ELSE step' = "asking" /\ UNCHANGED result
  /\ UNCHANGED <<query, asked>>

Conclude(res, adjustment, issues) ==
  /\ step = "asking"
  /\ step' = "recording"
  /\ asked' = TRUE
  /\ resolution' = res
  /\ result' = Result(profile, res, matches, adjustment, issues)
  /\ UNCHANGED <<query, profile, matches, rules>>

Enriched(res, aliases) ==
  IF res.company = NoCompany THEN res
  ELSE [res EXCEPT !.company.aliases = @ \cup aliases]

(* The number is taken as it comes.                                        *)
LlmAnswersUnclamped(n, aliases, issues) ==
  Conclude(Enriched(resolution, aliases), n, issues)

LlmAnswers(n, aliases, issues) ==
  Conclude(Enriched(resolution, aliases), Clamp(n, -30, 30), issues)

(* No API key, the call fails, or its answer is not JSON.                  *)
LlmUnavailable == Conclude(resolution, 0, {"LLM unavailable"})

Record ==
  /\ step = "recording"
  /\ step' = "answered"
  /\ UNCHANGED <<query, profile, resolution, matches, asked, rules, result>>

(* The url has no slug, the fetcher answers an error or cannot be reached, *)
(* or the audit log cannot be written: 502, whatever was found out.        *)
Fail ==
  /\ step \in {"fetching", "recording"}
  /\ step' = "failed"
  /\ UNCHANGED <<query, profile, resolution, matches, asked, rules, result>>

(* The answer has left; the next call starts.                              *)
Reply ==
  /\ step \in {"answered", "failed"}
  /\ step' = "idle"
  /\ query' = NoQuery
  /\ profile' = NoProfile
  /\ resolution' = NoResolution
  /\ matches' = NoMatch
  /\ asked' = FALSE
  /\ rules' = 0
  /\ result' = NoResult

Next ==
  \/ \E q \in Queries : Submit(q)
  \/ \E p \in Profiles : Fetched(p)
  \/ \E n \in Adjustments, aliases \in LlmAliases, issues \in SUBSET Issues :
       LlmAnswers(n, aliases, issues)
  \/ LlmUnavailable
  \/ Record
  \/ Fail
  \/ Reply

Spec == Init /\ [][Next]_vars

-----------------------------------------------------------------------------
Steps == {"idle", "fetching", "asking", "recording", "answered", "failed"}

Decided == step \in {"recording", "answered"}

TypeOK ==
  /\ step \in Steps
  /\ query \in Queries \cup {NoQuery}
  /\ profile \in Profiles \cup {NoProfile}
  /\ asked \in BOOLEAN
  /\ rules \in 0..100
  /\ result.confidence \in 0..100
  /\ result.verdict \in {"yes", "no", "uncertain", "none"}
  /\ result.level \in {"low", "medium", "high", "none"}
  /\ Decided <=> result # NoResult /\ step # "failed"

(* Nobody is said to work at a company where no role is current, whatever  *)
(* the headline says and the LLM adds (score/rules.ts:59-87, 135-144,      *)
(* 253-259, pipeline/verify.ts:95-113).                                    *)
YesNeedsCurrentRole == result.verdict = "yes" => HasCurrent(matches)

(* The rules alone say yes only for a role with the company's urn; a name  *)
(* that is merely similar, or equal without a urn, needs the LLM           *)
(* (score/rules.ts:25-57).  SOLUTION.md:360 expects a yes "with            *)
(* parent-match note" of YouTube at Google: no candidate ever has a parent *)
(* urn (resolve/companyResolver.ts:147), so that rule adds nothing.        *)
RulesYesIsExact ==
  result.verdict = "yes" /\ ~asked => HasKind(matches, {"current_exact_urn"})

(* The rules never say yes on data over a year old (score/rules.ts:94-108):*)
(* "Stale profile (last edit 2021) saying current: uncertain"              *)
(* (SOLUTION.md:362).  samples/04_stale_profile.http:2-4 has it otherwise: *)
(* "verdict still likely yes".                                             *)
StaleIsNotYes ==
  result.verdict = "yes" /\ ~asked => profile.updated <= 365

(* The company was found among the roles, so a role matches it: what the   *)
(* resolver accepts, the matcher, which has its own threshold, does not    *)
(* lose.  A name without a latin letter and without a urn is the exception *)
(* (resolve/companyResolver.ts:61-113, match/roleMatcher.ts:41-56).        *)
ResolvedMatches ==
  /\ resolution.company # NoCompany
  /\ resolution.company.urn # NoUrn \/ resolution.company.normalized # <<>>
  => ~HasKind(matches, {"no_match"})

(* "Person at company, exact match, fresh profile: yes, high conf"         *)
(* (SOLUTION.md:358), with any headline and up to 90 days old: one         *)
(* full-time role, current, with a urn, and a name that is not blank and   *)
(* is the one asked for, is exactly enough (score/rules.ts:94-108,         *)
(* 253-259, 292-300).  By DECISIONS.md:97 and 104, with 10 less from 60    *)
(* days on and 15 less for the headline, it would not be.                  *)
CleanMatch ==
  /\ Len(profile.experience) = 1
  /\ LET role == profile.experience[1]
     IN  /\ role.current /\ role.urn # NoUrn /\ role.type = "full_time"
         /\ Normalized(role.name) = Normalized(query) /\ ~IsBlank(role.name)
         /\ ~Impossible(role)
  /\ profile.updated <= 90

CleanMatchIsYes == Decided /\ CleanMatch => result.verdict = "yes" /\ ~asked

(* What the LLM moves: its adjustment, and 10 more when an alias it names  *)
(* turns a headline that contradicts into one that agrees.                 *)
Swing == IF result.confidence > rules THEN result.confidence - rules
         ELSE rules - result.confidence

LlmSwing == Decided => Swing <= 40

(* "yes: Strong evidence they work there now" (README.md:260): some        *)
(* current role is at a company whose name has to do with the query's.     *)
SameCompany(name, q) ==
  \/ ToSet(name) \cap ToSet(q) # {}
  \/ Normalized(name) = Normalized(q) /\ Normalized(q) # <<>>

YesIsAtCompany ==
  result.verdict = "yes" /\ ~asked =>
    \E i \in DOMAIN profile.experience :
      profile.experience[i].current /\ SameCompany(profile.experience[i].name, query)
=============================================================================
