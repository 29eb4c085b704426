------------------------------- MODULE Scoring -------------------------------
(***************************************************************************)
(* From matches to a verdict: the rules (verifier/src/score/rules.ts),     *)
(* their sum (scorer.ts) and what it means (verdict.ts).  A rule is the    *)
(* weight of its evidence, 0 when it has none.                             *)
(*                                                                         *)
(* A profile is its experience, a sequence of roles; its headline, as the  *)
(* set of the names that occur in the text; and updated, the days since    *)
(* profile_last_updated, or fetched_at, which is always there.             *)
(***************************************************************************)
EXTENDS RoleMatcher

CONSTANT Since1950    \* days since 1950-01-01

NoHeadline == {<<"no headline">>}

Weight(guard, w) == IF guard THEN w ELSE 0

HasKind(matches, kinds) == \E i \in DOMAIN matches : matches[i].kind \in kinds

Current == {"current_exact_urn", "current_fuzzy_name", "current_parent_subsidiary"}

Currents(matches) == {i \in DOMAIN matches : matches[i].kind \in Current}

HasCurrent(matches) == Currents(matches) # {}

First(matches) == matches[Min(DOMAIN matches)]

FirstCurrent(matches) == matches[Min(Currents(matches))]

(* The kind is not looked at.                                              *)
ExactAnyCurrent(matches) == Weight(HasCurrent(matches), 65)

currentRoleExactUrn(matches) == Weight(HasKind(matches, {"current_exact_urn"}), 65)

currentRoleFuzzyName(matches) ==
  Weight(/\ ~HasKind(matches, {"current_exact_urn"})
         /\ HasKind(matches, {"current_fuzzy_name"}), 25)

parentSubsidiary(matches) ==
  Weight(HasKind(matches, {"current_parent_subsidiary"}), 15)

endedRecent(matches) ==
  Weight(/\ ~HasCurrent(matches)
         /\ HasKind(matches, {"ended_recent_at_company"}), 5)

endedOld(matches) ==
  Weight(/\ ~HasCurrent(matches)
         /\ HasKind(matches, {"ended_old_at_company"}), -10)

noMatch(matches) == Weight(First(matches).kind = "no_match", -50)

(* Old data is merely not a bonus.                                         *)
FreshnessForgiving(profile) == IF profile.updated <= 90 THEN 10 ELSE 0

profileFreshness(profile) ==
  IF profile.updated <= 90 THEN 10 ELSE IF profile.updated <= 365 THEN 0 ELSE -10

CurrentRoles(profile) ==
  {i \in DOMAIN profile.experience : profile.experience[i].current}

multipleCurrentRoles(profile) == Weight(Cardinality(CurrentRoles(profile)) > 1, -10)

(* Any match of such a type, a current one or not.                         *)
contractorOrAdvisor(matches) ==
  Weight(\E i \in DOMAIN matches :
           /\ matches[i].kind # "no_match"
           /\ matches[i].role.type \in {"contractor", "advisor", "intern", "freelance"},
         -5)

InHeadline(profile, company) ==
  company.name \in profile.headline \/ company.aliases \cap profile.headline # {}

HasBoth(profile, company) == company # NoCompany /\ profile.headline # NoHeadline

headlineMentionsCompany(profile, company) ==
  Weight(HasBoth(profile, company) /\ InHeadline(profile, company), 5)

ambiguousResolution(resolution) == Weight(resolution.method = "ambiguous", -10)

(* Two roles at different companies with more than a year in common; a     *)
(* current one lasts until now.                                            *)
Until(role) == IF role.current THEN 0 ELSE role.end

Overlap(a, b) ==
  LET from == IF a.start < b.start THEN a.start ELSE b.start
      to == IF Until(a) > Until(b) THEN Until(a) ELSE Until(b)
  IN  /\ a.urn = NoUrn \/ a.urn # b.urn
      /\ a.name # b.name
      /\ NoDate \notin {a.start, b.start, Until(a), Until(b)}
      /\ from - to > 365

timelineOverlap(profile) ==
  LET roles == profile.experience
  IN  Weight(\E i, j \in DOMAIN roles : i < j /\ Overlap(roles[i], roles[j]), -5)

Impossible(role) ==
  /\ role.start # NoDate
  /\ \/ ~role.current /\ role.end # NoDate /\ role.start < role.end
     \/ role.start > Since1950

impossibleDates(profile) ==
  Weight(\E i \in DOMAIN profile.experience : Impossible(profile.experience[i]), -10)

(* The headline names the company and no current role does; or the first   *)
(* current match is of a name the headline does not have.                  *)
HeadlineConflict(profile, company, matches) ==
  /\ HasBoth(profile, company)
  /\ IF HasCurrent(matches)
       THEN /\ ~InHeadline(profile, company)
            /\ FirstCurrent(matches).role.name \notin profile.headline
       ELSE InHeadline(profile, company)

headlineExperienceConflict(profile, company, matches) ==
  Weight(HeadlineConflict(profile, company, matches), -5)

(* No experience, or none with a name.  An empty name mostly stops the     *)
(* pipeline before this rule looks (Throws), a blank one does not.         *)
insufficientData(profile) ==
  LET roles == profile.experience
  IN  IF roles = <<>> THEN -20
      ELSE Weight(\A i \in DOMAIN roles : IsBlank(roles[i].name), -15)

(* The sum over RULES.                                                     *)
RulesTotal(profile, resolution, matches) ==
    currentRoleExactUrn(matches) + currentRoleFuzzyName(matches)
  + parentSubsidiary(matches) + endedRecent(matches) + endedOld(matches)
  + noMatch(matches) + profileFreshness(profile) + multipleCurrentRoles(profile)
  + contractorOrAdvisor(matches)
  + headlineMentionsCompany(profile, resolution.company)
  + ambiguousResolution(resolution)
  + timelineOverlap(profile) + impossibleDates(profile)
  + headlineExperienceConflict(profile, resolution.company, matches)
  + insufficientData(profile)

Clamp(n, lo, hi) == IF n < lo THEN lo ELSE IF n > hi THEN hi ELSE n

-----------------------------------------------------------------------------
(* decide *)

When(guard, reason) == IF guard THEN {reason} ELSE {}

Reasons(profile, resolution, matches) ==
       When(resolution.method = "ambiguous", "ambiguous")
  \cup When(resolution.method = "not_found", "not found")
  \cup When(First(matches).kind = "no_match", "no role")
  \cup When(Cardinality(Currents(matches)) > 1, "multiple current")
  \cup When(profile.experience = <<>>, "no experience")
  \cup When(profile.updated > 365, "stale")
  \cup When(HeadlineConflict(profile, resolution.company, matches), "headline")
  \cup When(impossibleDates(profile) # 0, "impossible dates")
  \cup When(timelineOverlap(profile) # 0, "overlap")

(* More than the threshold.                                                *)
VerdictAbove70(confidence) ==
  IF confidence > 70 THEN "yes" ELSE IF confidence <= 30 THEN "no" ELSE "uncertain"

VerdictOf(confidence) ==
  IF confidence >= 70 THEN "yes" ELSE IF confidence <= 30 THEN "no" ELSE "uncertain"

LevelOf(reasons, verdict) ==
  IF Cardinality(reasons) >= 2 \/ verdict = "uncertain" THEN "high"
  ELSE IF reasons # {} THEN "medium" ELSE "low"
=============================================================================
