----------------------------- MODULE RoleMatcher -----------------------------
(***************************************************************************)
(* How each role of a profile relates to the resolved company              *)
(* (verifier/src/match/roleMatcher.ts).  Dates are days before now.        *)
(***************************************************************************)
EXTENDS CompanyResolver

NoDate == -1

FUZZY_NAME_THRESHOLD == 6000
RECENT_END_DAYS == 90

(* The role's name against the company's, normalized and not, and its      *)
(* aliases.                                                                *)
Similarity(role, company) ==
  Max({TokenSetRatio(Normalized(role.name), n) :
         n \in {company.normalized, company.name} \cup company.aliases})

UrnHit(role, company) == role.urn # NoUrn /\ role.urn = company.urn

ParentHit(role, company) ==
  role.urn # NoUrn /\ company.parent # NoUrn /\ role.urn = company.parent

(* A name counts for a current role only.                                  *)
HitCurrentName(role, company) ==
  \/ UrnHit(role, company)
  \/ role.current /\ Similarity(role, company) >= FUZZY_NAME_THRESHOLD

Hit(role, company) ==
  \/ UrnHit(role, company)
  \/ ParentHit(role, company)
  \/ Similarity(role, company) >= FUZZY_NAME_THRESHOLD

Match(kind, role, similarity) ==
  [kind |-> kind, role |-> role, similarity |-> similarity]

MatchOf(role, company) ==
  IF role.current
    THEN IF UrnHit(role, company)
           THEN Match("current_exact_urn", role, One)
         ELSE IF ParentHit(role, company)
           THEN Match("current_parent_subsidiary", role, 9000)
         ELSE Match("current_fuzzy_name", role, Similarity(role, company))
  ELSE IF role.end # NoDate /\ role.end <= RECENT_END_DAYS
    THEN Match("ended_recent_at_company", role, Similarity(role, company))
  ELSE Match("ended_old_at_company", role, Similarity(role, company))

NoRole == [urn |-> NoUrn, name |-> <<>>, current |-> FALSE, start |-> NoDate,
           end |-> NoDate, type |-> "unknown"]

NoMatch == <<Match("no_match", NoRole, 0)>>

(* Each match at the place of its role.                                    *)
matchRoles(experience, company) ==
  LET hits == {i \in DOMAIN experience : Hit(experience[i], company)}
  IN  IF company = NoCompany \/ hits = {}
        THEN NoMatch
        ELSE [i \in hits |-> MatchOf(experience[i], company)]
=============================================================================
