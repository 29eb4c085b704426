--------------------------- MODULE CompanyResolver ---------------------------
(***************************************************************************)
(* From the company a user asks for to a Company, found in the profile's   *)
(* own experience (verifier/src/resolve/companyResolver.ts).               *)
(***************************************************************************)
EXTENDS CompanyNames

NoUrn == "no urn"

(* The Company of a role: a made-up urn equals no role's urn, as NoUrn     *)
(* does not.                                                               *)
CompanyOf(role) ==
  [urn |-> role.urn,
   name |-> role.name,
   normalized |-> Normalized(role.name),
   aliases |-> IF WasAliased(role.name) THEN {role.name} ELSE {},
   parent |-> NoUrn]

NoCompany == [urn |-> NoUrn, name |-> <<>>, normalized |-> <<>>,
              aliases |-> {}, parent |-> NoUrn]

Key(role) == IF role.urn # NoUrn THEN <<role.urn>> ELSE role.name

(* The first role of each key.                                             *)
IsFirst(i, experience) ==
  \A j \in 1..(i - 1) : Key(experience[j]) # Key(experience[i])

(* buildCandidatesFromExperience: each candidate at the place of its role. *)
Candidates(experience) ==
  [i \in {i \in DOMAIN experience : IsFirst(i, experience)} |->
     CompanyOf(experience[i])]

FUZZY_DOMINANT_THRESHOLD == 5000
FUZZY_GAP_THRESHOLD == 1500

CandidateScore(query, c) ==
  Max({TokenSetRatio(query, c.normalized)} \cup
      {TokenSetRatio(query, a) : a \in c.aliases})

Resolution(method, company, query) ==
  [method |-> method, company |-> company, was_aliased |-> WasAliased(query)]

(* No candidate has exactly this name: the best score decides, the first   *)
(* of equals, and how far the second is behind.                            *)
ResolveFuzzy(query, cands) ==
  LET score(i) == CandidateScore(Normalized(query), cands[i])
      top == CHOOSE i \in DOMAIN cands :
               /\ \A j \in DOMAIN cands : score(j) <= score(i)
               /\ \A j \in DOMAIN cands : j < i => score(j) < score(i)
      second == Max({0} \cup {score(j) : j \in DOMAIN cands \ {top}})
  IN  IF score(top) < FUZZY_DOMINANT_THRESHOLD
        THEN Resolution("not_found", NoCompany, query)
      ELSE IF score(top) - second >= FUZZY_GAP_THRESHOLD
        THEN Resolution("fuzzy_dominant", cands[top], query)
      ELSE Resolution("ambiguous", cands[top], query)

resolveCompanyFromProfile(query, experience) ==
  LET cands == Candidates(experience)
      exact == {i \in DOMAIN cands : cands[i].normalized = Normalized(query)}
  IN  IF DOMAIN cands = {} THEN Resolution("not_found", NoCompany, query)
      ELSE IF exact # {}
        THEN Resolution(IF WasAliased(query) THEN "alias" ELSE "exact",
                        cands[Min(exact)], query)
      ELSE ResolveFuzzy(query, cands)
=============================================================================
