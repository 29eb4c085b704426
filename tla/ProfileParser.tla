----------------------------- MODULE ProfileParser -----------------------------
(***************************************************************************)
(* What becomes of a payload: Voyager's graph (fetcher/app/parsers/        *)
(* voyager_graph.py, profile.py), the page or the search result of a       *)
(* public profile (fetchers/public.py), and what the verifier reads of the *)
(* document much later (match/roleMatcher.ts, score/rules.ts).             *)
(*                                                                         *)
(* The clock counts months.  A date is a year and a month, the month 0     *)
(* where LinkedIn has only the year; the verifier's days are 30 a month.   *)
(***************************************************************************)
EXTENDS Scoring

NoWhen == [year |-> 0, month |-> 0]

(* A month without a year is no date either.                               *)
Dates == {NoWhen} \cup [year : Nat \ {0}, month : 0..12]

Months(when, missing) ==
  12 * when.year + IF when.month = 0 THEN missing ELSE when.month

(* A year alone counts from its beginning.                                 *)
IsCurrentJanuary(end, today) == end = NoWhen \/ Months(end, 1) >= today

IsCurrent(end, today) == end = NoWhen \/ Months(end, 12) >= today

(* The verifier reads a year alone as its January.                         *)
DaysAgo(when, today) ==
  IF when = NoWhen THEN NoDate ELSE 30 * (today - Months(when, 1))

-----------------------------------------------------------------------------
(* resolve_graph and collect *)

(* The suffixes asked for that an object's $type ends with.                *)
EndsWith(type) ==
  CASE type = "dash Profile"  -> {".identity.profile.Profile", "Profile"}
    [] type = "MiniProfile"   -> {"Profile"}
    [] type = "dash Position" -> {".identity.profile.Position", "Position"}
    [] type = "Position"      -> {"Position"}
    [] OTHER                  -> {}

(* An object has its entityUrn in `urn' and its *entityUrn in `ref'; the   *)
(* dictionary is by either, and an object with neither is dropped.         *)
NoEntityUrn == <<>>

GraphKey(object) == IF object.urn # NoEntityUrn THEN object.urn ELSE object.ref

(* An object that comes again takes the place of the first.                *)
ByUrn(included) ==
  LET key(i) == GraphKey(included[i])
      firsts == Kept(included, {i \in DOMAIN included :
                                  /\ key(i) # NoEntityUrn
                                  /\ \A j \in 1..(i - 1) : key(j) # key(i)})
      last(k) == Max({j \in DOMAIN included : key(j) = k})
  IN  [k \in DOMAIN firsts |-> included[last(GraphKey(firsts[k]))]]

Collect(objects, suffix) ==
  Kept(objects, {i \in DOMAIN objects : suffix \in EndsWith(objects[i].type)})

ProfileObjects(objects) ==
  LET dash == Collect(objects, ".identity.profile.Profile")
  IN  IF dash # <<>> THEN dash ELSE Collect(objects, "Profile")

(* The objects without those whose entityUrn came before.                  *)
FirstOfUrn(objects) ==
  Kept(objects, {i \in DOMAIN objects :
                   \/ objects[i].urn = NoEntityUrn
                   \/ \A j \in 1..(i - 1) : objects[j].urn # objects[i].urn})

(* A slip: both lists, one after the other.                                *)
PositionsTwice(objects) ==
  Collect(objects, ".identity.profile.Position") \o Collect(objects, "Position")

(* A dash position is in both lists: taken once by its entityUrn, and      *)
(* twice without one.                                                      *)
Positions(objects) ==
  FirstOfUrn(Collect(objects, ".identity.profile.Position")
             \o Collect(objects, "Position"))

-----------------------------------------------------------------------------
(* parse_profile *)

UnknownName == <<"unknown">>

EmploymentType(pos) ==
  IF pos.employment = "unknown" /\ pos.advisor THEN "advisor" ELSE pos.employment

Experience(pos, today) ==
  [urn |-> pos.company,
   name |-> IF pos.name = <<>> THEN UnknownName ELSE pos.name,
   current |-> IsCurrent(pos.end, today),
   start |-> pos.start,
   end |-> pos.end,
   type |-> EmploymentType(pos)]

(* Whom the document is about, the slug in its url, and its content;       *)
(* `updated' is the month, 0 where fetched_at has to do.                   *)
Document(urn, slug, who, experience, headline, updated) ==
  [urn |-> urn, slug |-> slug, who |-> who, experience |-> experience,
   headline |-> headline, updated |-> updated]

UnknownUrn == <<"unknown">>
NoSlug == "no slug"
Nobody == "nobody"

EntityUrn(object) == IF object.urn # NoEntityUrn THEN object.urn ELSE UnknownUrn

(* The first profile of the graph, whosever it is, and all its positions.  *)
(* Without one, whom the response's root is about, without roles and       *)
(* without a url, so that no lookup by url finds it.                       *)
ReadGraph(payload, today) ==
  LET objects == ByUrn(payload.included)
      positions == Positions(objects)
      root == payload.root
      p == ProfileObjects(objects)[1]
  IN  IF ProfileObjects(objects) = <<>>
        THEN Document(EntityUrn(root), NoSlug, root.who, <<>>, root.headline, 0)
        ELSE Document(EntityUrn(p), p.slug, p.who,
                      [k \in DOMAIN positions |-> Experience(positions[k], today)],
                      p.headline, p.updated)

(* The url is made of the slug that was asked for.                         *)
FromGraphAsked(payload, slug, today) == [ReadGraph(payload, today) EXCEPT !.slug = slug]

(* No graph's document is given a url.                                     *)
FromGraphNoUrl(payload, slug, today) == [ReadGraph(payload, today) EXCEPT !.slug = NoSlug]

(* The slug that was asked for is not looked at.                           *)
FromGraph(payload, slug, today) == ReadGraph(payload, today)

-----------------------------------------------------------------------------
(* Public pages *)

(* The company, from the page's description, its JSON-LD and its markup,   *)
(* whichever has one first; a search result has only its snippet.          *)
PageCompany(page) ==
  LET given == {i \in DOMAIN page.companies : page.companies[i] # <<>>}
  IN  IF given = {} THEN <<>> ELSE page.companies[Min(given)]

(* A title is often "Name - Company".                                      *)
EffectiveCompany(page) ==
  IF PageCompany(page) # <<>> THEN PageCompany(page) ELSE page.headline

(* The company is given a urn.                                             *)
PageRoleWithUrn(page) ==
  [urn |-> "made up", name |-> EffectiveCompany(page), current |-> TRUE,
   start |-> NoWhen, end |-> NoWhen, type |-> "unknown"]

PageRole(page) ==
  [urn |-> NoUrn, name |-> EffectiveCompany(page), current |-> TRUE,
   start |-> NoWhen, end |-> NoWhen, type |-> "unknown"]

(* The person's own urn, as the graph would have it.                       *)
MemberUrnOfGraph(slug) == <<"fsd_profile", slug>>

MemberUrn(slug) == <<"member", slug>>

(* _build_result, which parse_profile takes as it is: one role without a   *)
(* urn or dates, under the slug that was asked for, whoever is on the page. *)
FromPage(page, slug) ==
  Document(MemberUrn(slug), slug, page.who,
           IF EffectiveCompany(page) = <<>> THEN <<>> ELSE <<PageRole(page)>>,
           IF page.headline = <<>> THEN NoHeadline ELSE {page.headline}, 0)

Parse(payload, slug, today) ==
  IF payload.kind = "graph" THEN FromGraph(payload, slug, today)
  ELSE FromPage(payload, slug)

-----------------------------------------------------------------------------
(* Whether a role is current is judged again when the document is read.    *)
SeenRejudged(document, at, today) ==
  [experience |->
     [i \in DOMAIN document.experience |->
        [document.experience[i] EXCEPT !.current = IsCurrent(document.experience[i].end, today),
                                       !.start = DaysAgo(@, today),
                                       !.end = DaysAgo(@, today)]],
   headline |-> document.headline,
   updated |-> 30 * (today - IF document.updated = 0 THEN at ELSE document.updated)]

(* What the verifier sees in a document fetched in the month `at'.         *)
Seen(document, at, today) ==
  [experience |->
     [i \in DOMAIN document.experience |->
        [document.experience[i] EXCEPT !.start = DaysAgo(@, today),
                                       !.end = DaysAgo(@, today)]],
   headline |-> document.headline,
   updated |-> 30 * (today - IF document.updated = 0 THEN at ELSE document.updated)]

(* What the rules say of it without the LLM.                               *)
RulesSay(query, profile) ==
  LET resolution == resolveCompanyFromProfile(query, profile.experience)
      matches == matchRoles(profile.experience, resolution.company)
  IN  VerdictOf(Clamp(RulesTotal(profile, resolution, matches), 0, 100))
=============================================================================
