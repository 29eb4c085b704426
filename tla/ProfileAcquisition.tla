-------------------------- MODULE ProfileAcquisition --------------------------
(***************************************************************************)
(* FETCHER_MODE=public, with or without the login fallback: how a document *)
(* comes about when a profile is asked for by its url, and what is then in *)
(* MongoDB under that url (services/profile_service.py, fetchers/          *)
(* fallback.py, fetchers/public.py, routes/captures.py).                   *)
(*                                                                         *)
(* All requests ask for one person.  Redis, max_age_days and the raw       *)
(* captures are DocumentCache's subject and left out, and so is the login  *)
(* session (LoginSession).                                                 *)
(***************************************************************************)
EXTENDS ProfileParser

CONSTANTS Callers,    \* concurrent requests
          Asked,      \* the slug they ask for
          Person,     \* whose it is
          Pages,      \* public pages with a name, and search results
          Graphs,     \* Voyager payloads, fetched or uploaded
          Body,       \* what is in each of them
          NoPayload,
          Fallback,   \* a login fetcher stands behind the public one
          Queries,    \* companies the verifier is asked about
          Start,      \* first month
          Hard,       \* hard_ttl_days, in months
          Patience,   \* bound on the time a request is in flight
          Horizon     \* bound on the clock

ASSUME AcquisitionAssumption ==
  /\ Fallback \in BOOLEAN
  /\ Start \in Nat \ {0} /\ Hard \in Nat /\ Patience \in Nat /\ Horizon \in Nat
  /\ Since1950 \in Nat
  /\ NoPayload \notin Pages \cup Graphs
  /\ Pages \cap Graphs = {}

Objects(g) == ToSet(Body[g].included)

Profiles(g) == {o \in Objects(g) : "Profile" \in EndsWith(o.type)}

(* What a payload is.  No object's urn is the one that only the public     *)
(* fetcher makes up.                                                       *)
ASSUME PayloadAssumption ==
  /\ \A p \in Pages : Body[p].kind = "page"
  /\ \A g \in Graphs :
       /\ Body[g].kind = "graph"
       /\ Body[g].included \in Seq(Objects(g))
       /\ \A o \in Objects(g) : "Position" \in EndsWith(o.type) => {o.start, o.end} \subseteq Dates
       /\ \A o \in Profiles(g) : o.urn # <<"member", Asked>> /\ o.updated \in Nat
       /\ Body[g].root.urn # <<"member", Asked>>

(* What LinkedIn promises: a slug is one person's.  Not every profile      *)
(* object has one, and a person's objects have urns of several kinds.      *)
ASSUME IdentityAssumption ==
  /\ Asked # NoSlug
  /\ \A g \in Graphs : \A o \in Profiles(g) : o.slug = Asked => o.who = Person

VARIABLES now,      \* the month
          docs,     \* MongoDB's profiles by urn
          pc,       \* each request's step
          started,  \* the clock it has read
          carried   \* the document it is about to store

vars == <<now, docs, pc, started, carried>>

NoProfile == Document(<<>>, NoSlug, Nobody, <<>>, NoHeadline, 0)

(* A stored profile, its fetched_at, and what it was made of.              *)
NoDoc == [profile |-> NoProfile, at |-> 0, payload |-> NoPayload]

Urns == {MemberUrn(Asked)}
        \cup {FromGraph(Body[g], Asked, Start).urn : g \in Graphs}

Init ==
  /\ now = Start
  /\ docs = [u \in Urns |-> NoDoc]
  /\ pc = [c \in Callers |-> "idle"]
  /\ started = [c \in Callers |-> 0]
  /\ carried = [c \in Callers |-> NoDoc]

Goto(c, step) == pc' = [pc EXCEPT ![c] = step]

Leave(c) ==
  /\ Goto(c, "idle")
  /\ started' = [started EXCEPT ![c] = 0]
  /\ carried' = [carried EXCEPT ![c] = NoDoc]
  /\ UNCHANGED docs

(* On to the next stage, with nothing found.                               *)
GoOn(c, step) == Goto(c, step) /\ UNCHANGED <<docs, started, carried>>

(* The fetcher's answer is parsed, and what is current is judged now.      *)
Take(c, payload, at) ==
  /\ Goto(c, "upserting")
  /\ carried' = [carried EXCEPT ![c] = [profile |-> Parse(Body[payload], Asked, now),
                                        at |-> at, payload |-> payload]]
  /\ UNCHANGED <<docs, started>>

-----------------------------------------------------------------------------
(* get_or_fetch *)

Begin(c) == pc[c] = "idle" /\ GoOn(c, "lookup")

Found == {u \in Urns : docs[u] # NoDoc /\ docs[u].profile.slug = Asked}

Young(doc) == doc # NoDoc /\ now - doc.at < Hard

(* find_one has no order: any document with the url may be the one.        *)
LookupHit(c) ==
  /\ pc[c] = "lookup"
  /\ \E u \in Found : Young(docs[u])
  /\ Leave(c)

LookupMiss(c) ==
  /\ pc[c] = "lookup"
  /\ Found = {} \/ \E u \in Found : ~Young(docs[u])
  /\ Goto(c, "direct")
  /\ started' = [started EXCEPT ![c] = now]
  /\ UNCHANGED <<docs, carried>>

(* Stage 1, as Googlebot: whatever page with a name the redirects led to,  *)
(* unless its url is an auth wall's.  Anything else, exceptions included,  *)
(* leads to the next stage.  A page's document is dated when it is built.  *)
Direct(c) ==
  /\ pc[c] = "direct"
  /\ \/ \E page \in Pages : ~Body[page].wall /\ Take(c, page, now)
     \/ GoOn(c, "warmed")

(* Stage 1.5, with a browser's cookies: the url is not looked at.          *)
Warmed(c) ==
  /\ pc[c] = "warmed"
  /\ \/ \E page \in Pages : Take(c, page, now)
     \/ GoOn(c, "search")

(* Stage 2: the first title after the first url that begins like the one   *)
(* asked for, be it that result's or the next one's.  Without one the      *)
(* public fetcher raises.                                                  *)
Search(c) ==
  /\ pc[c] = "search"
  /\ \/ \E page \in Pages : Take(c, page, now)
     \/ GoOn(c, "login")

(* LoginFetcher's graph, if it is there to be asked, or its exception.     *)
(* _to_public_shape gives the graph an `experience' and no `name', so that *)
(* parse_profile goes on to read the graph; it is dated before the fetch.  *)
Login(c) ==
  /\ pc[c] = "login"
  /\ \/ Fallback /\ \E g \in Graphs : Take(c, g, started[c])
     \/ Leave(c)

(* The document is dated when it is stored.                                *)
UpsertDated(c) ==
  /\ pc[c] = "upserting"
  /\ docs' = [docs EXCEPT ![carried[c].profile.urn] = [carried[c] EXCEPT !.at = now]]
  /\ Goto(c, "idle")
  /\ started' = [started EXCEPT ![c] = 0]
  /\ carried' = [carried EXCEPT ![c] = NoDoc]

(* The document of that urn is replaced, whatever it was made of.          *)
Upsert(c) ==
  /\ pc[c] = "upserting"
  /\ docs' = [docs EXCEPT ![carried[c].profile.urn] = carried[c]]
  /\ Goto(c, "idle")
  /\ started' = [started EXCEPT ![c] = 0]
  /\ carried' = [carried EXCEPT ![c] = NoDoc]

(* POST /captures: a graph that a user's browser has seen.                 *)
Upload(c) ==
  /\ pc[c] = "idle"
  /\ \E g \in Graphs : Take(c, g, now)

(* MongoDB raises or the process stops.                                    *)
Fail(c) == pc[c] # "idle" /\ Leave(c)

(* A month passes; documents never expire (storage/mongo.py).              *)
Since(c) == IF pc[c] = "upserting" THEN carried[c].at ELSE started[c]

Tick ==
  /\ now < Start + Horizon
  /\ \A c \in Callers :
       pc[c] \notin {"idle", "lookup"} => now - Since(c) < Patience
  /\ now' = now + 1
  /\ UNCHANGED <<docs, pc, started, carried>>

Step(c) ==
  \/ Begin(c) \/ LookupHit(c) \/ LookupMiss(c)
  \/ Direct(c) \/ Warmed(c) \/ Search(c) \/ Login(c)
  \/ Upload(c) \/ Upsert(c) \/ Fail(c)

Next ==
  \/ \E c \in Callers : Step(c) /\ UNCHANGED now
  \/ Tick

Spec == Init /\ [][Next]_vars

-----------------------------------------------------------------------------
PublicStages == {"direct", "warmed", "search"}

TypeOK ==
  /\ now \in Start..(Start + Horizon)
  /\ \A u \in Urns : docs[u] # NoDoc =>
       /\ docs[u].profile.urn = u
       /\ docs[u].at \in Start..now
       /\ docs[u].payload \in Pages \cup Graphs
  /\ pc \in [Callers -> PublicStages \cup {"idle", "lookup", "login", "upserting"}]
  /\ \A c \in Callers : started[c] # 0 => started[c] \in Start..now
  /\ \A c \in Callers : carried[c] # NoDoc <=> pc[c] = "upserting"

Stored == {u \in Urns : docs[u] # NoDoc}

(* Without the LLM nobody is said to work anywhere on the strength of a    *)
(* public page: its one role has no urn, which no other evidence makes up  *)
(* for (public.py:228-238, score/rules.ts:25-46).                          *)
PublicNeverYes ==
  \A u \in Stored, q \in Queries :
    docs[u].payload \in Pages
      => RulesSay(q, Seen(docs[u].profile, docs[u].at, now)) # "yes"

(* The parser takes a year alone for its December (profile.py:45), the     *)
(* verifier for its January (roleMatcher.ts:112-119): a role that ended    *)
(* "in 2024" is never one that ended recently, even in January 2025.       *)
YearOnly(when) == when # NoWhen /\ when.month = 0

YearOnlyNeverRecent ==
  \A u \in Stored :
    LET document == docs[u].profile
        seen == Seen(document, docs[u].at, now)
    IN  \A i \in DOMAIN document.experience :
          LET role == document.experience[i]
          IN  YearOnly(role.end) /\ ~role.current
                => seen.experience[i].end > RECENT_END_DAYS

(* is_current is judged once, when the payload is parsed, and stored       *)
(* (profile.py:140): as long as the document is answered, such a role has  *)
(* not been over for more than hard_ttl_days.                              *)
CurrentIsRecent ==
  \A u \in Stored :
    Young(docs[u]) =>
      \A i \in DOMAIN docs[u].profile.experience :
        LET role == docs[u].profile.experience[i]
        IN  role.current /\ role.end # NoWhen => now - Months(role.end, 12) < Hard

(* The rules only take away with time: a stored document that says no yes  *)
(* does not come to say it by growing old, though its roles go out of      *)
(* memory, overlap and shorten meanwhile, because what is current is not   *)
(* judged again (profile.py:140, roleMatcher.ts, rules.ts).                *)
AgeingNeverYes ==
  [][Tick => \A u \in Stored, q \in Queries :
       LET said(month) == RulesSay(q, Seen(docs[u].profile, docs[u].at, month))
       IN  said(now') = "yes" => said(now) = "yes"]_vars

(* A payload repeats objects, and the newer type name of a position ends   *)
(* with the older one (profile.py:128-134, voyager_graph.py:29-32): the    *)
(* document has each position as it came last in the payload, nothing      *)
(* else, and more than once only a dash position that has no entityUrn to  *)
(* be told by.                                                             *)
Newest(included) ==
  {included[i] : i \in {i \in DOMAIN included :
      /\ GraphKey(included[i]) # NoEntityUrn
      /\ \A j \in DOMAIN included : GraphKey(included[j]) = GraphKey(included[i]) => j <= i}}

NewestOf(included, suffix) == {o \in Newest(included) : suffix \in EndsWith(o.type)}

OneRolePerPosition ==
  \A u \in Stored :
    LET roles == docs[u].profile.experience
        included == Body[docs[u].payload].included
    IN  docs[u].payload \in Graphs /\ NewestOf(included, "Profile") # {} =>
          \E position \in Surjection(DOMAIN roles, NewestOf(included, "Position")) :
            /\ \A i \in DOMAIN roles :
                 /\ roles[i].urn = position[i].company
                 /\ roles[i].start = position[i].start
                 /\ roles[i].end = position[i].end
            /\ \A i, j \in DOMAIN roles :
                 position[i] = position[j] /\ i # j =>
                   /\ position[i].urn = NoEntityUrn
                   /\ ".identity.profile.Position" \in EndsWith(position[i].type)

(* Under the person's url there may be anybody: a page that the redirects  *)
(* led to, a wall, the search result next to hers (public.py:284, 378,     *)
(* 181).  But whomever the rules say yes of there, it is she: what a       *)
(* stranger's page says is never enough, and a stranger's graph is stored  *)
(* under the slug it has itself (profile.py:161-162).                      *)
YesIsThePersons ==
  \A u \in Found, q \in Queries :
    RulesSay(q, Seen(docs[u].profile, docs[u].at, now)) = "yes"
      => docs[u].profile.who = Person

(* The page's document and the graph's have urns of their own              *)
(* (public.py:243): what little a page has never replaces a profile.       *)
NoDowngrade ==
  [][\A u \in Stored :
       docs[u].payload \in Graphs => docs'[u].payload \in Graphs]_vars

(* The price of it: LinkedIn is asked although a young document of the     *)
(* person is there, made of a payload that has her slug wherever it has    *)
(* her, only when another was found first (profiles.py:28), made of a      *)
(* payload that calls her by another urn.  (A payload without her slug     *)
(* makes a document without a url, which is asked for in vain every time,  *)
(* profile.py:109-119, 162.)                                               *)
HasSlug(payload) ==
  \/ payload \in Pages
  \/ NewestOf(Body[payload].included, "Profile") # {}
     /\ \A o \in Profiles(payload) : o.who = Person => o.slug = Asked

Called(payload) ==
  IF payload \in Pages THEN {MemberUrn(Asked)}
  ELSE {EntityUrn(o) : o \in {o \in Profiles(payload) : o.slug = Asked}}

NeedlessFetchNeedsTwin ==
  [][\A c \in Callers, u \in Stored :
       LookupMiss(c) /\ Young(docs[u]) /\ docs[u].profile.who = Person
       /\ HasSlug(docs[u].payload)
         => \E w \in Found : /\ ~Young(docs[w])
                             /\ \E name \in Called(docs[u].payload),
                                   other \in Called(docs[w].payload) : name # other]_vars
=============================================================================
