---------------------------- MODULE DocumentCache ----------------------------
(***************************************************************************)
(* One cached LinkedIn document, a profile or a company, behind the        *)
(* fetcher service: Redis in front of MongoDB, the live fetch behind both  *)
(* (services/profile_service.py, services/company_service.py), and the     *)
(* extension's uploads, which write MongoDB only (routes/captures.py).     *)
(*                                                                         *)
(* Every await is a point where other requests run, so each request is a   *)
(* chain of steps: Redis, MongoDB, fetch, raw capture, upsert, Redis.  A   *)
(* document is known by its fetched_at, which get_or_fetch reads BEFORE    *)
(* the fetch (the public fetcher reads its own after it).  Days are ticks; *)
(* Patience is the longest a request stays in flight once it has read the  *)
(* clock.                                                                  *)
(***************************************************************************)
EXTENDS Integers, FiniteSets

CONSTANTS Callers,     \* concurrent requests
          Keys,        \* strings requests use for the document (urn, url, slug)
          FoundBy,     \* those the MongoDB lookup finds it by
          Limits,      \* max_age_days of profile requests; 0 when absent (or 0)
          Fresh,       \* fresh_days
          Hard,        \* hard_ttl_days
          RedisTTL,    \* _REDIS_PROFILE_TTL / _REDIS_COMPANY_TTL
          CaptureTTL,  \* capture_hard_ttl_days
          Patience,    \* bound on the time a request is in flight
          Horizon      \* bound on the clock

ASSUME CacheAssumption ==
  /\ "none" \notin Keys
  /\ FoundBy \subseteq Keys
  /\ Limits \subseteq Nat
  /\ Fresh \in Nat \ {0}
  /\ Hard \in Nat
  /\ RedisTTL \in Nat \ {0}
  /\ CaptureTTL \in Nat
  /\ Patience \in Nat
  /\ Horizon \in Nat

VARIABLES kind,      \* what the document is: profiles have max_age_days,
                     \* companies may be stored by /search/company
          now,       \* the clock
          doc,       \* the MongoDB document: fetched_at and who wrote it
          redis,     \* the Redis entry of each key
          captures,  \* raw_captures of the document
          pc, op, key, limit,   \* each request: step, kind, its arguments
          started,   \* the `now' the request has read
          val        \* fetched_at of the document the request carries

request == <<pc, op, key, limit, started, val>>
vars == <<kind, now, doc, redis, captures, request>>

NoKey == "none"
NoDoc == [at |-> 0, via |-> "none"]
NoEntry == [at |-> 0, until |-> 0]
Via == {"fetch", "upload", "search"}

Init ==
  /\ kind \in {"profile", "company"}
  /\ now = 0
  /\ doc = NoDoc
  /\ redis = [k \in Keys |-> NoEntry]
  /\ captures = {}
  /\ pc = [c \in Callers |-> "idle"]
  /\ op = [c \in Callers |-> "none"]
  /\ key = [c \in Callers |-> NoKey]
  /\ limit = [c \in Callers |-> 0]
  /\ started = [c \in Callers |-> 0]
  /\ val = [c \in Callers |-> 0]

(* The request's answer or error leaves the service.                       *)
Leave(c) ==
  /\ pc' = [pc EXCEPT ![c] = "idle"]
  /\ op' = [op EXCEPT ![c] = "none"]
  /\ key' = [key EXCEPT ![c] = NoKey]
  /\ limit' = [limit EXCEPT ![c] = 0]
  /\ started' = [started EXCEPT ![c] = 0]
  /\ val' = [val EXCEPT ![c] = 0]

Goto(c, step) == pc' = [pc EXCEPT ![c] = step]

-----------------------------------------------------------------------------
(* get_or_fetch *)

Begin(c, k, m) ==
  /\ pc[c] = "idle"
  /\ kind = "company" => m = 0
  /\ Goto(c, "redis")
  /\ op' = [op EXCEPT ![c] = "fetch"]
  /\ key' = [key EXCEPT ![c] = k]
  /\ limit' = [limit EXCEPT ![c] = m]
  /\ UNCHANGED <<now, doc, redis, captures, started, val>>

(* Every hit makes the entry live on.                                      *)
RedisHitSlides(c) ==
  /\ pc[c] = "redis"
  /\ redis[key[c]] # NoEntry
  /\ redis' = [redis EXCEPT ![key[c]].until = now + RedisTTL]
  /\ Leave(c)
  /\ UNCHANGED <<now, doc, captures>>

(* An entry is answered as it is, as cache_fresh.                          *)
RedisHit(c) ==
  /\ pc[c] = "redis"
  /\ redis[key[c]] # NoEntry
  /\ Leave(c)
  /\ UNCHANGED <<now, doc, redis, captures>>

(* No entry, or Redis cannot be reached: the error is swallowed.           *)
RedisMiss(c) ==
  /\ pc[c] = "redis"
  /\ Goto(c, "mongo")
  /\ UNCHANGED <<now, doc, redis, captures, op, key, limit, started, val>>

Shorter(days, m) == IF m # 0 /\ m < days THEN m ELSE days

Found(c) == doc # NoDoc /\ key[c] \in FoundBy

Age == now - doc.at

(* What is only stale goes to Redis too.                                   *)
LookupFreshTillHard(c) ==
  /\ pc[c] = "mongo"
  /\ Found(c) /\ Age < Shorter(Hard, limit[c])
  /\ Goto(c, "caching")
  /\ started' = [started EXCEPT ![c] = now]
  /\ val' = [val EXCEPT ![c] = doc.at]
  /\ UNCHANGED <<now, doc, redis, captures, op, key, limit>>

LookupFresh(c) ==
  /\ pc[c] = "mongo"
  /\ Found(c) /\ Age < Shorter(Fresh, limit[c])
  /\ Goto(c, "caching")
  /\ started' = [started EXCEPT ![c] = now]
  /\ val' = [val EXCEPT ![c] = doc.at]
  /\ UNCHANGED <<now, doc, redis, captures, op, key, limit>>

LookupStale(c) ==
  /\ pc[c] = "mongo"
  /\ Found(c) /\ Age >= Shorter(Fresh, limit[c]) /\ Age < Shorter(Hard, limit[c])
  /\ Leave(c)
  /\ UNCHANGED <<now, doc, redis, captures>>

(* The clock was read once, when the service was built.                    *)
LookupMissOldClock(c) ==
  /\ pc[c] = "mongo"
  /\ Found(c) => Age >= Shorter(Fresh, limit[c]) /\ Age >= Shorter(Hard, limit[c])
  /\ Goto(c, "fetching")
  /\ UNCHANGED <<now, doc, redis, captures, op, key, limit, started, val>>

LookupMiss(c) ==
  /\ pc[c] = "mongo"
  /\ Found(c) => Age >= Shorter(Fresh, limit[c]) /\ Age >= Shorter(Hard, limit[c])
  /\ Goto(c, "fetching")
  /\ started' = [started EXCEPT ![c] = now]
  /\ UNCHANGED <<now, doc, redis, captures, op, key, limit, val>>

(* The raw answer is not captured before the upsert.                       *)
FetchedUncaptured(c) ==
  /\ pc[c] = "fetching"
  /\ Goto(c, "upserting")
  /\ \E at \in {started[c], now} :
       /\ at = started[c] \/ kind = "profile"
       /\ val' = [val EXCEPT ![c] = at]
  /\ UNCHANGED <<now, doc, redis, captures, op, key, limit, started>>

(* The fetcher answered and the parser made a document of it, dated        *)
(* before the fetch, or a profile with the public fetcher's own date,      *)
(* after it.                                                               *)
Fetched(c) ==
  /\ pc[c] = "fetching"
  /\ Goto(c, "capturing")
  /\ \E at \in {started[c], now} :
       /\ at = started[c] \/ kind = "profile"
       /\ val' = [val EXCEPT ![c] = at]
  /\ UNCHANGED <<now, doc, redis, captures, op, key, limit, started>>

(* captures.insert, before the parsed document.                            *)
Capture(c) ==
  /\ pc[c] = "capturing"
  /\ captures' = captures \cup {[at |-> val[c], until |-> now + CaptureTTL]}
  /\ Goto(c, "upserting")
  /\ UNCHANGED <<now, doc, redis, op, key, limit, started, val>>

(* The document is set whatever is there, and only a fetch goes on to      *)
(* Redis.                                                                  *)
Upsert(c) ==
  /\ pc[c] = "upserting"
  /\ doc' = [at |-> val[c], via |-> op[c]]
  /\ IF op[c] = "fetch"
       THEN Goto(c, "caching") /\ UNCHANGED <<op, key, limit, started, val>>
       ELSE Leave(c)
  /\ UNCHANGED <<now, redis, captures>>

Store(c) ==
  /\ pc[c] = "caching"
  /\ redis' = [redis EXCEPT ![key[c]] = [at |-> val[c], until |-> now + RedisTTL]]
  /\ Leave(c)
  /\ UNCHANGED <<now, doc, captures>>

(* Redis cannot be reached, the fetch or the parse fails, MongoDB raises,  *)
(* or the process stops: the request is gone.                              *)
Fail(c) ==
  /\ pc[c] # "idle"
  /\ Leave(c)
  /\ UNCHANGED <<now, doc, redis, captures>>

-----------------------------------------------------------------------------
(* POST /captures *)
Upload(c) ==
  /\ pc[c] = "idle"
  /\ Goto(c, "capturing")
  /\ op' = [op EXCEPT ![c] = "upload"]
  /\ started' = [started EXCEPT ![c] = now]
  /\ val' = [val EXCEPT ![c] = now]
  /\ UNCHANGED <<now, doc, redis, captures, key, limit>>

(* CompanyService.search: a stored company of that name is returned at any *)
(* age (nothing changes); otherwise LinkedIn is asked, for a company that  *)
(* is stored too: the name is looked up in lower case, and stored without  *)
(* its suffix ...                                                          *)
Search(c) ==
  /\ kind = "company"
  /\ pc[c] = "idle"
  /\ Goto(c, "searching")
  /\ op' = [op EXCEPT ![c] = "search"]
  /\ UNCHANGED <<now, doc, redis, captures, key, limit, started, val>>

(* ... and a result goes straight to the upsert.                           *)
SearchResult(c) ==
  /\ pc[c] = "searching"
  /\ Goto(c, "upserting")
  /\ started' = [started EXCEPT ![c] = now]
  /\ val' = [val EXCEPT ![c] = now]
  /\ UNCHANGED <<now, doc, redis, captures, op, key, limit>>

-----------------------------------------------------------------------------
InFlight(c) == pc[c] \in {"fetching", "capturing", "upserting", "caching"}

(* A day passes: Redis entries and raw captures whose time is up are gone. *)
(* The document is not: its fetched_at is stored as a string, which the    *)
(* TTL index on it does not see.                                           *)
Tick ==
  /\ now < Horizon
  /\ \A c \in Callers : InFlight(c) => now - started[c] < Patience
  /\ now' = now + 1
  /\ redis' = [k \in Keys |-> IF redis[k].until <= now' THEN NoEntry ELSE redis[k]]
  /\ captures' = {r \in captures : r.until > now'}
  /\ UNCHANGED <<doc, request>>

(* Redis runs with allkeys-lru: any entry may go at any time.              *)
Evict(k) ==
  /\ redis[k] # NoEntry
  /\ redis' = [redis EXCEPT ![k] = NoEntry]
  /\ UNCHANGED <<now, doc, captures, request>>

Lookup(c) == LookupFresh(c) \/ LookupStale(c) \/ LookupMiss(c)

Proceed(c) ==
  \/ RedisHit(c) \/ RedisMiss(c)
  \/ Lookup(c)
  \/ Fetched(c) \/ Capture(c) \/ Upsert(c) \/ Store(c)
  \/ SearchResult(c)

Step ==
  \/ \E c \in Callers :
       \/ \E k \in Keys, m \in Limits : Begin(c, k, m)
       \/ Upload(c)
       \/ Search(c)
       \/ Proceed(c)
       \/ Fail(c)
  \/ Tick
  \/ \E k \in Keys : Evict(k)

Next == Step /\ UNCHANGED kind

Spec == Init /\ [][Next]_vars

-----------------------------------------------------------------------------
Document == [at : Nat, via : Via] \cup {NoDoc}

Entry == [at : Nat, until : Nat]

TypeOK ==
  /\ kind \in {"profile", "company"}
  /\ now \in Nat
  /\ doc \in Document
  /\ redis \in [Keys -> Entry]
  /\ captures \subseteq Entry
  /\ pc \in [Callers -> {"idle", "redis", "mongo", "fetching", "capturing",
                         "upserting", "caching", "searching"}]
  /\ op \in [Callers -> Via \cup {"none"}]
  /\ key \in [Callers -> Keys \cup {NoKey}]
  /\ limit \in [Callers -> Nat]
  /\ started \in [Callers -> Nat]
  /\ val \in [Callers -> Nat]

(* What Redis answers as cache_fresh is never much older than fresh_days:  *)
(* the entry was made from a fresh document by a request that was not in   *)
(* flight forever, and it expires (profile_service.py:49-63, 79-80).       *)
RedisYoung ==
  \A k \in Keys :
    redis[k] # NoEntry => now - redis[k].at < Fresh + Patience + RedisTTL

(* Once a fresher document is in MongoDB, an upload's for example, an      *)
(* older copy is answered from Redis for one TTL at most, plus the time    *)
(* the requests that carried the two were in flight                        *)
(* (routes/captures.py:46-49 does not invalidate).                         *)
StaleWindow ==
  \A k \in Keys :
    redis[k] # NoEntry /\ doc # NoDoc /\ redis[k].at < doc.at
      => redis[k].until <= doc.at + 2 * Patience + RedisTTL

(* As long as its raw capture is kept, the document has one: a crash       *)
(* between the two writes never leaves a document without its source       *)
(* (profile_service.py:75-78, routes/captures.py:46-49).                   *)
CapturedFirst ==
  doc # NoDoc /\ doc.via # "search" /\ now - doc.at < CaptureTTL
    => \E r \in captures : r.at = doc.at

(* The upsert is unconditional (storage/profiles.py:34-39), so a slow      *)
(* request may put an older document back, but only as much older as it    *)
(* was in flight.                                                          *)
NoFarRegress == [][doc # NoDoc => doc'.at >= doc.at - Patience]_vars
=============================================================================
