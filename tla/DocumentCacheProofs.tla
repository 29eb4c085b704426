------------------------- MODULE DocumentCacheProofs -------------------------
(* Safety of the document cache for any keys, callers and time limits. *)
EXTENDS DocumentCache, TLAPS

(* What a request is doing says what it carries.                           *)
Control ==
  \A c \in Callers :
    /\ pc[c] \in {"redis", "mongo", "fetching", "caching"} => op[c] = "fetch" /\ key[c] \in Keys
    /\ pc[c] = "capturing" => op[c] \in {"fetch", "upload"}
    /\ pc[c] = "searching" => op[c] = "search"
    /\ pc[c] = "upserting" => op[c] \in Via
    /\ pc[c] \in {"capturing", "upserting"} /\ op[c] = "fetch" => key[c] \in Keys

(* Every date that will be written was read lately.                        *)
Clock ==
  /\ doc.at <= now
  /\ \A c \in Callers :
       /\ InFlight(c) => started[c] <= now /\ now <= started[c] + Patience
       /\ pc[c] \in {"capturing", "upserting"} => started[c] <= val[c] /\ val[c] <= now
       /\ pc[c] = "caching" => val[c] <= now /\ started[c] - val[c] < Fresh

(* A Redis entry lives no longer than the document it was made from.       *)
Entries ==
  \A k \in Keys :
    redis[k] # NoEntry =>
      /\ now < redis[k].until
      /\ redis[k].until <= now + RedisTTL
      /\ redis[k].until < redis[k].at + Fresh + Patience + RedisTTL

(* A request about to store an outdated document has been in flight since  *)
(* the document was replaced.                                              *)
Outdated ==
  \A c \in Callers :
    pc[c] = "caching" /\ doc # NoDoc /\ val[c] < doc.at => started[c] <= doc.at + Patience

(* What is about to be upserted has its capture.                           *)
Captured ==
  /\ \A r \in captures : r.at + CaptureTTL <= r.until
  /\ \A c \in Callers :
       pc[c] = "upserting" /\ op[c] # "search" /\ now - val[c] < CaptureTTL
         => \E r \in captures : r.at = val[c]

IInv ==
  /\ TypeOK /\ Control /\ Clock /\ Entries /\ Outdated /\ Captured
  /\ StaleWindow /\ CapturedFirst

-----------------------------------------------------------------------------
(* The invariant holds at the start.                                       *)
LEMMA InitIInv == Init => IInv
  <1> SUFFICES ASSUME Init
               PROVE  IInv
    OBVIOUS
  <1>1. TypeOK
    BY DEF Init, TypeOK, Document, Entry, NoDoc, NoEntry, NoKey
  <1>2. Control /\ Outdated /\ Captured
    BY DEF Init, Control, Outdated, Captured
  <1>3. Clock
    BY DEF Init, Clock, InFlight, NoDoc
  <1>4. Entries /\ StaleWindow /\ CapturedFirst
    BY DEF Init, Entries, StaleWindow, CapturedFirst
  <1> QED
    BY <1>1, <1>2, <1>3, <1>4 DEF IInv

(* Leaving disturbs nothing: the request carries nothing any more.         *)
LEMMA LeaveKeeps ==
  ASSUME IInv, NEW c \in Callers, Leave(c), UNCHANGED <<kind, now, doc, redis, captures>>
  PROVE  IInv'
  <1>1. /\ pc' = [pc EXCEPT ![c] = "idle"]
        /\ \A d \in Callers \ {c} :
             /\ pc'[d] = pc[d] /\ op'[d] = op[d] /\ key'[d] = key[d]
             /\ started'[d] = started[d] /\ val'[d] = val[d]
        /\ pc'[c] = "idle"
    BY DEF Leave, IInv, TypeOK
  <1>2. TypeOK'
    BY DEF Leave, IInv, TypeOK
  <1>3. Control'
    BY <1>1 DEF IInv, Control
  <1>4. Clock'
    BY <1>1 DEF IInv, Clock, InFlight
  <1>5. Entries' /\ StaleWindow' /\ CapturedFirst'
    BY DEF IInv, Entries, StaleWindow, CapturedFirst
  <1>6. Outdated' /\ Captured'
    BY <1>1 DEF IInv, Outdated, Captured
  <1> QED
    BY <1>2, <1>3, <1>4, <1>5, <1>6 DEF IInv

(* A step of request c that writes nothing shared.                         *)
Private(c) ==
  /\ UNCHANGED <<now, doc, redis, captures>>
  /\ \A d \in Callers \ {c} :
       /\ pc'[d] = pc[d] /\ op'[d] = op[d] /\ key'[d] = key[d]
       /\ started'[d] = started[d] /\ val'[d] = val[d]

(* A step that writes only variables of its own request keeps it,          *)
LEMMA PrivateKeeps ==
  ASSUME IInv, TypeOK', NEW c \in Callers, Private(c),
         pc'[c] \in {"redis", "mongo", "fetching", "caching"} => op'[c] = "fetch" /\ key'[c] \in Keys,
         pc'[c] = "capturing" => op'[c] \in {"fetch", "upload"},
         pc'[c] = "searching" => op'[c] = "search",
         pc'[c] = "upserting" => op'[c] = "search",
         pc'[c] = "capturing" /\ op'[c] = "fetch" => key'[c] \in Keys,
         InFlight(c)' => started'[c] <= now /\ now <= started'[c] + Patience,
         pc'[c] \in {"capturing", "upserting"} => started'[c] <= val'[c] /\ val'[c] <= now,
         pc'[c] = "caching" => /\ val'[c] <= now /\ started'[c] - val'[c] < Fresh
                               /\ val'[c] = doc.at
  PROVE  IInv'
  <1>1. Control'
    BY DEF IInv, Control, Private, Via
  <1>2. Clock'
    BY DEF IInv, Clock, Private, InFlight
  <1>3. Entries' /\ StaleWindow' /\ CapturedFirst'
    BY DEF IInv, Entries, StaleWindow, CapturedFirst, Private
  <1>4. Outdated'
    BY DEF IInv, Outdated, Private, TypeOK, Document, NoDoc
  <1>5. Captured'
    BY DEF IInv, Captured, Private
  <1> QED
    BY <1>1, <1>2, <1>3, <1>4, <1>5 DEF IInv

(* The steps of a request up to the point where it writes.                 *)
Reads(c) ==
  \/ \E k \in Keys, m \in Limits : Begin(c, k, m)
  \/ RedisMiss(c) \/ LookupFresh(c) \/ LookupMiss(c) \/ Fetched(c)
  \/ Upload(c) \/ Search(c) \/ SearchResult(c)

(* which is what beginning, reading, missing and failing are.              *)
LEMMA ReadsKeep ==
  ASSUME IInv, NEW c \in Callers, Reads(c), kind' = kind
  PROVE  IInv'
  <1> USE CacheAssumption
  <1>1. ASSUME NEW k \in Keys, NEW m \in Limits, Begin(c, k, m) PROVE IInv'
    <2>1. TypeOK' /\ Private(c) /\ pc'[c] = "redis" /\ op'[c] = "fetch" /\ key'[c] \in Keys
      BY <1>1 DEF Begin, Goto, Private, IInv, TypeOK, Via
    <2> QED
      BY <2>1, PrivateKeeps DEF InFlight
  <1>2. CASE RedisMiss(c)
    <2>1. TypeOK' /\ Private(c) /\ pc'[c] = "mongo" /\ op'[c] = "fetch" /\ key'[c] \in Keys
      BY <1>2 DEF RedisMiss, Goto, Private, IInv, TypeOK, Control
    <2> QED
      BY <2>1, PrivateKeeps DEF InFlight
  <1>3. CASE LookupFresh(c)
    <2>1. doc.at \in Nat /\ now \in Nat /\ doc.at <= now /\ now - doc.at < Fresh
      BY <1>3 DEF LookupFresh, Age, Shorter, IInv, TypeOK, Document, NoDoc, Clock
    <2>2. /\ TypeOK' /\ Private(c) /\ pc'[c] = "caching" /\ op'[c] = "fetch" /\ key'[c] \in Keys
          /\ started'[c] = now /\ val'[c] = doc.at
      BY <1>3, <2>1 DEF LookupFresh, Goto, Private, IInv, TypeOK, Control
    <2> QED
      BY <2>1, <2>2, PrivateKeeps DEF InFlight
  <1>4. CASE LookupMiss(c)
    <2>1. /\ TypeOK' /\ Private(c) /\ pc'[c] = "fetching" /\ op'[c] = "fetch" /\ key'[c] \in Keys
          /\ started'[c] = now /\ now \in Nat
      BY <1>4 DEF LookupMiss, Goto, Private, IInv, TypeOK, Control
    <2> QED
      BY <2>1, PrivateKeeps DEF InFlight
  <1>5. CASE Fetched(c)
    <2>1. /\ TypeOK' /\ Private(c) /\ pc'[c] = "capturing" /\ op'[c] = "fetch" /\ key'[c] \in Keys
          /\ started'[c] = started[c] /\ val'[c] \in {started[c], now}
      BY <1>5 DEF Fetched, Goto, Private, IInv, TypeOK, Control
    <2>2. /\ started[c] <= now /\ now <= started[c] + Patience
          /\ started[c] \in Nat /\ now \in Nat
      BY <1>5 DEF Fetched, IInv, Clock, InFlight, TypeOK
    <2> QED
      BY <2>1, <2>2, PrivateKeeps
  <1>6. CASE Upload(c)
    <2>1. /\ TypeOK' /\ Private(c) /\ pc'[c] = "capturing" /\ op'[c] = "upload"
          /\ started'[c] = now /\ val'[c] = now /\ now \in Nat
      BY <1>6 DEF Upload, Goto, Private, IInv, TypeOK, Via
    <2> QED
      BY <2>1, PrivateKeeps
  <1>7. CASE Search(c)
    <2>1. TypeOK' /\ Private(c) /\ pc'[c] = "searching" /\ op'[c] = "search"
      BY <1>7 DEF Search, Goto, Private, IInv, TypeOK, Via
    <2> QED
      BY <2>1, PrivateKeeps DEF InFlight
  <1>8. CASE SearchResult(c)
    <2>1. /\ TypeOK' /\ Private(c) /\ pc'[c] = "upserting" /\ op'[c] = "search"
          /\ started'[c] = now /\ val'[c] = now /\ now \in Nat
      BY <1>8 DEF SearchResult, Goto, Private, IInv, TypeOK, Control
    <2> QED
      BY <2>1, PrivateKeeps
  <1> QED
    BY <1>1, <1>2, <1>3, <1>4, <1>5, <1>6, <1>7, <1>8 DEF Reads

-----------------------------------------------------------------------------
(* The steps that write *)

(* Inserting a capture keeps it,                                           *)
LEMMA CaptureKeeps ==
  ASSUME IInv, NEW c \in Callers, Capture(c), kind' = kind
  PROVE  IInv'
  <1> USE CacheAssumption
  <1> DEFINE new == [at |-> val[c], until |-> now + CaptureTTL]
  <1>1. /\ captures' = captures \cup {new} /\ new \in Entry /\ pc'[c] = "upserting"
        /\ \A d \in Callers \ {c} : pc'[d] = pc[d]
        /\ UNCHANGED <<now, doc, redis, op, key, started, val>>
    BY DEF Capture, Goto, IInv, TypeOK, Entry
  <1>2. TypeOK'
    BY <1>1 DEF Capture, Goto, IInv, TypeOK
  <1>3. Control'
    BY <1>1 DEF Capture, IInv, Control, Via
  <1>4. /\ started[c] <= now /\ now <= started[c] + Patience
        /\ started[c] <= val[c] /\ val[c] <= now
    BY DEF Capture, IInv, Clock, InFlight
  <1>5. Clock'
    BY <1>1, <1>4 DEF IInv, Clock, InFlight
  <1>6. Entries' /\ StaleWindow' /\ Outdated'
    BY <1>1 DEF IInv, Entries, StaleWindow, Outdated
  <1>7. CapturedFirst'
    BY <1>1 DEF IInv, CapturedFirst
  <1>8. new.at = val[c] /\ new.at + CaptureTTL <= new.until
    BY <1>4 DEF IInv, TypeOK
  <1>9. Captured'
    BY <1>1, <1>8 DEF IInv, Captured
  <1> QED
    BY <1>2, <1>3, <1>5, <1>6, <1>7, <1>9 DEF IInv

(* the upsert, after which requests in flight may carry an outdated copy,  *)
LEMMA UpsertKeeps ==
  ASSUME IInv, NEW c \in Callers, Upsert(c), kind' = kind
  PROVE  IInv'
  <1> USE CacheAssumption
  <1>1. /\ doc' = [at |-> val[c], via |-> op[c]] /\ doc'.at = val[c] /\ doc'.via = op[c]
        /\ val[c] \in Nat /\ op[c] \in Via /\ now \in Nat
        /\ UNCHANGED <<now, redis, captures>>
    BY DEF Upsert, IInv, TypeOK, Control
  <1>2. started[c] <= val[c] /\ val[c] <= now /\ now <= val[c] + Patience
    BY DEF Upsert, IInv, Clock, InFlight, TypeOK
  <1>3. \A d \in Callers \ {c} :
          /\ pc'[d] = pc[d] /\ op'[d] = op[d] /\ key'[d] = key[d]
          /\ started'[d] = started[d] /\ val'[d] = val[d]
    BY DEF Upsert, Goto, Leave, IInv, TypeOK
  <1>4. \/ pc'[c] = "idle"
        \/ /\ pc'[c] = "caching" /\ op'[c] = "fetch" /\ key'[c] \in Keys
           /\ started'[c] = started[c] /\ val'[c] = val[c]
    BY DEF Upsert, Goto, Leave, IInv, TypeOK, Control
  <1>5. TypeOK'
    <2>1. doc' \in Document
      BY <1>1 DEF Document
    <2>2. CASE op[c] = "fetch"
      BY <2>1, <2>2 DEF Upsert, Goto, IInv, TypeOK
    <2>3. CASE op[c] # "fetch"
      <3>1. Leave(c) /\ UNCHANGED <<now, redis, captures>>
        BY <2>3 DEF Upsert
      <3> QED
        BY <2>1, <3>1 DEF Leave, IInv, TypeOK
    <2> QED
      BY <2>2, <2>3
  <1>6. Control'
    BY <1>3, <1>4 DEF IInv, Control
  <1>7. Clock'
    <2>1. /\ started[c] - val[c] < Fresh /\ started[c] \in Nat
          /\ started[c] <= now /\ now <= started[c] + Patience
      BY <1>2 DEF Upsert, IInv, TypeOK, Clock, InFlight
    <2> QED
      BY <1>1, <1>2, <1>3, <1>4, <2>1 DEF IInv, Clock, InFlight
  <1>8. Entries'
    BY <1>1 DEF IInv, Entries
  <1>9. StaleWindow'
    <2> SUFFICES ASSUME NEW k \in Keys, redis[k] # NoEntry
                 PROVE  redis[k].until <= val[c] + 2 * Patience + RedisTTL
      BY <1>1 DEF StaleWindow
    <2>1. redis[k].until <= now + RedisTTL /\ redis[k].until \in Nat
      BY DEF IInv, Entries, TypeOK, Entry
    <2> QED
      BY <1>1, <1>2, <2>1
  <1>10. CapturedFirst'
    BY <1>1 DEF Upsert, IInv, Captured, CapturedFirst
  <1>11. Outdated'
    <2> SUFFICES ASSUME NEW d \in Callers, pc'[d] = "caching", val'[d] < val[c]
                 PROVE  started'[d] <= val[c] + Patience
      BY <1>1 DEF Outdated
    <2>1. d # c
      BY <1>1, <1>4
    <2>2. started[d] <= now /\ started[d] \in Nat
      BY <1>3, <2>1 DEF IInv, Clock, InFlight, TypeOK
    <2> QED
      BY <1>1, <1>2, <1>3, <2>1, <2>2
  <1>12. Captured'
    BY <1>1, <1>3, <1>4 DEF IInv, Captured
  <1> QED
    BY <1>5, <1>6, <1>7, <1>8, <1>9, <1>10, <1>11, <1>12 DEF IInv

(* setting the Redis entry from such a copy or from a new one,             *)
LEMMA StoreKeeps ==
  ASSUME IInv, NEW c \in Callers, Store(c), kind' = kind
  PROVE  IInv'
  <1> USE CacheAssumption
  <1> DEFINE entry == [at |-> val[c], until |-> now + RedisTTL]
  <1>1. /\ redis' = [redis EXCEPT ![key[c]] = entry] /\ key[c] \in Keys
        /\ entry \in Entry /\ now \in Nat /\ val[c] \in Nat /\ started[c] \in Nat
        /\ UNCHANGED <<now, doc, captures>>
    BY DEF Store, IInv, TypeOK, Entry, Control
  <1>2. /\ started[c] <= now /\ now <= started[c] + Patience
        /\ val[c] <= now /\ started[c] - val[c] < Fresh
    BY DEF Store, IInv, Clock, InFlight
  <1>3. /\ \A d \in Callers \ {c} :
             /\ pc'[d] = pc[d] /\ op'[d] = op[d] /\ key'[d] = key[d]
             /\ started'[d] = started[d] /\ val'[d] = val[d]
        /\ pc'[c] = "idle"
    BY DEF Store, Leave, IInv, TypeOK
  <1>4. TypeOK'
    BY <1>1 DEF Store, Leave, IInv, TypeOK
  <1>5. Control' /\ Clock' /\ Outdated' /\ Captured' /\ CapturedFirst'
    BY <1>1, <1>3 DEF IInv, Control, Clock, InFlight, Outdated, Captured, CapturedFirst
  <1>6. \A k \in Keys : redis'[k] = IF k = key[c] THEN entry ELSE redis[k]
    BY <1>1 DEF IInv, TypeOK
  <1>7. /\ now < entry.until /\ entry.until <= now + RedisTTL
        /\ entry.until < entry.at + Fresh + Patience + RedisTTL
    BY <1>1, <1>2
  <1>8. Entries'
    BY <1>1, <1>6, <1>7 DEF IInv, Entries
  <1>9. doc # NoDoc /\ entry.at < doc.at => entry.until <= doc.at + 2 * Patience + RedisTTL
    <2>1. doc.at \in Nat
      BY DEF IInv, TypeOK, Document, NoDoc
    <2> QED
      BY <1>1, <1>2, <2>1 DEF Store, IInv, Outdated
  <1>10. StaleWindow'
    BY <1>1, <1>6, <1>9 DEF IInv, StaleWindow
  <1> QED
    BY <1>4, <1>5, <1>8, <1>10 DEF IInv

(* a day going by, with what expires,                                      *)
LEMMA TickKeeps ==
  ASSUME IInv, Tick, kind' = kind
  PROVE  IInv'
  <1> USE CacheAssumption
  <1>1. /\ now' = now + 1 /\ now \in Nat
        /\ UNCHANGED <<doc, pc, op, key, started, val>>
        /\ captures' \subseteq captures
        /\ \A r \in captures : r.until > now + 1 => r \in captures'
        /\ \A k \in Keys :
             redis'[k] = IF redis[k].until <= now + 1 THEN NoEntry ELSE redis[k]
    BY DEF Tick, request, IInv, TypeOK
  <1>2. TypeOK'
    BY <1>1 DEF Tick, request, IInv, TypeOK, Entry, NoEntry
  <1>3. Control' /\ Outdated'
    BY <1>1 DEF IInv, Control, Outdated
  <1>4. Clock'
    <2>1. doc.at \in Nat /\ \A d \in Callers : started[d] \in Nat /\ val[d] \in Nat
      BY DEF IInv, TypeOK, Document, NoDoc
    <2>2. \A d \in Callers : InFlight(d) => now - started[d] < Patience
      BY DEF Tick
    <2> QED
      BY <1>1, <2>1, <2>2 DEF IInv, Clock, InFlight
  <1>5. Entries'
    <2> SUFFICES ASSUME NEW k \in Keys, redis'[k] # NoEntry
                 PROVE  /\ now + 1 < redis[k].until
                        /\ redis[k].until <= now + 1 + RedisTTL
                        /\ redis[k].until < redis[k].at + Fresh + Patience + RedisTTL
      BY <1>1 DEF Entries
    <2>1. redis[k].until \in Nat
      BY DEF IInv, TypeOK, Entry
    <2> QED
      BY <1>1, <2>1 DEF IInv, Entries
  <1>6. StaleWindow'
    BY <1>1 DEF IInv, StaleWindow
  <1>7. \A r \in captures : r.at \in Nat /\ r.until \in Nat /\ r.at + CaptureTTL <= r.until
    BY DEF IInv, TypeOK, Entry, Captured
  <1>8. CapturedFirst'
    <2> SUFFICES ASSUME doc' # NoDoc, doc'.via # "search", now' - doc'.at < CaptureTTL
                 PROVE  \E r \in captures' : r.at = doc'.at
      BY DEF CapturedFirst
    <2>1. doc.at \in Nat
      BY DEF IInv, TypeOK, Document, NoDoc
    <2>2. PICK r \in captures : r.at = doc.at
      BY <1>1, <2>1 DEF IInv, CapturedFirst
    <2> QED
      BY <1>1, <1>7, <2>1, <2>2
  <1>9. Captured'
    <2>1. ASSUME NEW d \in Callers, pc'[d] = "upserting", op'[d] # "search",
                 now' - val'[d] < CaptureTTL
          PROVE  \E r \in captures' : r.at = val'[d]
      <3>1. val[d] \in Nat
        BY DEF IInv, TypeOK
      <3>2. PICK r \in captures : r.at = val[d]
        BY <1>1, <2>1, <3>1 DEF IInv, Captured
      <3> QED
        BY <1>1, <1>7, <2>1, <3>1, <3>2
    <2>2. \A r \in captures' : r.at + CaptureTTL <= r.until
      BY <1>1, <1>7
    <2> QED
      BY <2>1, <2>2 DEF Captured
  <1> QED
    BY <1>2, <1>3, <1>4, <1>5, <1>6, <1>8, <1>9 DEF IInv

(* and an eviction.                                                        *)
LEMMA EvictKeeps ==
  ASSUME IInv, NEW k \in Keys, Evict(k), kind' = kind
  PROVE  IInv'
  <1>1. /\ UNCHANGED <<now, doc, captures, pc, op, key, limit, started, val>>
        /\ redis' \in [Keys -> Entry]
        /\ \A j \in Keys : redis'[j] = NoEntry \/ redis'[j] = redis[j]
    BY DEF Evict, request, IInv, TypeOK, Entry, NoEntry
  <1>2. TypeOK' /\ Control' /\ Clock' /\ Outdated' /\ Captured' /\ CapturedFirst'
    BY <1>1 DEF IInv, TypeOK, Control, Clock, InFlight, Outdated, Captured, CapturedFirst
  <1>3. Entries' /\ StaleWindow'
    BY <1>1 DEF IInv, Entries, StaleWindow
  <1> QED
    BY <1>2, <1>3 DEF IInv

(* Every step keeps the invariant.                                         *)
LEMMA StepIInv == IInv /\ [Next]_vars => IInv'
  <1> SUFFICES ASSUME IInv, [Next]_vars
               PROVE  IInv'
    OBVIOUS
  <1>0. kind' = kind
    BY DEF Next, vars
  <1>1. ASSUME NEW c \in Callers, RedisHit(c) \/ LookupStale(c) \/ Fail(c)
        PROVE  IInv'
    <2>1. /\ Leave(c) /\ UNCHANGED <<kind, now, doc, redis, captures>>
      BY <1>0, <1>1 DEF RedisHit, LookupStale, Fail, IInv, TypeOK
    <2> QED
      BY <2>1, LeaveKeeps
  <1>2. ASSUME NEW c \in Callers, Reads(c) PROVE IInv'
    BY <1>0, <1>2, ReadsKeep
  <1>3. ASSUME NEW c \in Callers, Capture(c) PROVE IInv'
    BY <1>0, <1>3, CaptureKeeps
  <1>4. ASSUME NEW c \in Callers, Upsert(c) PROVE IInv'
    BY <1>0, <1>4, UpsertKeeps
  <1>5. ASSUME NEW c \in Callers, Store(c) PROVE IInv'
    BY <1>0, <1>5, StoreKeeps
  <1>6. CASE Tick
    BY <1>0, <1>6, TickKeeps
  <1>7. ASSUME NEW k \in Keys, Evict(k) PROVE IInv'
    BY <1>0, <1>7, EvictKeeps
  <1>8. CASE UNCHANGED vars
    BY <1>8 DEF vars, request, IInv, TypeOK, Control, Clock, InFlight, Entries, Outdated,
                Captured, StaleWindow, CapturedFirst
  <1> QED
    BY <1>1, <1>2, <1>3, <1>4, <1>5, <1>6, <1>7, <1>8 DEF Next, Step, Proceed, Lookup, Reads

-----------------------------------------------------------------------------
(* The cache's state keeps its shape, for any keys, callers and limits.    *)
THEOREM CacheTypeOK == Spec => []TypeOK
  <1>1. IInv => TypeOK
    BY DEF IInv
  <1> QED
    BY InitIInv, StepIInv, <1>1, PTL DEF Spec

(* What Redis answers as cache_fresh is younger than fresh_days plus one   *)
(* TTL plus the time a request is in flight (profile_service.py:49-63).    *)
THEOREM CacheRedisYoung == Spec => []RedisYoung
  <1>1. IInv => RedisYoung
    <2> SUFFICES ASSUME IInv, NEW k \in Keys, redis[k] # NoEntry
                 PROVE  now - redis[k].at < Fresh + Patience + RedisTTL
      BY DEF RedisYoung
    <2>1. redis[k].at \in Nat /\ redis[k].until \in Nat /\ now \in Nat
      BY DEF IInv, TypeOK, Entry
    <2> QED
      BY <2>1, CacheAssumption DEF IInv, Entries
  <1> QED
    BY InitIInv, StepIInv, <1>1, PTL DEF Spec

(* An upload is not seen by the readers of an older Redis entry for one    *)
(* TTL and two requests' time at most (routes/captures.py:46-49).          *)
THEOREM CacheStaleWindow == Spec => []StaleWindow
  <1>1. IInv => StaleWindow
    BY DEF IInv
  <1> QED
    BY InitIInv, StepIInv, <1>1, PTL DEF Spec

(* While raw captures are kept, a crash between the two writes leaves no   *)
(* document without its capture (profile_service.py:75-78).                *)
THEOREM CacheCapturedFirst == Spec => []CapturedFirst
  <1>1. IInv => CapturedFirst
    BY DEF IInv
  <1> QED
    BY InitIInv, StepIInv, <1>1, PTL DEF Spec

(* The unconditional upsert takes a document back by no more than the time *)
(* a request is in flight (storage/profiles.py:34-39).                     *)
THEOREM CacheNoFarRegress == Spec => NoFarRegress
  <1>1. IInv /\ [Next]_vars => [doc # NoDoc => doc'.at >= doc.at - Patience]_vars
    <2> SUFFICES ASSUME IInv, [Next]_vars
                 PROVE  doc'.at >= doc.at - Patience
      OBVIOUS
    <2>1. doc.at \in Nat /\ now \in Nat /\ doc.at <= now
      BY DEF IInv, TypeOK, Document, NoDoc, Clock
    <2>2. CASE doc' = doc
      BY <2>1, <2>2, CacheAssumption
    <2>3. ASSUME NEW c \in Callers, Upsert(c) PROVE doc'.at >= doc.at - Patience
      <3>1. doc'.at = val[c] /\ val[c] \in Nat /\ started[c] \in Nat
        BY <2>3 DEF Upsert, IInv, TypeOK
      <3>2. now <= started[c] + Patience /\ started[c] <= val[c]
        BY <2>3 DEF Upsert, IInv, Clock, InFlight
      <3> QED
        BY <2>1, <3>1, <3>2, CacheAssumption
    <2> QED
      BY <2>2, <2>3
         DEF Next, Step, Proceed, Lookup, Begin, Upload, Search, RedisHit, RedisMiss, LookupFresh,
             LookupStale, LookupMiss, Fetched, Capture, Store, SearchResult, Fail, Tick, Evict,
             vars
  <1> QED
    BY InitIInv, StepIInv, <1>1, PTL DEF Spec, NoFarRegress
=============================================================================
