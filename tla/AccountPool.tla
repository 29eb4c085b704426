----------------------------- MODULE AccountPool -----------------------------
(***************************************************************************)
(* The rotating pool of LinkedIn accounts (fetcher/app/pool) with the      *)
(* LoginFetcher calls it dispatches (fetcher/app/fetchers/login.py).       *)
(*                                                                         *)
(* The fetcher is one asyncio process: code between two awaits that really *)
(* suspend is atomic.  The pool's own lock is never held across a          *)
(* suspension, so acquire is one step, and release runs in the same step   *)
(* as the end of the call it settles.  What interleaves is everything in   *)
(* between: signing in, waiting for the account's LoginFetcher lock, the   *)
(* pacing sleep and the request itself.                                    *)
(***************************************************************************)
EXTENDS Integers, FiniteSets

CONSTANTS NumAccounts,  \* accounts.json holds this many accounts
          Callers,      \* concurrent calls into the PooledFetcher
          Cap,          \* daily_cap of each account
          Endpoints,    \* endpoints fetch_profile tries in turn (3 in the code)
          Cooldown,     \* _COOLDOWN_MINUTES, in clock ticks
          ResetsDaily   \* TRUE when something calls reset_daily_counts

Accounts == 1 .. NumAccounts     \* in file order: acquire iterates in it

ASSUME PoolAssumption ==
  /\ NumAccounts \in Nat
  /\ IsFiniteSet(Callers)
  /\ "nobody" \notin Callers
  /\ Cap \in [Accounts -> Nat]
  /\ Endpoints \in Nat \ {0}
  /\ Cooldown \in Nat
  /\ ResetsDaily \in BOOLEAN

VARIABLES used,      \* daily_used
          state,     \* Account.state
          since,     \* ticks since last_challenge_at, counted up to Cooldown
                     \* (Never while last_challenge_at is None)
          holder,    \* who holds each account's LoginFetcher._lock
          pc,        \* where each call is
          acct,      \* the account the call was given
          op,        \* which operation the call performs
          left,      \* endpoints the call has not tried yet
          lastErr    \* fetch_profile's last_err

pool == <<used, state, since>>
call == <<pc, acct, op, left, lastErr>>
vars == <<pool, holder, call>>

None == 0    \* no account
Never == Cooldown + 1
Nobody == "nobody"
Op == {"profile", "company"}

(* A FetcherError, by the branch its text takes in release: "rate" when it  *)
(* holds rate or 429, "challenge" when it holds challenge or captcha,      *)
(* "plain" when neither.  "walled" is an AccountChallengedError whose text *)
(* holds neither: "stuck at .../login", "session rejected".                *)
Error == {"rate", "challenge", "walled", "plain"}
NoError == "none"

Init ==
  /\ used = [a \in Accounts |-> 0]
  /\ state = [a \in Accounts |-> "active"]
  /\ since = [a \in Accounts |-> Never]
  /\ holder = [a \in Accounts |-> Nobody]
  /\ pc = [c \in Callers |-> "idle"]
  /\ acct = [c \in Callers |-> None]
  /\ op = [c \in Callers |-> "none"]
  /\ left = [c \in Callers |-> 0]
  /\ lastErr = [c \in Callers |-> NoError]

-----------------------------------------------------------------------------
(* AccountPool.acquire *)

(* A slip of the scan: looking for the "cooled" of the AccountState        *)
(* literal (domain/account.py:8).                                          *)
WokenCooled ==
  [a \in Accounts |->
     IF state[a] = "cooled" /\ since[a] >= Cooldown THEN "active" ELSE state[a]]

(* Whoever is not active and has rested is woken, challenged or not.       *)
WokenAnyRest ==
  [a \in Accounts |-> IF since[a] >= Cooldown THEN "active" ELSE state[a]]

(* Every cooled account whose time has come is woken by the scan, chosen   *)
(* or not.                                                                 *)
Woken == [a \in Accounts |->
            IF state[a] = "cooldown" /\ since[a] >= Cooldown
              THEN "active" ELSE state[a]]

(* A slip of the cap check: <= for <.                                      *)
EligibleAtCap == {a \in Accounts : Woken[a] = "active" /\ used[a] <= Cap[a]}

Eligible == {a \in Accounts : Woken[a] = "active" /\ used[a] < Cap[a]}

(* The first account of the file that will do, whatever its use.           *)
LighterFirst(a, b) == a <= b

(* Smallest used/cap ratio; the strict comparison keeps the first of equals *)
Lighter(a, b) ==
  \/ used[a] * Cap[b] < used[b] * Cap[a]
  \/ used[a] * Cap[b] = used[b] * Cap[a] /\ a <= b

Best(a) == a \in Eligible /\ \A b \in Eligible : Lighter(a, b)

(* fetch_profile or fetch_company gets an account.                         *)
Acquire(c, o) ==
  /\ pc[c] = "idle"
  /\ \E a \in Accounts :
       /\ Best(a)
       /\ acct' = [acct EXCEPT ![c] = a]
  /\ state' = Woken
  /\ pc' = [pc EXCEPT ![c] = "fetching"]
  /\ op' = [op EXCEPT ![c] = o]
  /\ left' = [left EXCEPT ![c] = IF o = "profile" THEN Endpoints ELSE 1]
  /\ lastErr' = [lastErr EXCEPT ![c] = NoError]
  /\ UNCHANGED <<used, since, holder>>

(* search_companies: LoginFetcher returns [] without a request, so acquire *)
(* and the release that charges one success happen in one step.            *)
Search(c) ==
  /\ pc[c] = "idle"
  /\ \E a \in Accounts :
       /\ Best(a)
       /\ used' = [used EXCEPT ![a] = @ + 1]
  /\ state' = Woken
  /\ UNCHANGED <<since, holder, call>>

(* FetcherUnavailableError: the scan still woke the accounts it passed.    *)
Unavailable(c) ==
  /\ pc[c] = "idle"
  /\ Eligible = {}
  /\ state' = Woken
  /\ UNCHANGED <<used, since, holder, call>>

-----------------------------------------------------------------------------
(* AccountPool.release and the end of a call *)

Hangup(c) ==
  /\ pc' = [pc EXCEPT ![c] = "idle"]
  /\ acct' = [acct EXCEPT ![c] = None]
  /\ op' = [op EXCEPT ![c] = "none"]
  /\ left' = [left EXCEPT ![c] = 0]
  /\ lastErr' = [lastErr EXCEPT ![c] = NoError]

(* The lock is forgotten on the way out.                                   *)
UnlockForgotten(c) == UNCHANGED holder

Unlock(c) == holder' = [a \in Accounts |-> IF holder[a] = c THEN Nobody ELSE holder[a]]

ReleaseSuccess(a) ==
  /\ used' = [used EXCEPT ![a] = @ + 1]
  /\ UNCHANGED <<state, since>>

(* The time is noted for every error, not only for the two that count.     *)
ReleaseFailureStamped(a, e) ==
  /\ state' = CASE e = "rate"      -> [state EXCEPT ![a] = "cooldown"]
                [] e = "challenge" -> [state EXCEPT ![a] = "challenged"]
                [] OTHER           -> state
  /\ since' = [since EXCEPT ![a] = 0]
  /\ UNCHANGED used

ReleaseFailure(a, e) ==
  /\ state' = CASE e = "rate"      -> [state EXCEPT ![a] = "cooldown"]
                [] e = "challenge" -> [state EXCEPT ![a] = "challenged"]
                [] OTHER           -> state
  /\ IF e \in {"rate", "challenge"}
       THEN since' = [since EXCEPT ![a] = 0]
       ELSE UNCHANGED since
  /\ UNCHANGED used

(* _execute_with_pool passes the error on and the call ends.               *)
Fail(c, e) ==
  /\ ReleaseFailure(acct[c], e)
  /\ Hangup(c)

(* fetch_profile goes on with the next endpoint.                           *)
NextEndpoint(c, rest, e) ==
  /\ pc' = [pc EXCEPT ![c] = "fetching"]
  /\ left' = [left EXCEPT ![c] = rest]
  /\ lastErr' = [lastErr EXCEPT ![c] = e]
  /\ UNCHANGED <<pool, acct, op>>

(* An endpoint raised e; `gone' when its text holds 410 or 404.            *)
Raise(c, rest, e, gone) ==
  IF gone /\ rest > 0 THEN NextEndpoint(c, rest, e) ELSE Fail(c, e)

-----------------------------------------------------------------------------
(* LoginFetcher._voyager_get and fetch_profile *)

(* Signing in, before the lock, raises: nothing was charged.               *)
LoginFails(c, e, gone) ==
  /\ pc[c] = "fetching"
  /\ Raise(c, left[c] - 1, e, gone)
  /\ UNCHANGED holder

(* The account's lock is free: take it, pace, charge one request.          *)
Charge(c) ==
  /\ pc[c] = "fetching"
  /\ holder[acct[c]] = Nobody
  /\ holder' = [holder EXCEPT ![acct[c]] = c]
  /\ used' = [used EXCEPT ![acct[c]] = @ + 1]
  /\ left' = [left EXCEPT ![c] = @ - 1]
  /\ pc' = [pc EXCEPT ![c] = "requesting"]
  /\ UNCHANGED <<state, since, acct, op, lastErr>>

Succeed(c) ==
  /\ pc[c] = "requesting"
  /\ Unlock(c)
  /\ ReleaseSuccess(acct[c])
  /\ Hangup(c)

RequestFails(c, e, gone) ==
  /\ pc[c] = "requesting"
  /\ Unlock(c)
  /\ Raise(c, left[c], e, gone)

(* HTTP 200 whose body carries status 410 or 404: only fetch_profile looks *)
(* at it, and after the last endpoint it raises last_err, or an error that *)
(* quotes the identifier.                                                  *)
Gone(c) ==
  /\ pc[c] = "requesting"
  /\ op[c] = "profile"
  /\ Unlock(c)
  /\ IF left[c] > 0
       THEN NextEndpoint(c, left[c], lastErr[c])
       ELSE IF lastErr[c] # NoError
         THEN Fail(c, lastErr[c])
         ELSE \E e \in Error \ {"walled"} : Fail(c, e)

(* Any other exception (Playwright, an assertion) skips release.           *)
Crash(c) ==
  /\ pc[c] # "idle"
  /\ Unlock(c)
  /\ Hangup(c)
  /\ UNCHANGED pool

-----------------------------------------------------------------------------
Tick ==
  /\ \E a \in Accounts : since[a] < Cooldown
  /\ since' = [a \in Accounts |->
                 IF since[a] < Cooldown THEN since[a] + 1 ELSE since[a]]
  /\ UNCHANGED <<used, state, holder, call>>

(* reset_daily_counts, which nothing in the shipped program calls.         *)
ResetDailyCounts ==
  /\ ResetsDaily
  /\ used' = [a \in Accounts |-> 0]
  /\ UNCHANGED <<state, since, holder, call>>

Scan(c) ==
  \/ \E o \in Op : Acquire(c, o)
  \/ Search(c)
  \/ Unavailable(c)

Ends(c) ==
  \/ Succeed(c)
  \/ \E e \in Error, gone \in BOOLEAN : RequestFails(c, e, gone)
  \/ Gone(c)

Next ==
  \/ \E c \in Callers :
       \/ Scan(c)
       \/ Charge(c)
       \/ \E e \in Error, gone \in BOOLEAN : LoginFails(c, e, gone)
       \/ Ends(c)
       \/ Crash(c)
  \/ Tick
  \/ ResetDailyCounts

Spec == Init /\ [][Next]_vars

(* A request has a timeout, a lock waiter is served in FIFO order and time *)
(* passes.                                                                 *)
Fairness ==
  /\ \A c \in Callers : SF_vars(Charge(c)) /\ WF_vars(Ends(c))
  /\ WF_vars(Tick)

(* The same while requests keep coming in.                                 *)
BusySpec == Spec /\ Fairness /\ WF_vars(\E c \in Callers : Scan(c))

-----------------------------------------------------------------------------
TypeOK ==
  /\ used \in [Accounts -> Nat]
  /\ state \in [Accounts -> {"active", "cooldown", "challenged"}]
  /\ since \in [Accounts -> 0 .. Never]
  /\ holder \in [Accounts -> Callers \cup {Nobody}]
  /\ pc \in [Callers -> {"idle", "fetching", "requesting"}]
  /\ acct \in [Callers -> Accounts \cup {None}]
  /\ op \in [Callers -> Op \cup {"none"}]
  /\ left \in [Callers -> 0 .. Endpoints]
  /\ lastErr \in [Callers -> Error \cup {NoError}]

(* An account in rotation has sat out its whole cooldown: whatever calls   *)
(* were in flight when the 429 arrived, none of their endings puts it back *)
(* early (account_pool.py:74-78, 102-122).                                 *)
ActiveIsRested ==
  \A a \in Accounts : state[a] = "active" => since[a] >= Cooldown

(* The charges that calls on account a may still make.                     *)
Outstanding(a) ==
  {p \in Callers \X (1 .. Endpoints + 1) : acct[p[1]] = a /\ p[2] <= left[p[1]] + 1}

CallCost == Endpoints + 1

(* How far beyond its cap an account can get: less than one more round of  *)
(* calls by every caller (account_pool.py:80, 105; login.py:373).          *)
UsedBounded ==
  \A a \in Accounts :
    used[a] <= IF Cap[a] = 0 THEN 0 ELSE Cap[a] - 1 + Cardinality(Callers) * CallCost

(* Choosing the smallest ratio keeps an account within one round of calls  *)
(* of every account that was never out of rotation, whatever the callers   *)
(* interleave (account_pool.py:83-86).  It is a property of the scan the   *)
(* code has, not of the one the documents tell of, "Weighted random        *)
(* selection" (DECISIONS.md:56, with the weights of README.md:241-246),    *)
(* under which no such bound would hold: the code reads no weight.         *)
Balanced ==
  \A a \in Accounts, b \in {x \in Accounts : since[x] = Never} :
    (used[a] + Cardinality(Outstanding(a))) * Cap[b]
      <= used[b] * Cap[a] + Cardinality(Callers) * CallCost * Cap[b]

(* Per account, the pool is an admission ledger: the cap is checked when a *)
(* call is admitted and an admitted call makes at most CallCost charges.   *)
Ledger(a) == INSTANCE AdmissionLedger
               WITH PerCall <- CallCost, Cap <- Cap[a],
                    used <- used[a], permits <- Outstanding(a)

LedgerRefined ==
  /\ \A a \in Accounts : Ledger(a)!Init
  /\ [][\A a \in Accounts : [Ledger(a)!Next]_(Ledger(a)!vars)]_vars

(* Every call that got an account gives its lock back and ends.            *)
CallsEnd == \A c \in Callers : pc[c] # "idle" ~> pc[c] = "idle"

(* While requests come in, a rate-limited account returns to rotation or   *)
(* is found challenged: it is never forgotten (account_pool.py:74-78).     *)
CooldownEnds ==
  \A a \in Accounts : state[a] = "cooldown" ~> state[a] # "cooldown"

(* A challenged account "needs human intervention" (fetchers/base.py:22),  *)
(* and only one thing takes the mark off: a call admitted before it ends   *)
(* with a rate-limit text and turns it into a cooldown, never straight     *)
(* into rotation (account_pool.py:109-122).                                *)
RevivedByLateCall ==
  [][\A a \in Accounts :
       state[a] = "challenged" /\ state'[a] # "challenged" =>
         /\ state'[a] = "cooldown"
         /\ \E c \in Callers : acct[c] = a /\ pc[c] # "idle" /\ pc'[c] = "idle"]_vars
=============================================================================
