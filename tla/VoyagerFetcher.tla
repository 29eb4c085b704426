--------------------------- MODULE VoyagerFetcher ---------------------------
(***************************************************************************)
(* VoyagerFetcher._get (fetcher/app/fetchers/voyager.py) under concurrent  *)
(* calls on its single account, with the classification and retry policy   *)
(* of fetcher/app/scraping/retry.py.                                       *)
(*                                                                         *)
(* The account is looked at once, when a call starts; the loop then sends  *)
(* up to MaxAttempts requests, each under the account lock, with the       *)
(* back-off sleep outside the lock.                                        *)
(***************************************************************************)
EXTENDS Integers, FiniteSets

CONSTANTS Callers,      \* concurrent calls into the fetcher
          Cap,          \* linkedin_daily_cap
          MaxAttempts,  \* RetryPolicy.max_attempts (4 in the code)
          Statuses      \* HTTP statuses LinkedIn may answer with

ASSUME VoyagerAssumption ==
  /\ IsFiniteSet(Callers)
  /\ "nobody" \notin Callers
  /\ Cap \in Nat
  /\ MaxAttempts \in Nat \ {0}
  /\ Statuses \subseteq Nat

VARIABLES used,      \* account.daily_used
          state,     \* account.state
          holder,    \* who holds self._lock
          pc,        \* where each call is
          attempt,   \* requests the call has sent
          late       \* history: requests sent although the account was
                     \* already known to be dead or blocked

vars == <<used, state, holder, pc, attempt, late>>

Nobody == "nobody"
NoAnswer == 0        \* the request raised: no status

-----------------------------------------------------------------------------
(* scraping/retry.py *)

classify_error(status) ==
  CASE status = 429               -> "rate_limited"
    [] status \in {401, 403}      -> "account_dead"
    [] status = 999               -> "linkedin_block"
    [] status \in 300 .. 399      -> "account_dead"
    [] status \in 500 .. 599      -> "transient"
    [] status = NoAnswer          -> "transient"
    [] OTHER                      -> "permanent"

(* A slip of the policy: insisting after a block.                          *)
should_retry_a_block(class, n) ==
  /\ n < MaxAttempts
  /\ class \in {"rate_limited", "transient", "linkedin_block"}

should_retry(class, n) ==
  /\ n < MaxAttempts
  /\ class \in {"rate_limited", "transient"}

-----------------------------------------------------------------------------
Init ==
  /\ used = 0
  /\ state = "active"
  /\ holder = Nobody
  /\ pc = [c \in Callers |-> "idle"]
  /\ attempt = [c \in Callers |-> 0]
  /\ late = 0

(* A slip of the health check: <= for <.                                   *)
HealthyAtCap == state = "active" /\ used <= Cap

Healthy == state = "active" /\ used < Cap

(* _check_account_health lets the call in ...                              *)
Start(c) ==
  /\ pc[c] = "idle"
  /\ Healthy
  /\ pc' = [pc EXCEPT ![c] = "waiting"]
  /\ UNCHANGED <<used, state, holder, attempt, late>>

(* ... or raises, and nothing changes.                                     *)
Refuse(c) ==
  /\ pc[c] = "idle"
  /\ ~Healthy
  /\ UNCHANGED vars

(* The lock is free: pace, charge, send.                                   *)
Send(c) ==
  /\ pc[c] = "waiting"
  /\ holder = Nobody
  /\ holder' = c
  /\ attempt' = [attempt EXCEPT ![c] = @ + 1]
  /\ used' = used + 1
  /\ late' = IF state = "active" THEN late ELSE late + 1
  /\ pc' = [pc EXCEPT ![c] = "sent"]
  /\ UNCHANGED state

Finish(c) ==
  /\ pc' = [pc EXCEPT ![c] = "idle"]
  /\ attempt' = [attempt EXCEPT ![c] = 0]

(* A good answer is taken for a healthy account.                           *)
VerdictRevives(class) ==
  CASE class = "account_dead"   -> "suspended"
    [] class = "linkedin_block" -> "challenged"
    [] OTHER                    -> "active"

(* The state the answer leaves the account in: a plain overwrite.          *)
Verdict(class) ==
  CASE class = "account_dead"   -> "suspended"
    [] class = "linkedin_block" -> "challenged"
    [] OTHER                    -> state

(* A request that got no answer is taken back: no attempt, no charge.      *)
AnswerUncounted(c, status) ==
  LET class == classify_error(status) IN
  /\ pc[c] = "sent"
  /\ holder' = Nobody
  /\ state' = Verdict(class)
  /\ IF should_retry(class, attempt[c])
       THEN /\ pc' = [pc EXCEPT ![c] = "backoff"]
            /\ attempt' = [attempt EXCEPT ![c] = IF status = NoAnswer THEN @ - 1 ELSE @]
       ELSE Finish(c)
  /\ used' = IF status = NoAnswer THEN used - 1 ELSE used
  /\ UNCHANGED late

(* The answer (or the lack of one) is classified under the lock; a result, *)
(* a parse failure or an exception ends the call, else it backs off.       *)
Answer(c, status) ==
  LET class == classify_error(status) IN
  /\ pc[c] = "sent"
  /\ holder' = Nobody
  /\ state' = Verdict(class)
  /\ IF should_retry(class, attempt[c])
       THEN /\ pc' = [pc EXCEPT ![c] = "backoff"]
            /\ UNCHANGED attempt
       ELSE Finish(c)
  /\ UNCHANGED <<used, late>>

(* The back-off sleep is over: the loop asks for the lock again, without   *)
(* another look at the account.                                            *)
Retry(c) ==
  /\ pc[c] = "backoff"
  /\ pc' = [pc EXCEPT ![c] = "waiting"]
  /\ UNCHANGED <<used, state, holder, attempt, late>>

Answered(c) == \E status \in Statuses \cup {NoAnswer} : Answer(c, status)

Next ==
  \E c \in Callers :
    \/ Start(c)
    \/ Refuse(c)
    \/ Send(c)
    \/ Answered(c)
    \/ Retry(c)

Spec == Init /\ [][Next]_vars

(* asyncio.Lock is FIFO (strong fairness of Send), every request ends with *)
(* a response or an exception, and sleeps end.                             *)
FairSpec ==
  /\ Spec
  /\ \A c \in Callers : SF_vars(Send(c)) /\ WF_vars(Answered(c)) /\ WF_vars(Retry(c))

-----------------------------------------------------------------------------
TypeOK ==
  /\ used \in Nat
  /\ state \in {"active", "suspended", "challenged"}
  /\ holder \in Callers \cup {Nobody}
  /\ pc \in [Callers -> {"idle", "waiting", "sent", "backoff"}]
  /\ attempt \in [Callers -> 0 .. MaxAttempts]
  /\ late \in Nat

(* The requests the calls that passed the health check may still send.     *)
Outstanding ==
  {p \in Callers \X (1 .. MaxAttempts) : pc[p[1]] # "idle" /\ p[2] > attempt[p[1]]}

(* A dead or blocked account is still asked by calls that passed the       *)
(* health check earlier, but only by those: at most MaxAttempts requests   *)
(* of each other caller (voyager.py:120, 123-162).                         *)
LateRequestsBounded ==
  state # "active" =>
    late + Cardinality(Outstanding) <= (Cardinality(Callers) - 1) * MaxAttempts

(* Requests on one account never overlap (voyager.py:125-132).             *)
OneRequestAtATime ==
  \A c, d \in Callers : pc[c] = "sent" /\ pc[d] = "sent" => c = d

(* No answer, however late, puts a suspended or challenged account back in *)
(* service (voyager.py:146-154).                                           *)
NoRevival == [][state # "active" => state' # "active"]_vars

(* The fetcher is an admission ledger with MaxAttempts charges per call.   *)
Ledger == INSTANCE AdmissionLedger
            WITH PerCall <- MaxAttempts, permits <- Outstanding

LedgerRefined == Ledger!Spec

(* How far beyond the cap the counter can get: less than one more round of *)
(* all attempts of all callers (voyager.py:113, 129).                      *)
UsedBounded ==
  used <= IF Cap = 0 THEN 0 ELSE Cap - 1 + Cardinality(Callers) * MaxAttempts

(* Every admitted call comes to a result or an exception.                  *)
CallsEnd == \A c \in Callers : pc[c] # "idle" ~> pc[c] = "idle"
=============================================================================
