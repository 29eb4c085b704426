# Verification of the profile verification system

The repository answers one question, "does this person work at this company?", with
two services and a browser extension. This directory models in TLA+ what can go
wrong between them: accounts that are shared by concurrent calls, copies of a
document that age at different speeds, a browser session that several calls use, and
the arithmetic that ends in *yes*, *no* or *uncertain*. TLC checks the models on
small instances; TLAPS proves every property that is not about liveness for every
value of the constants.

Paths below are relative to the repository's `fetcher/app/` (Python, FastAPI,
asyncio) and `verifier/src/` (TypeScript, Fastify).

## 1. The system

| component | state it keeps | operations | talks to |
|---|---|---|---|
| account pool (`pool/`, `domain/account.py`) | per account: `daily_used`, `state`, `last_challenge_at` | acquire, release, reset | one login fetcher per account |
| login fetcher (`fetchers/login.py`) | the browser context, `_logged_in`, a lock, the profile directory | sign in, request, discard the session | Playwright, LinkedIn |
| Voyager fetcher (`fetchers/voyager.py`, `scraping/retry.py`) | one account's counter and state, a lock | request with up to 4 attempts | LinkedIn |
| headless, generic, public, fixture, fallback fetchers | a context; a token bucket and a counter; nothing | fetch | LinkedIn, files |
| document cache (`services/`, `storage/`) | Redis entries, the MongoDB documents, raw captures | get or fetch, search | a fetcher, the parsers |
| captures route (`routes/captures.py`) and extension | nothing | upload a page's data | MongoDB (not Redis) |
| parsers (`parsers/`) | nothing | payload to Profile or Company | - |
| job queue (`queue/job_queue.py`) | jobs in MongoDB | claim, done, failed | nobody calls it |
| rate limits (`middleware/`) | windows of requests per client | allow or refuse | nothing, or Redis |
| verification pipeline (`pipeline/`, `normalize/`, `resolve/`, `match/`, `score/`, `llm/`) | one verification in flight | verify | fetcher service, Anthropic, MongoDB |
| verification queue (`queue/`, `routes/verify.ts`) | BullMQ jobs in Redis | submit, poll, work | the pipeline |

What they share decides what is hard:

- The fetcher is one asyncio process. Code between two awaits is atomic, and
  everything that is read before an await and used after it may be stale: the cap of
  an account, `self._context`, the document in MongoDB. No test of the repository
  runs two calls at once.
- The pool, the login and the Voyager fetcher compare the cap when a call is
  admitted and charge it later, once per request, per endpoint or per attempt.
- The headless fetcher makes its browser on the first call, without a lock, and lets
  other calls see it before it is ready.
- A job of the queue may be run by two workers that do not know of each other, and a
  client reads its result and its state one after the other.
- A document lives in three places with three lifetimes, written one after the other
  by requests that overlap, and by uploads that do not touch Redis.
- The verifier is sequential within a call. What is hard is arithmetic: fifteen
  rules with thresholds met exactly, and an LLM that may move the sum and may also
  change what the rules look at.

What makes each part correct:

- *pool*: a counter is bounded whatever interleaves; an account that was rate
  limited rests for the whole cooldown; load is shared; locks are given back.
- *Voyager fetcher*: one request at a time; a dead account is not asked much longer
  and not revived by a late answer; every call ends.
- *login session*: no request runs in a browser somebody closed; no browser is left
  behind; the token and the cookies of a request belong together.
- *cache*: an answer is not older than the lifetimes allow; a fresher document is
  not replaced by a much older one; a document can be traced to its capture.
- *headless fetcher*: the cap holds up to one page per call; an account is not taken
  for challenged because a page had no cookies; no browser is forgotten.
- *acquisition*: what is under a person's url is about that person, as current as
  its age allows, and a page with little in it never replaces a profile.
- *verification queue*: a job has one end, its result is in the audit log, and it is
  not run more often than it may stall.
- *verification*: nobody is said to work where no role is current; without the LLM a
  yes needs the company's urn and fresh data; the LLM's part is limited.

The hazards of the code are listed with their lines in `PROJECT.json`, each with the
properties that cover it or the reason why none does.

## 2. Modules

| module | models | proofs |
|---|---|---|
| `AdmissionLedger` | the abstract contract of a cap that is checked once per call | in `VoyagerFetcherProofs` |
| `AccountPool` | the pool and the calls it gives to its accounts; implements the ledger per account | `AccountPoolProofs` |
| `VoyagerFetcher` | `_get` with its retries; implements the ledger | `VoyagerFetcherProofs` |
| `LoginSession` | the browser session of one account under concurrent calls | `LoginSessionProofs` |
| `HeadlessFetcher` | the lazily made context and the pages of one account; implements the ledger | `HeadlessFetcherProofs` |
| `DocumentCache` | one profile or company in Redis, MongoDB and raw captures | `DocumentCacheProofs` |
| `ProfileParser` | payloads to profiles, and the profile the verifier makes of them, as operators | in `ProfileAcquisitionProofs` |
| `ProfileAcquisition` | the stages of public mode with the login fallback, uploads, and what is stored under one url | `ProfileAcquisitionProofs` |
| `CompanyNames`, `CompanyResolver`, `RoleMatcher`, `Scoring` | the verifier's pure functions, as operators | in `VerificationProofs` |
| `Verification` | the pipeline around them, as a state machine | `VerificationProofs` |
| `VerifyPromise` | the abstract promise of an accepted job | |
| `VerifyQueue` | BullMQ jobs, the worker's slots, audit records, polling; implements the promise | `VerifyQueueProofs` |
| `MC...` | instances for TLC | |

`Scoring` extends `RoleMatcher`, which extends `CompanyResolver`, which extends
`CompanyNames`; `Verification` and `ProfileParser` extend `Scoring`, and
`ProfileAcquisition` extends `ProfileParser`. `AccountPool`, `VoyagerFetcher` and
`HeadlessFetcher` instantiate `AdmissionLedger`, and `VerifyQueue` instantiates
`VerifyPromise`, each with a refinement mapping.

Operators that no specification uses (`EligibleAtCap`, `RedisHitSlides`,
`IsCurrentJanuary`, ...) are slips: each is a definition with one plausible mistake
in it, and stands before the definition it would replace: with the replacement made,
TLC finds the property named in `PROJECT.json` violated.

### AdmissionLedger

`used` is `daily_used`; `permits` are the charges the admitted calls may still make.
`Admit` needs `used < Cap` and hands out up to `PerCall` permits, one of which may
be charged at once; `Spend` charges at most one and gives up at least as many;
`NewDay` resets the counter and leaves the permits. `WithinCeiling`: `used` plus the
permits is at most `Cap - 1 + callers * PerCall` (0 if `Cap` is 0).

### AccountPool

A call is idle, fetching (signing in, waiting for the account's lock) or requesting.
`acquire` never suspends inside its lock, so `Acquire` is one action that also wakes
every account whose cooldown is over (`Woken`), also when none is chosen
(`Unavailable`). `release` runs in the step that ends the call. `fetch_profile`
tries up to three endpoints (`Endpoints`), each charged by `LoginFetcher`, and
`release` charges one more on success: `CallCost` is `Endpoints + 1`. Errors are
told apart as `release` does, by the text: "rate", "challenge", and the others,
among which "walled" is an `AccountChallengedError` whose text holds neither
"challenge" nor "captcha". An exception that is no `FetcherError` skips `release`
(`Crash`). `since` is the age of `last_challenge_at` in ticks up to `Cooldown`, or
`Never`. `ResetDailyCounts` exists in the code and nothing calls it: `ResetsDaily`
says whether a scheduler does.

### VoyagerFetcher

`Start` is the health check, `Send` the lock, the delay, the charge and the request,
`Answer` the status with what it does to the account and whether the policy retries,
`Retry` the end of the back-off, after which the call waits for the lock again
without another look at the account. `late` counts the requests sent after the
account was known to be dead or blocked.

### LoginSession

A context is the browser behind one `launch_persistent_context`, `open` the set of
those that run. Every await after which `self._context` is read again ends an
action: launch, `add_init_script`, validation, sign-in, the delay, the cookies, the
request, `close`, the second launch and the second sign-in. `_ensure_logged_in`
takes no lock, so all of it interleaves with the holder. A call here is one
`_voyager_get`; the chain of endpoints and the counter are `AccountPool`'s.
Launching on a directory in use may succeed or fail. `close` may fail: the error is
logged and `self._context` set to None all the same, and the browser may still run.
`BrowserDies` ends a browser at any time; whoever refers to it finds out at the next
use. Three histories say what led to a state: `closed` (the browsers that a call
closed), `overlaps` (launches begun while another was in progress) and `unclosed`
(browsers that still ran after a close); the last two count to `MaxTally`. Typing
into the login form is one step, and the disk is left out.

### DocumentCache

One document, known by its `fetched_at`. A request reads Redis, then MongoDB, then
fetches, inserts the raw capture, upserts the document, and sets Redis. An upload
does the middle part, and a company search the upsert only. `kind` never changes: a
profile may be asked for with `max_age_days`, a company may be stored by a search.
`Keys` are the strings requests use for it, each with its own Redis entry; `FoundBy`
are those the MongoDB lookup knows. `Fail` stands for any error, and for the process
stopping, between any two steps. `Tick` is a day: Redis entries and captures whose
time is up go away, and the document does not (section 7). `Evict` is Redis'
`allkeys-lru`. `max_age_days=0` is the same as none, as in the code. A fetched
document is dated before the fetch, or, when the public fetcher made it, after it.
A company search may ask LinkedIn although the company is stored, because the name
is looked up in another form than it was stored in (`company_service.py:71`), and
then overwrites the document. Not modelled: fixtures, which have a fixed
`fetched_at` of their own, and which documents a url, slug or text search finds.

### HeadlessFetcher

`_ensure_context` publishes `self._context` as soon as the browser is there, then
adds the scripts (unless `playwright_stealth` adds them to each page) and the
cookies, always to what `self._context` is by then; each of these awaits ends an
action, and no lock is held. The charge and the page are under the lock. A browser
that dies is never replaced: `self._context` goes on naming it, and each later call
is charged and fails. What leads up to a bad state is kept in history variables:
`crowded` (a call began while another was setting up), `failed` (a set-up failed
with its browser running), `blamed` (challenged because of a page without cookies),
`late` (pages asked for on a challenged account). There is one context per browser.

### ProfileParser and ProfileAcquisition

The clock counts months; a date is a year and a month, or a year alone. A payload is
a graph (the typed objects of a Voyager answer and the root of the response) or a
page (whose name, companies and headline, and whether its url is an auth wall's). An
object of a graph has an `entityUrn` (`urn`), a `*entityUrn` (`ref`), both or
neither: the dictionary of objects is by either, and one with neither is dropped,
but positions are told apart by `entityUrn` only. `FromGraph` and `FromPage` follow
`parse_profile`: which object is the person, the positions, `is_current`, employment
types, the urn; a graph without a profile object is read from its root. A document
has no slug when the payload gives none: no lookup finds it. `Seen` is what
`normalize/profile.ts` makes of the document later.

A request looks MongoDB up, then tries `Direct`, `Warmed`, `Search` and `Login`;
each takes a payload or goes on. A page may be anybody's: `Direct` refuses only a
url with a wall's name in it (`public.py:284`, `346`), `Warmed` and `Search`
nothing, and the title that `Search` finds may be the next result's (181-184). All
become documents with the slug that was asked for. Pages are dated when they are
read, a login's graph when the request began. `docs` holds for each urn the profile,
its date and its payload; the url may be found in several of them, and `find_one`
has no order, so any of them may be the one. Redis, `max_age_days`, `fresh_days` and
captures are in `DocumentCache` and left out here.

### VerifyPromise and VerifyQueue

The promise: a job is accepted once, audited at most `Runs` times, and ends at most
once, with an audited result, failed, or lost with what Redis lost. `VerifyQueue`
has BullMQ as the library's documented defaults make it (external): one attempt per
job, and only the holder of the lock ends a job. A lock that is not renewed expires
(`Expire`), or its key is evicted, while the job is still active and its holder runs
on; the check for stalled jobs (`Stalled`) comes later and looks for active jobs
without a lock, which go back to waiting the first time and fail the second. The
pipeline is two steps, its verification and its record, and its n-th run has result
n, so that it can be told which run a client was told of. `Crash` stops every slot;
`Throw` is an error before or after the record was written. `Evict` takes a job's
key, and its id stays in the list or set where it was; `EvictList` takes one of the
lists and sets. A poll reads the job (`PollGet`) and then its state (`PollState`),
which is that of the lists also for a job that is gone.

### The verifier's functions

A name is a sequence of lower-case words, which may be any finite ones; a legal
suffix, also one of several words, is one word. The loop over the suffixes cuts off
what is at the end, each of them once and in the order of the list: `CutAfter` says
which words that takes away, and `Stripped` keeps what is before the first of them.
A word without a letter or digit of `Latin` vanishes (`Plain`, by `Kept`), and an
alias replaces the whole name. A name of white space alone is `Blank`:
`normalizeCompany` accepts it and nothing is left of it. `TokenSetRatio` is the
library's ratio on sets of words, in ten-thousandths.

What the code collects by walking over the roles of a profile (the resolver's
candidates, the matches) is here a function on the places of the roles it is
collected from, so that "the first", "the best" and "all that" are sets of places
with a least or a greatest one: sorting and `find` become `CHOOSE` of what they
return, and proofs need no induction.

Dates are days before now. A headline is the set of names that occur in it, or
`NoHeadline`. The rules keep the source's names (`currentRoleExactUrn`, ...) and
give a weight; evidence texts are left out. `parent_urn` is null wherever the
pipeline creates a company, so the parent rule never fires, but is there.
`fetched_at` is always present, so the branch for an unknown age is not.

### Verification

`Submit`, `Fetched` (normalize, resolve, match), then `Conclude` for a strong match
or the LLM's answer (`LlmAnswers`, with its aliases and issues) or its absence
(`LlmUnavailable`), `Record`, `Reply`, and `Fail` where the code answers an error.
`rules` keeps the confidence the rules alone would give. Verifications share no
state, so one at a time is enough.

## 3. Runs

| run | instance | shows |
|---|---|---|
| `pool_race` | 2 accounts with caps 2 and 1, 2 callers, 2 endpoints, resets | cooldown, balance, every account a ledger, and what takes a challenge off |
| `pool_live` | 1 account, 2 callers, cooldown 2 | calls end, a cooldown ends |
| `voyager` | 3 callers, 3 attempts, one status of every class | late requests bounded, no revival, a ledger, calls end |
| `headless` | 2 callers, 3 browsers, cap 2, with and without stealth scripts | pages after a challenge bounded, no false challenge and no lost browser without a race, a ledger, calls end |
| `login` | 3 callers, 3 browsers, histories up to 3 | what is closed under whom, what is left running, whose token, under concurrent launches, failing closes and dying browsers |
| `login_live` | 3 callers, 2 browsers | calls end |
| `cache_race` | a profile or a company by url and by slug, with and without `max_age_days`, 2 requests, 5 days | ages of answers, windows, captures before documents |
| `acquire` | 2 requests for one person, 7 payloads (her graph, one under another urn, somebody else's, an empty one; her page, the wall, a namesake's), 3 months from December 2024 | who and what is stored under a url, each position once, how current, and that it says no more with age |
| `verify` | pairs of roles (below), 3 names asked for, LLM at -100, 100 or none, with an alias and an issue | the six properties of verdicts |
| `queue` | 2 jobs, 1 of them polled, 2 slots, 1 stall | the promise kept, the next poll has the result, every job ends |
| `login_assert` | 2 callers | *violated*: `assert self._context is not None` |
| `verify_script` | names in another script | *violated*: a yes for a different company |

Some properties have a proof for all instances and are not run again: the `TypeOK`s
of the modules with proofs; the ceiling of `AdmissionLedger`, which has no instance
of its own, and `UsedBounded`, which is what the ceiling says wherever
`LedgerRefined` holds; `RecordsBounded` and `ReportedIsAudited`, most of which
`PromiseKept` says; `OneRequestAtATime` and `OnePageAtATime` of the locks; and
`CurrentNotClosed` and `BareIsTransient`, parts of the invariants that the others
rest on.

Bounds, and why they are enough:

- `Callers`: two calls show every race of a check with an act; three also have one
  that waits while two others fight over the session.
- `Endpoints` 2, `MaxAttempts` 3: a first, a last and (for attempts) one in between;
  the code's 3 and 4 add repetitions. The proofs cover all values.
- `headless`: the cap is reached while another call is already admitted, and there
  is a browser for each call and one that is lost; `queue` has a slot that still
  runs a job another slot has taken over.
- caps of 1 to 3: below, at and beyond the cap are reached within a few calls. The
  smaller cap of `pool_race` makes the ratio and the counter disagree.
- `Cooldown` 1 or 2 ticks, `Horizon` 5 days with lifetimes of 2 to 4: fresh,
  soft-stale and hard-stale, and entries that expire before and after. In the code
  they are 15 minutes; 7, 90 and 365 days. Only their order matters.
- `acquire`: `Hard` 2 months, `Horizon` 2 months after December 2024. The turn of
  the year, where a year alone is read as its January or its December, and a
  document that outlives `hard_ttl_days` are both inside. A month is 30 days where
  days are needed.
- `Patience`: the most days a request stays in flight after it read the clock. The
  code sets no such limit on a whole request, only timeouts on its fetches; it
  appears in the properties, which say how the damage grows with it.
- `Contexts`: with all of them running a launch can only fail. Three in `login` are
  one current, one leaked by an overlap and one by a failing close; three in
  `headless` one current, one lost and one being made. `login_live` has two, and a
  launch that fails for want of a third is a step more for its call. The proofs
  cover any number.
- `MaxTally` bounds the histories of `LoginSession`: beyond it `LeaksCounted` says
  nothing, so `login` counts to the number of its browsers, and `login_live`, whose
  property does not look at them, to 1.
- `verify`: all pairs of roles over three names, two urns and none, current and
  ended 90 days ago or with no date, against no headline and three others; all pairs
  over dates on both sides of 365 days, 90 and 500 days, before 1950, an advisor, a
  missing name, with data 90, 365 and 366 days old; and two candidates of equal
  score. -100 and 100 are clamped to the ends of the LLM's range.

`CHECK_DEADLOCK` is off in `acquire`, whose clock ends at `Horizon`, and in `queue`,
whose jobs end and whose clients need not poll. In the other models something can
always be asked for again.

## 4. Fairness

- Weak fairness of the steps that end an await: the code gives requests, page loads
  and launches timeouts, and sleeps end.
- Strong fairness of taking a lock: `asyncio.Lock` wakes its waiters in the order
  they came, so whoever waits gets it although others take it in between.
- `queue`: waiting jobs are taken by an idle slot, a pipeline ends, the lock of a
  job that no slot runs expires, and an active job without a lock is found to be
  stalled (BullMQ's timer). No lock has to expire while its holder runs. Crashes and
  evictions may go on for ever: `MaxStalls` bounds what they do to one job.
- `pool_live` also assumes that time passes and that requests keep coming in
  (`BusySpec`), for the cooldown only: it is the next scan that ends it.
- Nothing is assumed of `Begin`, `Start`, `Submit` or the polls: nobody has to ask.

## 5. What is proved

TLAPS checks every proof. Every invariant, action property and refinement of the
passing runs has a theorem, in the module that proves about the component, named in
`PROJECT.json`; and what the liveness properties need besides fairness has one too.
The assumptions are the `ASSUME`s of the modules, which TLC evaluates in the runs:
finite sets of callers, natural numbers for caps and times, at least one charge per
call, and

- `NamesAssumption`, `VerificationAssumption`: names are finite sequences of words,
  a profile's roles are a sequence, ages are naturals, the LLM's answers are
  integers. Nothing is assumed of how many names, roles or aliases there are, nor of
  what is similar.
- `PayloadAssumption`: the typed objects of a graph are a sequence, the dates of
  positions have a month in 1..12 or none, the month of the last update is a
  natural, and neither a profile object nor the root of a response has the urn of
  the "member" kind that the public fetcher makes up for the slug that is asked for.
- `IdentityAssumption`: what LinkedIn promises and the code relies on: a profile
  object with the slug that is asked for is that person's. Profile objects without a
  slug, several urns for one person, graphs of several people or of none, and pages
  of anybody are not excluded.

What they prove, and along which argument:

- **Types**: `TypeOK` of every module that has proofs, as the first part of its
  invariant.
- **The ledger** (`LedgerWithinCeiling`, in `VoyagerFetcherProofs` beside its first
  user). The ceiling alone is not inductive: `WithinRoom` adds that the permits are
  among the possible ones. It is about a number and a set, not about variables, so
  `AdmitRoom`, `SpendRoom` and `NewDayRoom` say once what each operation of a ledger
  does to it: an admission is the only one that raises the sum, and happens below
  the cap.
- **The pool**. `PoolTypeOK` and `PoolActiveIsRested` need that a call in flight has
  an account and an endpoint left (`CallInv`), and that an account that never met an
  error was never out (`NeverInv`). `PoolImplementsLedger` maps every step to a step
  of each account's ledger. `PoolUsedBounded` and `PoolBalanced` rest on `LoadInv`:
  the counter plus the charges to come, which only an admission raises; at that
  moment the chosen account has the smallest ratio, and a daily reset keeps the
  inequality. `PoolRevivedByLateCall` goes through the actions: only `release`
  writes over a challenge.
- **The Voyager fetcher**. `VoyagerPaced` from the lock invariant;
  `VoyagerImplementsLedger` maps the attempts left to permits, and
  `VoyagerUsedBounded` takes the same lemmas on those attempts; `VoyagerLateBounded`
  needs `LateInv`: nothing was late before the account died; `VoyagerNoRevival` is
  an action property.
- **The headless fetcher**. `LockInv` and `DresserInv` (a published context without
  cookies has a call that is about to add them, or a set-up failed) give
  `HeadlessBareIsTransient`. `CalmInv` says what holds while calls have neither
  overlapped a set-up nor failed in one; from it `HeadlessFalseChallenge` and
  `HeadlessLeakNeedsRace`. `LateInv` is the Voyager fetcher's, with one page per
  call. `HeadlessImplementsLedger` maps admitted calls to permits.
  `HeadlessUsedBounded` is by `ChargeInv`, the ceiling with one page per call, which
  only a call that begins below the cap raises.
- **The login session**. `SessionInv` says that only the holder of the lock closes a
  browser and makes `self._context` None, and what each step works on has not been
  closed: from it `LoginInFlightNotClosed` and `LoginCurrentNotClosed`. A browser
  may still die by itself. `LeakInv` counts: the browsers that run without being
  `self._context`, and those that the launches in progress are about to replace, are
  no more than the overlapping launches and the failed closes (`LoginLeaksCounted`).
  `SoloInv` says that as long as no two launches overlapped everybody who has a
  context means the same one: from it `LoginTokenOfSession`.
- **The verification queue**. `StallInv` counts runs against stalls, `SlotInv` ties
  a slot's job and run to the job's, `ValueInv` says that a result is that of a
  recorded run, and `PollInv` that a poll has read nothing that was not there. From
  them the bounds of section 3 and `QueuePromiseKept`: every step of the queue is a
  step of `VerifyPromise` or a stutter. `HolderInv` says that whoever holds the lock
  of the job it runs does its last run, also when locks expire before the check for
  stalled jobs: from it `QueueResultIsLatest`, a run that lost its lock never gives
  the job its result.
- **The cache**. The invariant says what each step carries (`Control`), that every
  date about to be written was read at most `Patience` days ago (`Clock`), that an
  entry lives no longer than the document it was made of allows (`Entries`), that
  whoever is about to store an outdated copy was in flight when the document was
  replaced (`Outdated`), and that what is about to be upserted has its capture
  (`Captured`). From it `CacheRedisYoung`, `CacheStaleWindow`, `CacheCapturedFirst`
  and `CacheNoFarRegress`.
- **Verdicts: what the weights allow**. The result's verdict is the one of its
  confidence, which is the rules' sum plus an adjustment in -30..30, and 0 if nobody
  was asked; the rules give a base that does not look at the company, and -5..5 for
  the headline. The rest is arithmetic on the weights: without a current role 20 at
  most, without a role of the company's urn 60 at most, and a yes takes 70
  (`VerificationYesNeedsCurrentRole`, `VerificationRulesYesIsExact`,
  `VerificationLlmSwing`).
- **Verdicts: what was found**. `FoundInv` adds that the resolution and the matches
  are those of the query and the profile, but for aliases the LLM added, and that it
  was asked only where no match was strong. `VerificationStaleIsNotYes` is then
  arithmetic again (`StaleTotal`). The other two need to know whom the resolver
  chooses. `LeastOf` and `GreatestOf` give the first and the best of a non-empty set
  of places (a least element exists because the naturals are well-founded, which the
  library states without an operator for a parameter); `FirstGreatest` and
  `ResolvedFrom` say that the company is that of a role with the best score, and the
  first of those; `RatioType` bounds a similarity, and a name that equals the query
  has the greatest one. So the chosen company has a role of its own among the
  matches (`OwnHit`), which is `VerificationResolvedMatches`; and where the one role
  is current, of that name, with an urn, and the data recent, that role is the only
  exact match (`OneExact`, `OneMatch`), the sum is at least 70 (`CleanTotal`), and
  the verdict `VerificationCleanMatchIsYes`.
- **Acquisition**. The invariant (`IInv` of `ProfileAcquisitionProofs`) says of
  every stored and every carried document that it was `Made`: it is what `Parse`
  makes of its payload, in some month from its `fetched_at` until now, and its stage
  accepts that payload. The month matters because the parser reads the clock after
  the fetch. What the parser makes is a chain of lemmas about operators: `RankTaken`
  (places of a finite set have ranks 1, 2, ... without gaps, the one induction that
  is needed, again by a least counterexample), `KeptSeq`, `FirstOfUrnSeq`,
  `CollectSeq`, `PositionsSeq`: a position of the profile is one of the payload.
  `GraphDocument` and `PageDocument` say whose document it is and what its roles
  are. From these: a page gives no urn to a role, so it cannot be a yes
  (`AcquisitionPublicNeverYes`); a year alone is its December for the parser and its
  January for the verifier (`AcquisitionYearOnlyNeverRecent`,
  `AcquisitionCurrentIsRecent`); under the person's url there may be anybody's page,
  but what is a yes there was made of a graph, and is stored under the slug the
  graph gives (`AcquisitionYesIsThePersons`); no graph has the urn that the public
  fetcher makes up, so a page never overwrites one (`AcquisitionNoDowngrade`); and a
  fetch while a young document of the person is stored, made of a payload with her
  slug, found another one under the url, of a payload with another urn for her
  (`AcquisitionNeedlessFetchNeedsTwin`).
- **Acquisition: which positions**. `KeptPlaces` makes of the ranks a bijection
  between what is kept and where it was; with it `ByUrnNewest` (of a repeated object
  the last copy), `FirstOfUrnOnce` (one object for each `entityUrn`) and the two
  lists, the one part of the other, compose to `AcquisitionOneRolePerPosition`: the
  roles are the positions of the payload, each as it came last, and only a position
  of the longer type without an `entityUrn` twice.
- **Acquisition: growing old**. `AcquisitionAgeingNeverYes` compares what the rules
  say of one document in two months. `Aged` relates the two profiles the verifier
  sees: all dates 30 days longer ago, everything else the same, `current` included,
  because it was judged at the parse. The company found is then the same
  (`SameCompany`), and so are the matches, but for a recent end that may have become
  an old one (`MatchesLater`). Rule by rule the weight can only fall
  (`MatchRulesLater`, `DateRulesLater`) or stays (`OtherRulesLater`), so the sum
  falls and a yes was a yes before (`YesWasYes`). Were `current` judged again, the
  second of two current roles could end and take its -10 with it.
- **What liveness needs besides fairness**. That every call ends is a temporal
  property and left to TLC; what could make it false although each step is fair is
  a lock that nobody gives back or a call that goes round for ever, and both are
  excluded for every instance. `VoyagerLockInUse`, `HeadlessLockInUse`,
  `PoolLockInUse`, `LoginLockInUse`: who has the lock is in a step that does not
  wait for it. `VoyagerCallsRunOut`, `HeadlessCallsRunOut`, `PoolCallsRunOut`,
  `LoginCallsRunOut`: `StepsLeft`, a number made of a call's step and its attempts,
  is bounded, is 0 only for an idle call, and falls with each step the call takes,
  whatever the others do (a relogin and a retry included). `QueueJobsRunOut` does
  the same for a job: it can be taken and given back only as often as it may stall.
  `QueueOneEnd` says that an end is final.

Only model-checked: the liveness properties themselves (`CallsEnd` of four modules,
`CooldownEnds`, `JobsEnd`), since fairness, and with it the conclusion from a number
that falls to its reaching 0, is out of the prover's reach. What is proved of the
ledger is stated of it as `VoyagerFetcherProofs` instantiates it, with `PerCall`
named `MaxAttempts`.

## 6. What is not modelled

- The generic scraper and its token bucket: nothing constructs them (`scraping/` has
  them, `main.py` does not). The job queue of the fetcher: nothing calls it.
- The rate limits: in one process there is no await between looking at the window
  and entering the request, so there is nothing to interleave; the verifier's are
  never registered.
- Company payloads, which are copied field by field, and the patterns that cut a
  public page up; the public fetcher has no companies.
- Which JSON responses of a headless page are the profile. `search_companies` of
  that fetcher always answers with an empty list: its results carry the source
  "headless_stub", which `Company.source` rejects.
- The extension's delivery: one post, not tried again. What arrives is `Upload`.
- Fixtures, headers, TLS, logging, health, configuration: constant data or pure I/O.
- The wording of evidence and reasons; the prompt and the JSON of the LLM (what an
  answer out of range does is there).
- The source field of a document. `Profile.source` does not know "pool", nor
  `Company.source` (`domain/company.py:20`) "login": such payloads are charged and
  then rejected with a 500.
- The disk of `LoginSession`: which saved session a relogin finds. Two calls that
  found the session bad type the password at the same time; nothing in the model
  forbids it.
- No request waits for another that fetches the same document (there is no single
  flight), so each is charged: `DocumentCache` has the interleaving and no property
  about it.
- `login.py:373` charges an account without looking at its cap. In login mode
  without a pool nothing does; there is no guard to model.

## 7. Where the code and the documents differ

Two of these are runs. The others are written down as they were met while the code
was translated; where the models have the state it speaks of, a small instance of
them violates it.

Runs:

- `login_assert`: `login.py:335` asserts a context; a call looks for one before it
  waits for the lock, and the holder may throw it away and fail to launch another.
- `verify_script`: names outside `[a-z0-9 &]` are normalized to nothing
  (`normalize/company.ts:69`), so two of them are the same company.

Others:

- `DECISIONS.md:56`: "Weighted random selection for acquisition", with the `weight`
  of `README.md:244-246`. `from_file` reads no weight and `acquire`
  (`account_pool.py:83-86`) takes the smallest ratio of use to cap, nothing random.
  `Balanced` is a property of what the code does; under a random choice no such
  bound would hold.
- `SOLUTION.md:360`: YouTube asked about as Google is "`yes` with parent-match
  note". No company ever has a parent urn (`companyResolver.ts:147`), so the parent
  rule adds nothing, and its 15 would not make a yes (`rules.ts:53`). The two names
  are one by the alias map (`company.ts:52`): a yes then comes of the urn of the
  YouTube role itself, without such a note, and without an urn there is none
  (`RulesYesIsExact`).
- `samples/04_stale_profile.http:2-4` ("verdict still likely "yes"", expected "yes
  (lower confidence) or uncertain") and `samples/README.md:11` ("`uncertain` or
  `yes`") of a profile last updated in 2021; `SOLUTION.md:362` expects `uncertain`.
  The code agrees with the last one only: without the LLM 65 - 10 and what else
  there is stay below 70 (`StaleIsNotYes`).
- `DECISIONS.md:97`: freshness gives "+10 / -10 / -25", -10 from 60 days on. The
  code gives 10 up to 90 days, 0 up to 365 and -10 beyond (`rules.ts:100-102`). 104:
  a headline conflict costs 15; it costs 5 (`rules.ts:256`, `270`). With the weights
  of the document `CleanMatchIsYes` would be false between 61 and 90 days, and with
  a headline that names another company. Other rows of that table differ too: a
  fuzzy name is 25, not 40, the headline 5, a recent end 5, an old one -10, no
  experience -20, an overlap -5, impossible dates -10.
- `fetchers/base.py:22` says a wall "needs human intervention"; `release`
  (`account_pool.py:113`) overwrites any state, so a late 429 turns challenged into
  cooldown, and 15 minutes later the account is in rotation again.
  `RevivedByLateCall` is what remains true.
- `profile_service.py:47` promises that anything older than `max_age_days` is
  fetched again; a Redis hit comes first (49-52). `RedisYoung` bounds its age.
- `README.md:206` and `DECISIONS.md:294` (a client polls until the status is
  completed): it may stop at an answer that says completed and has no result,
  because the job is read before its state; `NextPollHasResult` says that asking
  once more is enough.
- `fetchers/headless.py:3`: pages are opened "using the account's cookies". Another
  call may open one before they are added.
- `parsers/profile.py:128-134` takes each position once by its `entityUrn`, while
  `voyager_graph.py:30` knows objects by `entityUrn` or `*entityUrn`: a position of
  the longer type with only the second is stored twice (`OneRolePerPosition`).
- `fetchers/fallback.py:48`: callers cannot distinguish the acquisition path. The
  reshaping (13-20) has no effect on a Voyager graph, and the two paths give the
  same person different urns, hence two documents (`NoDowngrade`,
  `NeedlessFetchNeedsTwin`).
- `headless.py` imports `stealth_async`, which current versions of
  `playwright-stealth` (`pyproject.toml:20` sets no upper bound) do not have; then
  the manual scripts are used.
- `server.ts:53`: "Redis unavailable – async/batch endpoints disabled". The client
  connects lazily and retries for ever, so the queue is never null and a submission
  waits instead.
- `release` (`account_pool.py:117`) decides by the text of the error: "stuck at
  .../login" and "session rejected" leave a walled account active.
- `.env.example:22` calls the cap a "hard daily request limit"; `UsedBounded` is the
  limit it really is.
- `storage/captures.py:3`: "every parsed Profile/Company is derivable from a
  raw_capture". Captures are kept 30 days and documents 90 and 365
  (`config.py:40-42`), and a company from a search has none
  (`company_service.py:81`).
- `DECISIONS.md:63`: "MongoDB: warm cache, 90-day TTL". `fetched_at` is stored as an
  ISO string, which the index of `mongo.py:26` does not expire. `DECISIONS.md:62`
  gives Redis one hour; it is a day (`profile_service.py:19`).
- `profile_service.py:3`: "soft-stale: return + queue refresh"; nothing is queued
  (line 64).
- `DECISIONS.md:126`: the LLM adds -30 to 30. Its aliases also turn a headline rule
  from -5 into 5: `LlmSwing` has 40.
- `README.md:262`: no is "No evidence of current employment". A current role of that
  very name, without a urn and not in the headline, is a no.
- `DECISIONS.md:110`: the uncertainty level counts the reasons. The LLM's issues are
  added after it is set (`verify.ts:117`).
- `DECISIONS.md:116-118`: the LLM is called only for an ambiguous or missing
  company. It is called when the first current match is not strong
  (`verify.ts:62-65`), and not for an ambiguous one that is
  (`SAMPLE_REQUESTS.md:111`).
- `SAMPLE_REQUESTS.md:127`: three current roles raise the level. Only those that
  match the company count (`verdict.ts:23`).
- `SOLUTION.md:369`: no listed company is uncertain. The parser calls it Unknown, no
  role matches, and the verdict is no.

## 8. Plan

What could still be added, in order of what it would show:

1. The disk of `LoginSession`: the saved session and the profile directory, which a
   request that merely timed out deletes.
2. `source` as a field of documents, to show which modes can store nothing.
3. Company payloads in `ProfileParser`. The generic scraper and the job queue only
   when the program uses them.

New properties join an existing run where one instance can show both.
