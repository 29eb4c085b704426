---------------------------- MODULE HeadlessFetcher ----------------------------
(***************************************************************************)
(* HeadlessFetcher (fetcher/app/fetchers/headless.py) under concurrent     *)
(* calls of _capture_from_url on its single account.                       *)
(*                                                                         *)
(* A call looks at the account once, makes the shared browser context if   *)
(* there is none yet, and only then takes the lock under which it is       *)
(* charged and opens its page.  _ensure_context takes no lock, publishes   *)
(* self._context BEFORE the cookies are in it, and every await in it ends  *)
(* an action.  A context is written for its browser: there is one to each. *)
(***************************************************************************)
EXTENDS Integers, FiniteSets

CONSTANTS Callers,    \* concurrent calls into the fetcher
          Contexts,   \* bound: browsers that can exist at a time
          Cap         \* linkedin_daily_cap

ASSUME HeadlessAssumption ==
  /\ IsFiniteSet(Callers)
  /\ "nobody" \notin Callers
  /\ "none" \notin Contexts
  /\ Cap \in Nat

VARIABLES used,      \* account.daily_used
          state,     \* account.state
          context,   \* self._context
          running,   \* browsers that are running
          dressed,   \* contexts the account's cookies have been added to
          stealth,   \* playwright_stealth can be imported
          holder,    \* who holds self._lock
          pc,        \* where each call is
          on,        \* the context a call makes, or has its page in
          late,      \* history: pages asked for on a challenged account
          crowded,   \* history: a call began while another was setting up
          failed,    \* history: a set-up failed with its browser running
          blamed     \* history: challenged by a page without cookies

vars == <<used, state, context, running, dressed, stealth, holder, pc, on,
          late, crowded, failed, blamed>>

None == "none"
Nobody == "nobody"

SettingUp == {"launching", "building", "scripting", "dressing"}

Admitted == SettingUp \cup {"waiting"}

Paging == {"opening", "loading", "bare"}

Fresh == Contexts \ (running \cup {context} \cup {on[c] : c \in Callers})

Init ==
  /\ used = 0
  /\ state = "active"
  /\ context = None
  /\ running = {}
  /\ dressed = {}
  /\ stealth \in BOOLEAN
  /\ holder = Nobody
  /\ pc = [c \in Callers |-> "idle"]
  /\ on = [c \in Callers |-> None]
  /\ late = 0
  /\ crowded = FALSE
  /\ failed = FALSE
  /\ blamed = FALSE

Goto(c, label, k) ==
  /\ pc' = [pc EXCEPT ![c] = label]
  /\ on' = [on EXCEPT ![c] = k]

(* Where a call whose page is there goes on.                               *)
Loading(c) == Goto(c, IF on[c] \in dressed THEN "loading" ELSE "bare", on[c])

(* The call returns or raises; `async with' gives the lock back.           *)
Leave(c) ==
  /\ Goto(c, "idle", None)
  /\ holder' = IF holder = c THEN Nobody ELSE holder

(* An exception in a set-up whose browser is up: nothing closes it.        *)
GiveUp(c) ==
  /\ Leave(c)
  /\ failed' = TRUE

-----------------------------------------------------------------------------
(* _check_account_health and _ensure_context *)

(* Slips of the health check: at the cap, and after a challenge.           *)
HealthyAtCap == state = "active" /\ used <= Cap

HealthyChallenged == used < Cap

Healthy == state = "active" /\ used < Cap

Begin(c) ==
  /\ pc[c] = "idle"
  /\ Healthy
  /\ Goto(c, IF context = None THEN "launching" ELSE "waiting", None)
  /\ crowded' = (crowded \/ \E d \in Callers : pc[d] \in SettingUp)
  /\ UNCHANGED <<used, state, context, running, dressed, stealth, holder, late,
                 failed, blamed>>

Refuse(c) ==
  /\ pc[c] = "idle"
  /\ ~Healthy
  /\ UNCHANGED vars

(* Playwright and Chromium are up, or do not start.                        *)
Launched(c) ==
  /\ pc[c] = "launching"
  /\ \/ /\ \E k \in Fresh :
             /\ running' = running \cup {k}
             /\ dressed' = dressed \ {k}
             /\ Goto(c, "building", k)
        /\ UNCHANGED holder
     \/ Leave(c) /\ UNCHANGED <<running, dressed>>
  /\ UNCHANGED <<used, state, context, stealth, late, crowded, failed, blamed>>

(* The cookies are forgotten where the library hides the browser.          *)
PublishedBare(c) ==
  /\ pc[c] = "building"
  /\ \/ /\ on[c] \in running
        /\ context' = on[c]
        /\ IF stealth THEN Goto(c, "waiting", None)
                      ELSE Goto(c, "scripting", on[c])
        /\ UNCHANGED <<holder, failed>>
     \/ GiveUp(c) /\ UNCHANGED context
  /\ UNCHANGED <<used, state, running, dressed, stealth, late, crowded, blamed>>

(* new_context has come back: self._context is everybody's from here on.   *)
Published(c) ==
  /\ pc[c] = "building"
  /\ \/ /\ on[c] \in running
        /\ context' = on[c]
        /\ Goto(c, IF stealth THEN "dressing" ELSE "scripting", on[c])
        /\ UNCHANGED <<holder, failed>>
     \/ GiveUp(c) /\ UNCHANGED context
  /\ UNCHANGED <<used, state, running, dressed, stealth, late, crowded, blamed>>

(* add_init_script has been awaited: the cookies go to what self._context  *)
(* is by now.                                                              *)
Scripted(c) ==
  /\ pc[c] = "scripting"
  /\ \/ /\ on[c] \in running
        /\ Goto(c, "dressing", context)
        /\ UNCHANGED <<holder, failed>>
     \/ GiveUp(c)
  /\ UNCHANGED <<used, state, context, running, dressed, stealth, late, crowded,
                 blamed>>

(* add_cookies; there is always li_at, or main.py:58 builds no headless    *)
(* fetcher.                                                                *)
Dressed(c) ==
  /\ pc[c] = "dressing"
  /\ \/ /\ on[c] \in running
        /\ dressed' = dressed \cup {on[c]}
        /\ Goto(c, "waiting", None)
        /\ UNCHANGED <<holder, failed>>
     \/ GiveUp(c) /\ UNCHANGED dressed
  /\ UNCHANGED <<used, state, context, running, stealth, late, crowded, blamed>>

-----------------------------------------------------------------------------
(* _capture_from_url, under the lock *)

(* The lock is free: the call is charged, and asks the current context for *)
(* a page.                                                                 *)
Acquire(c) ==
  /\ pc[c] = "waiting"
  /\ holder = Nobody
  /\ holder' = c
  /\ used' = used + 1
  /\ late' = IF state = "active" THEN late ELSE late + 1
  /\ Goto(c, "opening", context)
  /\ UNCHANGED <<state, context, running, dressed, stealth, crowded, failed, blamed>>

(* A page that cannot be made costs the fetcher its context, so that the   *)
(* next call launches another browser.                                     *)
OpenedForgets(c) ==
  /\ pc[c] = "opening"
  /\ \/ /\ on[c] \in running
        /\ Loading(c)
        /\ UNCHANGED <<context, holder>>
     \/ Leave(c) /\ context' = None
  /\ UNCHANGED <<used, state, running, dressed, stealth, late, crowded, failed,
                 blamed>>

(* A page that cannot be made is asked for again, under the lock.          *)
OpenedInsists(c) ==
  /\ pc[c] = "opening"
  /\ \/ on[c] \in running /\ Loading(c)
     \/ Goto(c, "opening", context)
  /\ UNCHANGED <<used, state, context, running, dressed, stealth, holder, late,
                 crowded, failed, blamed>>

(* The page is there, or new_page or the stealth scripts raise; the call   *)
(* stays charged.                                                          *)
Opened(c) ==
  /\ pc[c] = "opening"
  /\ \/ /\ on[c] \in running
        /\ Loading(c)
        /\ UNCHANGED holder
     \/ Leave(c)
  /\ UNCHANGED <<used, state, context, running, dressed, stealth, late, crowded,
                 failed, blamed>>

(* The page has settled.  Where it is on a wall the account is challenged, *)
(* for good; else there is a payload, or none, or the page failed.  The    *)
(* page is closed and the lock given back.                                 *)
Settled(c) ==
  /\ pc[c] \in {"loading", "bare"}
  /\ \/ UNCHANGED <<state, blamed>>
     \/ /\ on[c] \in running
        /\ state' = "challenged"
        /\ blamed' = (blamed \/ pc[c] = "bare")
  /\ Leave(c)
  /\ UNCHANGED <<used, context, running, dressed, stealth, late, crowded, failed>>

(* Chromium dies; self._context goes on naming it.                         *)
BrowserDies(k) ==
  /\ k \in running
  /\ running' = running \ {k}
  /\ UNCHANGED <<used, state, context, dressed, stealth, holder, pc, on, late,
                 crowded, failed, blamed>>

Awaited(c) ==
  \/ Launched(c)
  \/ Published(c)
  \/ Scripted(c)
  \/ Dressed(c)
  \/ Opened(c)
  \/ Settled(c)

Next ==
  \/ \E c \in Callers : Begin(c) \/ Refuse(c) \/ Acquire(c) \/ Awaited(c)
  \/ \E k \in Contexts : BrowserDies(k)

Spec == Init /\ [][Next]_vars

(* Playwright's calls have timeouts, and asyncio.Lock is first come, first *)
(* served.                                                                 *)
FairSpec ==
  /\ Spec
  /\ \A c \in Callers : WF_vars(Awaited(c)) /\ SF_vars(Acquire(c))

-----------------------------------------------------------------------------
TypeOK ==
  /\ used \in Nat
  /\ state \in {"active", "challenged"}
  /\ context \in Contexts \cup {None}
  /\ running \subseteq Contexts
  /\ dressed \subseteq Contexts
  /\ stealth \in BOOLEAN
  /\ holder \in Callers \cup {Nobody}
  /\ pc \in [Callers -> Admitted \cup Paging \cup {"idle"}]
  /\ on \in [Callers -> Contexts \cup {None}]
  /\ late \in Nat
  /\ crowded \in BOOLEAN
  /\ failed \in BOOLEAN
  /\ blamed \in BOOLEAN

(* The charges the admitted calls may still make: one each.                *)
Outstanding == {p \in Callers \X {1} : pc[p[1]] \in Admitted}

(* The fetcher is an admission ledger with one charge per call             *)
(* (headless.py:128, 142).                                                 *)
Ledger == INSTANCE AdmissionLedger WITH PerCall <- 1, permits <- Outstanding

LedgerRefined == Ledger!Spec

(* The cap is overshot by less than one page of every caller (headless.py: *)
(* 128, 142).                                                              *)
UsedBounded == used <= IF Cap = 0 THEN 0 ELSE Cap - 1 + Cardinality(Callers)

(* A challenged account still has a page opened by each call that had      *)
(* passed the health check, and by no other (headless.py:137-144).         *)
LatePagesBounded ==
  state # "active" => late + Cardinality(Outstanding) <= Cardinality(Callers) - 1

(* The lock makes pages follow one another (headless.py:141).              *)
OnePageAtATime ==
  \A c, d \in Callers : pc[c] \in Paging /\ pc[d] \in Paging => c = d

(* However many calls set up at once, and whichever of their contexts      *)
(* stays, a context without cookies is one that is still being set up, or  *)
(* one whose set-up failed (headless.py:84, 103, 120).                     *)
BareIsTransient ==
  context # None /\ context \notin dressed =>
    failed \/ \E c \in Callers : pc[c] \in {"scripting", "dressing"}

(* The account is not challenged on account of a page that had no cookies, *)
(* unless calls overlapped the set-up or one failed half-way; then it may  *)
(* be, and stays so though its cookies are good (headless.py:65, 199).     *)
FalseChallengeNeedsRace == blamed => crowded \/ failed

(* A browser is left running that nothing refers to only after such an     *)
(* overlap or failure (headless.py:69, 84).                                *)
LeakNeedsRace ==
  ~crowded /\ ~failed => running \subseteq {context} \cup {on[c] : c \in Callers}

(* Every admitted call comes to a payload or an exception.                 *)
CallsEnd == \A c \in Callers : pc[c] # "idle" ~> pc[c] = "idle"
=============================================================================
