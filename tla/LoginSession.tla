---------------------------- MODULE LoginSession ----------------------------
(***************************************************************************)
(* The browser session of LoginFetcher (fetcher/app/fetchers/login.py)     *)
(* under concurrent calls of _voyager_get on one account.  Requests are    *)
(* sent under self._lock; _ensure_logged_in is not, so a call that starts  *)
(* can launch, validate and sign in while another one, holding the lock,   *)
(* throws the session away and signs in again.                             *)
(*                                                                         *)
(* A context is the browser behind one launch_persistent_context.  Every   *)
(* await after which self._context is read again ends an action.           *)
(***************************************************************************)
EXTENDS Naturals, FiniteSets

CONSTANTS Callers,    \* concurrent calls into the fetcher
          Contexts,   \* bound: browsers that can exist at a time
          MaxTally    \* bound: how far the histories count

ASSUME LoginAssumption ==
  /\ "nobody" \notin Callers
  /\ "none" \notin Contexts
  /\ MaxTally \in Nat \ {0}

VARIABLES context,    \* self._context
          open,       \* browsers that are running
          loggedIn,   \* self._logged_in
          holder,     \* who holds self._lock
          pc,         \* where each call is
          on,         \* the context a call awaits
          token,      \* the context the call read JSESSIONID from
          attempt,    \* requests the call has sent
          closed,     \* history: browsers that a call has closed
          overlaps,   \* history: launches begun while another was in progress
          unclosed    \* history: browsers that were still running after a close

vars == <<context, open, loggedIn, holder, pc, on, token, attempt, closed,
          overlaps, unclosed>>
histories == <<closed, overlaps, unclosed>>

None == "none"
Nobody == "nobody"

Launching == {"launching", "relaunching"}

(* Browsers nobody refers to any more.                                     *)
Fresh == Contexts \ (open \cup {context} \cup {on[c] : c \in Callers}
                          \cup {token[c] : c \in Callers})

Init ==
  /\ context = None
  /\ open = {}
  /\ loggedIn = FALSE
  /\ holder = Nobody
  /\ pc = [c \in Callers |-> "idle"]
  /\ on = [c \in Callers |-> None]
  /\ token = [c \in Callers |-> None]
  /\ attempt = [c \in Callers |-> 0]
  /\ closed = {}
  /\ overlaps = 0
  /\ unclosed = 0

Goto(c, label, k) ==
  /\ pc' = [pc EXCEPT ![c] = label]
  /\ on' = [on EXCEPT ![c] = k]

(* The call returns, raises, or fails one of its assertions that there is  *)
(* a context; `async with' gives the lock back.                            *)
Leave(c) ==
  /\ Goto(c, "idle", None)
  /\ token' = [token EXCEPT ![c] = None]
  /\ attempt' = [attempt EXCEPT ![c] = 0]
  /\ holder' = IF holder = c THEN Nobody ELSE holder

OneMore(n) == IF n < MaxTally THEN n + 1 ELSE n

CountLaunch(c) ==
  overlaps' = IF \E d \in Callers \ {c} : pc[d] \in Launching
                THEN OneMore(overlaps) ELSE overlaps

-----------------------------------------------------------------------------
(* A browser ends by itself; whoever refers to it finds out when it is     *)
(* used.                                                                   *)
BrowserDies(k) ==
  /\ k \in open
  /\ open' = open \ {k}
  /\ UNCHANGED <<context, loggedIn, holder, pc, on, token, attempt, histories>>

-----------------------------------------------------------------------------
(* _ensure_logged_in *)

Begin(c) ==
  /\ pc[c] = "idle"
  /\ IF context = None
       THEN Goto(c, "launching", None) /\ CountLaunch(c)
       ELSE /\ IF loggedIn THEN Goto(c, "waiting", None)
                           ELSE Goto(c, "validating", context)
            /\ UNCHANGED overlaps
  /\ UNCHANGED <<context, open, loggedIn, holder, token, attempt, closed, unclosed>>

(* A new browser becomes the current one, whatever was.                    *)
Launch ==
  \E k \in Fresh :
    /\ context' = k
    /\ open' = open \cup {k}
    /\ closed' = closed \ {k}

(* The browser is up, on a profile directory another one may be using; or  *)
(* it does not start.                                                      *)
Launched(c) ==
  /\ pc[c] = "launching"
  /\ \/ /\ Launch
        /\ Goto(c, "launched", None)
        /\ UNCHANGED <<holder, token, attempt>>
     \/ Leave(c) /\ UNCHANGED <<context, open, closed>>
  /\ UNCHANGED <<loggedIn, overlaps, unclosed>>

(* add_init_script has been awaited, and may have found its browser closed. *)
Prepared(c) ==
  /\ pc[c] = "launched"
  /\ \/ /\ context # None
        /\ Goto(c, "validating", context)
        /\ UNCHANGED <<holder, token, attempt>>
     \/ Leave(c)
  /\ UNCHANGED <<context, open, loggedIn, histories>>

(* A bad session is closed on the spot, whoever is using it.               *)
ValidatedCloses(c) ==
  /\ pc[c] = "validating"
  /\ \/ /\ loggedIn' = TRUE
        /\ Goto(c, "waiting", None)
        /\ UNCHANGED <<context, open, closed, holder, token, attempt>>
     \/ /\ open' = open \ {on[c]}
        /\ closed' = closed \cup {on[c]}
        /\ context' = IF context = on[c] THEN None ELSE context
        /\ Leave(c)
        /\ UNCHANGED loggedIn
  /\ UNCHANGED <<overlaps, unclosed>>

(* The feed says whether the session is good.  The browser may be gone     *)
(* meanwhile: after the page has answered, or before, which says no, or so *)
(* early that no page can be made.                                         *)
Validated(c) ==
  /\ pc[c] = "validating"
  /\ \/ /\ loggedIn' = TRUE
        /\ IF context = None
             THEN Leave(c)
             ELSE /\ Goto(c, "waiting", None)
                  /\ UNCHANGED <<holder, token, attempt>>
     \/ /\ IF context = None
             THEN Leave(c)
             ELSE /\ Goto(c, "signing", context)
                  /\ UNCHANGED <<holder, token, attempt>>
        /\ UNCHANGED loggedIn
     \/ /\ on[c] \notin open
        /\ Leave(c)
        /\ UNCHANGED loggedIn
  /\ UNCHANGED <<context, open, histories>>

(* _do_login: signed in, or refused, stuck or without a page or a context  *)
(* to save the state of.                                                   *)
SignedIn(c) ==
  /\ pc[c] = "signing"
  /\ \/ /\ loggedIn' = TRUE
        /\ IF context = None
             THEN Leave(c)
             ELSE /\ Goto(c, "waiting", None)
                  /\ UNCHANGED <<holder, token, attempt>>
     \/ Leave(c) /\ UNCHANGED loggedIn
  /\ UNCHANGED <<context, open, histories>>

-----------------------------------------------------------------------------
(* _voyager_get, under the lock *)

Acquire(c) ==
  /\ pc[c] = "waiting"
  /\ holder = Nobody
  /\ holder' = c
  /\ Goto(c, "pacing", None)
  /\ UNCHANGED <<context, open, loggedIn, token, attempt, histories>>

(* The delay is over, and the call asserts that there is a session: it     *)
(* looked for one before it waited for the lock.  (The counter it adds to  *)
(* is AccountPool's.)                                                      *)
Charge(c) ==
  /\ pc[c] = "pacing"
  /\ IF context = None
       THEN Leave(c)
       ELSE /\ Goto(c, "warming", None)
            /\ UNCHANGED <<holder, token, attempt>>
  /\ UNCHANGED <<context, open, loggedIn, histories>>

(* The jar is warmed by a look at the feed, which may fail, and read.      *)
ReadCookie(c) ==
  /\ pc[c] = "warming"
  /\ \/ /\ token' = [token EXCEPT ![c] = context]
        /\ Goto(c, "cookie", None)
        /\ UNCHANGED <<holder, attempt>>
     \/ Leave(c)
  /\ UNCHANGED <<context, open, loggedIn, histories>>

(* The request takes its cookies from self._context as it is now.  Without *)
(* a JSESSIONID there is none.                                             *)
Send(c) ==
  /\ pc[c] = "cookie"
  /\ \/ /\ Goto(c, "sent", context)
        /\ attempt' = [attempt EXCEPT ![c] = @ + 1]
        /\ UNCHANGED <<holder, token>>
     \/ Leave(c)
  /\ UNCHANGED <<context, open, loggedIn, histories>>

(* 200, 429 or another status ends the call; so do, the second time, a     *)
(* rejected session and an exception, which discard the session the first. *)
Answer(c) ==
  /\ pc[c] = "sent"
  /\ \/ Leave(c)
     \/ /\ attempt[c] = 1
        /\ Goto(c, "closing", context)
        /\ UNCHANGED <<holder, token, attempt>>
  /\ UNCHANGED <<context, open, loggedIn, histories>>

(* The reference is dropped and the browser forgotten, not closed.         *)
ClosedForgets(c) ==
  /\ pc[c] = "closing"
  /\ context' = None
  /\ loggedIn' = FALSE
  /\ Goto(c, "relaunching", None)
  /\ CountLaunch(c)
  /\ UNCHANGED <<open, closed, unclosed, holder, token, attempt>>

(* The browser that was current is closed, or the failure to close it is   *)
(* logged; what is current by now, which another call may have launched,   *)
(* is forgotten either way.  The profile directory is removed under        *)
(* whatever runs on it.                                                    *)
Closed(c) ==
  /\ pc[c] = "closing"
  /\ \/ /\ open' = open \ {on[c]}
        /\ closed' = closed \cup {on[c]}
        /\ UNCHANGED unclosed
     \/ /\ unclosed' = IF on[c] \in open THEN OneMore(unclosed) ELSE unclosed
        /\ UNCHANGED <<open, closed>>
  /\ context' = None
  /\ loggedIn' = FALSE
  /\ Goto(c, "relaunching", None)
  /\ CountLaunch(c)
  /\ UNCHANGED <<holder, token, attempt>>

Relaunched(c) ==
  /\ pc[c] = "relaunching"
  /\ \/ /\ Launch
        /\ Goto(c, "relaunched", None)
        /\ UNCHANGED <<holder, token, attempt>>
     \/ Leave(c) /\ UNCHANGED <<context, open, closed>>
  /\ UNCHANGED <<loggedIn, overlaps, unclosed>>

(* add_init_script again; the page to sign in on is made in what is the    *)
(* current browser by now.                                                 *)
Reprepared(c) ==
  /\ pc[c] = "relaunched"
  /\ \/ Goto(c, "relogging", context) /\ UNCHANGED <<holder, token, attempt>>
     \/ Leave(c)
  /\ UNCHANGED <<context, open, loggedIn, histories>>

(* The cookie is read once, before the loop.                               *)
ReloggedRetries(c) ==
  /\ pc[c] = "relogging"
  /\ \/ /\ loggedIn' = TRUE
        /\ Goto(c, "cookie", None)
        /\ UNCHANGED <<holder, token, attempt>>
     \/ Leave(c) /\ UNCHANGED loggedIn
  /\ UNCHANGED <<context, open, histories>>

(* The attempts start again with the new session.                          *)
ReloggedAfresh(c) ==
  /\ pc[c] = "relogging"
  /\ \/ /\ loggedIn' = TRUE
        /\ attempt' = [attempt EXCEPT ![c] = 0]
        /\ Goto(c, "warming", None)
        /\ UNCHANGED <<holder, token>>
     \/ Leave(c) /\ UNCHANGED loggedIn
  /\ UNCHANGED <<context, open, histories>>

(* Signed in again, and round the loop; or not.                            *)
Relogged(c) ==
  /\ pc[c] = "relogging"
  /\ \/ /\ loggedIn' = TRUE
        /\ Goto(c, "warming", None)
        /\ UNCHANGED <<holder, token, attempt>>
     \/ Leave(c) /\ UNCHANGED loggedIn
  /\ UNCHANGED <<context, open, histories>>

Awaited(c) ==
  \/ Launched(c)
  \/ Prepared(c)
  \/ Validated(c)
  \/ SignedIn(c)
  \/ Charge(c)
  \/ ReadCookie(c)
  \/ Send(c)
  \/ Answer(c)
  \/ Closed(c)
  \/ Relaunched(c)
  \/ Reprepared(c)
  \/ Relogged(c)

Next ==
  \/ \E c \in Callers : Begin(c) \/ Acquire(c) \/ Awaited(c)
  \/ \E k \in Contexts : BrowserDies(k)

Spec == Init /\ [][Next]_vars

(* Everything awaited has a timeout, and asyncio.Lock is first come, first *)
(* served.                                                                 *)
FairSpec ==
  /\ Spec
  /\ \A c \in Callers : WF_vars(Awaited(c)) /\ SF_vars(Acquire(c))

-----------------------------------------------------------------------------
TypeOK ==
  /\ context \in Contexts \cup {None}
  /\ open \subseteq Contexts
  /\ closed \subseteq Contexts
  /\ overlaps \in 0 .. MaxTally
  /\ unclosed \in 0 .. MaxTally
  /\ loggedIn \in BOOLEAN
  /\ holder \in Callers \cup {Nobody}
  /\ pc \in [Callers -> {"idle", "launching", "launched", "validating", "signing",
                         "waiting", "pacing", "warming", "cookie", "sent",
                         "closing", "relaunching", "relaunched", "relogging"}]
  /\ on \in [Callers -> Contexts \cup {None}]
  /\ token \in [Callers -> Contexts \cup {None}]
  /\ attempt \in [Callers -> 0 .. 2]

(* Requests of one account never overlap, although sessions of it do       *)
(* (login.py:371).                                                         *)
OneRequestAtATime ==
  \A c, d \in Callers : pc[c] = "sent" /\ pc[d] = "sent" => c = d

(* Nobody closes the browser a request is in flight on, or that a call     *)
(* with the lock is signing in with: only the holder closes one, its own   *)
(* (login.py:311-332, 389).  Such a browser may only die by itself.        *)
InFlightNotClosed ==
  \A c \in Callers : pc[c] \in {"sent", "relogging"} => on[c] \notin closed

(* self._context never names a browser that a call has closed, whoever     *)
(* replaced it while another call was closing or launching one             *)
(* (login.py:145, 313-318); it may name one that died by itself.           *)
CurrentNotClosed == context \notin closed

(* The browsers left running with nobody to close them are no more than    *)
(* the launches that were begun while another was in progress, and the     *)
(* failed closes, whose browser is forgotten all the same: neither costs   *)
(* more than one, and discarding sessions costs none (login.py:145,        *)
(* 300-301, 313-330).                                                      *)
LeaksCounted ==
  overlaps < MaxTally /\ unclosed < MaxTally =>
    Cardinality(open \ {context}) <= overlaps + unclosed

(* The csrf token of a request and its cookies belong to one session, but  *)
(* for the same overlap (login.py:378, 389).                               *)
TokenOfSession ==
  overlaps = 0 => \A c \in Callers : pc[c] = "sent" => token[c] = on[c]

(* Every call comes to an answer or an exception, also the ones waiting    *)
(* behind one that signs in again.                                         *)
CallsEnd == \A c \in Callers : pc[c] # "idle" ~> pc[c] = "idle"

-----------------------------------------------------------------------------
(* What the code and the documents say.                                    *)

(* "assert self._context is not None" (login.py:335), for a call that is   *)
(* about to read its cookies: there is a session when the lock is its.     *)
ContextAsserted == \A c \in Callers : pc[c] = "pacing" => context # None
=============================================================================
