----------------------------- MODULE WakeClient -----------------------------
(***************************************************************************)
(* A browser page wakes the backend before it sends an action of its user: *)
(* one loop, shared by all actions that wait for it, which renews the wake *)
(* lease and asks for /health until the API answers, the attempts are used *)
(* up or the deadline has passed.                                          *)
(*                                                                         *)
(* Time is counted from the begin of the loop, in a unit that stands for   *)
(* the shortest wait the loop makes.  Timers fire on time (a page in the   *)
(* foreground).  lastBackendHealthyAt is abstracted to whether it is less  *)
(* than HEALTHY_CACHE_MS ago.                                              *)
(***************************************************************************)
EXTENDS Integers

CONSTANTS
  Actions,          \* what the user may ask for on the page
  WakeTimeout,      \* WAKE_TIMEOUT_MS
  LeaseRefresh,     \* WAKE_LEASE_REFRESH_MS
  MaxAttempts,      \* WAKE_MAX_ATTEMPTS
  InitialPoll,      \* WAKE_INITIAL_POLL_MS
  MaxPoll,          \* WAKE_MAX_POLL_MS
  RequestTimeout,   \* REQUEST_TIMEOUT_MS
  WakeFaults        \* of "transient" (no answer, 429, 5xx) and "unauthorized" (401, 403)

ASSUME TimesAssumption ==
  /\ {WakeTimeout, LeaseRefresh, MaxAttempts, InitialPoll, MaxPoll, RequestTimeout} \subseteq Nat \ {0}
  /\ InitialPoll <= LeaseRefresh /\ InitialPoll <= MaxPoll
ASSUME WakeFaultsAssumption == WakeFaults \subseteq {"transient", "unauthorized"}

VARIABLES
  asked,      \* where each action is
  fresh,      \* the backend was healthy less than HEALTHY_CACHE_MS ago
  loop,       \* where the loop is
  now,        \* time since the loop began
  timer,      \* when its request is aborted, or its wait ends
  attempts,   \* wakeAttempts
  nextWake,   \* nextWakeAttemptAt
  failures,   \* transientWakeFailures, consecutive ones
  poll,       \* pollDelayMs
  transients  \* auxiliary: all transient failures of this loop

loopVars == <<loop, now, timer, attempts, nextWake, failures, poll, transients>>
wakeVars == <<asked, fresh, loopVars>>

LoopStates ==
  {"off",         \* backendWakePromise is null
   "requesting",  \* POST /wake
   "checking",    \* GET /health
   "pausing",     \* wait
   "refused", "exhausted", "timedOut"}   \* it threw

Least(m, n)    == IF m <= n THEN m ELSE n
Greatest(m, n) == IF m <= n THEN n ELSE m

WakeInit ==
  /\ asked = [a \in Actions |-> "idle"]
  /\ fresh = FALSE
  /\ loop = "off" /\ now = 0 /\ timer = 0 /\ attempts = 0 /\ nextWake = 0
  /\ failures = 0 /\ poll = InitialPoll /\ transients = 0

\* Requests are aborted after their timeout, or at the deadline.
Clipped(t) == Least(RequestTimeout, Greatest(WakeTimeout - t, 1))

\* The n-th consecutive transient failure: exponential backoff.
RetryDelay(n) == Least(LeaseRefresh, InitialPoll * <<1, 2, 4, 8, 16, 32>>[Least(n, 6)])

\* Mutant: the wait does not look at the next attempt.
PollOnly(t) == Least(poll, WakeTimeout - t)

Pause(t) == Least(Least(poll, Greatest(nextWake - t, 1)), WakeTimeout - t)

\* Math.round(pollDelayMs * 1.5), capped.
LongerPoll == Least((3 * poll + 1) \div 2, MaxPoll)

StartLoop ==
  /\ loop' = "requesting"
  /\ attempts' = 1
  /\ timer' = Clipped(0)
  /\ UNCHANGED <<now, nextWake, failures, poll, transients>>

ResetLoop ==
  /\ loop' = "off" /\ now' = 0 /\ timer' = 0 /\ attempts' = 0 /\ nextWake' = 0
  /\ failures' = 0 /\ poll' = InitialPoll /\ transients' = 0

\* ensureBackendAwake
Ask(a) ==
  /\ asked[a] = "idle"
  /\ asked' = [asked EXCEPT ![a] = IF fresh THEN "sent" ELSE "waiting"]
  /\ IF fresh \/ loop # "off" THEN UNCHANGED loopVars ELSE StartLoop
  /\ UNCHANGED fresh

BeginCheck ==
  /\ loop' = "checking"
  /\ timer' = now + Clipped(now)

\* Mutant: the lease is renewed as often as the health is asked for.
RenewedEveryPoll ==
  /\ loop = "requesting"
  /\ BeginCheck
  /\ nextWake' = now + poll
  /\ failures' = 0
  /\ UNCHANGED <<asked, fresh, now, attempts, poll, transients>>

\* The wake endpoint answers 202.
WakeAccepted ==
  /\ loop = "requesting"
  /\ BeginCheck
  /\ nextWake' = now + LeaseRefresh
  /\ failures' = 0
  /\ UNCHANGED <<asked, fresh, now, attempts, poll, transients>>

WakeFails ==
  /\ "transient" \in WakeFaults
  /\ loop = "requesting"
  /\ BeginCheck
  /\ nextWake' = now + RetryDelay(failures + 1)
  /\ failures' = failures + 1
  /\ transients' = transients + 1
  /\ UNCHANGED <<asked, fresh, now, attempts, poll>>

WakeRefused ==
  /\ "unauthorized" \in WakeFaults
  /\ loop = "requesting"
  /\ loop' = "refused"
  /\ UNCHANGED <<asked, fresh, now, timer, attempts, nextWake, failures, poll, transients>>

\* markBackendHealthy; the promise is resolved, and cleared in finally.
FindHealthy ==
  /\ loop = "checking"
  /\ ResetLoop
  /\ fresh' = TRUE
  /\ asked' = [a \in Actions |-> IF asked[a] = "waiting" THEN "sent" ELSE asked[a]]

FindUnhealthy ==
  /\ loop = "checking" /\ now < WakeTimeout
  /\ loop' = "pausing"
  /\ timer' = now + Pause(now)
  /\ poll' = LongerPoll
  /\ UNCHANGED <<asked, fresh, now, attempts, nextWake, failures, transients>>

\* The break after a check, and the condition of the loop.
WakeTimesOut ==
  /\ now >= WakeTimeout
  /\ loop = "checking" \/ (loop = "pausing" /\ now = timer)
  /\ loop' = "timedOut"
  /\ UNCHANGED <<asked, fresh, now, timer, attempts, nextWake, failures, poll, transients>>

CheckAgain ==
  /\ loop = "pausing" /\ now = timer /\ now < WakeTimeout
  /\ now < nextWake
  /\ BeginCheck
  /\ UNCHANGED <<asked, fresh, now, attempts, nextWake, failures, poll, transients>>

RenewLease ==
  /\ loop = "pausing" /\ now = timer /\ now < WakeTimeout
  /\ now >= nextWake /\ attempts < MaxAttempts
  /\ loop' = "requesting"
  /\ attempts' = attempts + 1
  /\ timer' = now + Clipped(now)
  /\ UNCHANGED <<asked, fresh, now, nextWake, failures, poll, transients>>

ExhaustAttempts ==
  /\ loop = "pausing" /\ now = timer /\ now < WakeTimeout
  /\ now >= nextWake /\ attempts >= MaxAttempts
  /\ loop' = "exhausted"
  /\ UNCHANGED <<asked, fresh, now, timer, attempts, nextWake, failures, poll, transients>>

\* The promise is rejected to all that wait for it, and cleared in finally.
RejectWaiting ==
  /\ loop \in {"refused", "exhausted", "timedOut"}
  /\ ResetLoop
  /\ asked' = [a \in Actions |-> IF asked[a] = "waiting" THEN "failed" ELSE asked[a]]
  /\ UNCHANGED fresh

Elapse ==
  /\ loop \in {"requesting", "checking", "pausing"} /\ now < timer
  /\ now' = now + 1
  /\ UNCHANGED <<asked, fresh, loop, timer, attempts, nextWake, failures, poll, transients>>

\* HEALTHY_CACHE_MS have passed.
Stale ==
  /\ fresh /\ fresh' = FALSE
  /\ UNCHANGED <<asked, loopVars>>

\* fetchAuthenticatedJson: 502, 503, 504 and network errors say that the backend
\* is asleep again; the user may ask once more.
Answer(a) ==
  /\ asked[a] \in {"sent", "failed"}
  /\ asked' = [asked EXCEPT ![a] = "idle"]
  /\ fresh' \in IF asked[a] = "sent" THEN {fresh, FALSE} ELSE {fresh}
  /\ UNCHANGED loopVars

\* The health button: the only check that no action waits for.
RefreshHealth ==
  /\ ~fresh /\ fresh' = TRUE
  /\ UNCHANGED <<asked, loopVars>>

LoopStep ==
  \/ WakeAccepted
  \/ WakeFails
  \/ WakeRefused
  \/ FindHealthy
  \/ FindUnhealthy
  \/ WakeTimesOut
  \/ CheckAgain
  \/ RenewLease
  \/ ExhaustAttempts
  \/ RejectWaiting
  \/ Elapse

WakeNext ==
  \/ LoopStep
  \/ Stale
  \/ RefreshHealth
  \/ \E a \in Actions : Ask(a) \/ Answer(a)

WakeSpec == WakeInit /\ [][WakeNext]_wakeVars
-----------------------------------------------------------------------------
\* The loop ends at its deadline, give or take the least timeout, and while it
\* waits a renewal of the lease is never overdue by more than the health check
\* it may have to wait for.
KeepsTime ==
  /\ loop \in {"requesting", "checking", "pausing"} => now <= WakeTimeout + 1
  /\ loop \in {"checking", "pausing"} => now <= nextWake + RequestTimeout + 1

\* The attempts run out before the deadline only after a number of transient
\* failures: four, with 30 attempts of 45 s for 20 minutes.
Patient ==
  loop = "exhausted" =>
    transients * (LeaseRefresh - InitialPoll) > MaxAttempts * LeaseRefresh - WakeTimeout
=============================================================================
