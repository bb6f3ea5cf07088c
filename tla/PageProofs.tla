----------------------------- MODULE PageProofs -----------------------------
(***************************************************************************)
(* The page.  Its wake loop keeps its time and its patience for every      *)
(* choice of timeout, refresh interval, number of attempts and delays; a   *)
(* page that settles shows the verdict of its job.                         *)
(***************************************************************************)
EXTENDS JobWatch, ServiceProofs, SequenceTheorems

(***************************************************************************)
(* The wake loop.                                                          *)
(***************************************************************************)
Running == {"requesting", "checking", "pausing"}

WakeTypeOK ==
  /\ loop \in LoopStates
  /\ now \in Nat /\ timer \in Nat /\ attempts \in Nat /\ nextWake \in Nat
  /\ failures \in Nat /\ poll \in Nat /\ transients \in Nat

\* How far the loop has come.
Timed ==
  /\ loop = "off" => now = 0
  /\ loop \in Running => now <= timer /\ timer <= WakeTimeout + 1
  /\ loop = "requesting" => timer <= WakeTimeout
  /\ loop = "checking" => timer <= nextWake + RequestTimeout
  /\ loop = "pausing" => timer <= nextWake + RequestTimeout + 1 /\ timer <= WakeTimeout

\* The time that a number of attempts has taken, but for transient failures.
Slack      == LeaseRefresh - InitialPoll
Earned(n)  == n * LeaseRefresh - transients * Slack

Paced ==
  /\ loop = "requesting" => attempts >= 1 /\ now >= Earned(attempts - 1)
  /\ loop \in {"checking", "pausing"} => attempts >= 1 /\ nextWake >= Earned(attempts)
  /\ loop \in Running => attempts <= MaxAttempts

WakeInv == WakeTypeOK /\ Timed /\ Paced /\ Patient

LEMMA RetryDelayBounds ==
  ASSUME NEW n \in Nat, n >= 1
  PROVE  RetryDelay(n) \in Nat /\ InitialPoll <= RetryDelay(n) /\ RetryDelay(n) <= LeaseRefresh
<1>1. PICK k \in 1 .. 6 : k = Least(n, 6)
  BY DEF Least
<1>2. PICK c \in Nat : c >= 1 /\ c = <<1, 2, 4, 8, 16, 32>>[k]
  <2>1. k = 1 \/ k = 2 \/ k = 3 \/ k = 4 \/ k = 5 \/ k = 6
    OBVIOUS
  <2>2. QED
    BY <2>1
<1>3. RetryDelay(n) = Least(LeaseRefresh, InitialPoll * c)
  BY <1>1, <1>2 DEF RetryDelay
<1>4. InitialPoll * c \in Nat /\ InitialPoll * c >= InitialPoll
  BY <1>2, TimesAssumption
<1>5. QED
  BY <1>3, <1>4, TimesAssumption DEF Least

LEMMA ClippedBounds ==
  ASSUME NEW t \in Nat
  PROVE  /\ Clipped(t) \in Nat /\ 1 <= Clipped(t) /\ Clipped(t) <= RequestTimeout
         /\ t <= WakeTimeout => t + Clipped(t) <= WakeTimeout + 1
BY TimesAssumption DEF Clipped, Least, Greatest

\* What the actions that leave a request or a wait have in common: the two
\* products of Earned move by one factor at a time.
LEMMA EarnedSteps ==
  ASSUME NEW n \in Nat, transients \in Nat
  PROVE  /\ Slack \in Nat /\ Earned(n) \in Int
         /\ Earned(n + 1) = Earned(n) + LeaseRefresh
         /\ Earned(0) = -(transients * Slack) /\ transients * Slack >= 0
<1>1. Slack \in Nat /\ LeaseRefresh \in Nat
  BY TimesAssumption DEF Slack
<1>2. transients * Slack \in Nat
  BY <1>1
<1>3. n * LeaseRefresh \in Nat /\ (n + 1) * LeaseRefresh = n * LeaseRefresh + LeaseRefresh
  BY <1>1
<1>4. 0 * LeaseRefresh = 0
  BY <1>1
<1>5. QED
  BY <1>1, <1>2, <1>3, <1>4 DEF Earned

LEMMA WakeInvInit == WakeInit => WakeInv
BY TimesAssumption DEF WakeInit, WakeInv, WakeTypeOK, LoopStates, Timed, Running, Paced, Patient

LEMMA ResetKeepsInv == ResetLoop => WakeInv'
BY TimesAssumption DEF ResetLoop, WakeInv, WakeTypeOK, LoopStates, Timed, Running, Paced, Patient

LEMMA FrameKeepsInv == WakeInv /\ UNCHANGED loopVars => WakeInv'
BY DEF loopVars, WakeInv, WakeTypeOK, Timed, Running, Paced, Earned, Slack, Patient

LEMMA StartKeepsInv == WakeInv /\ loop = "off" /\ StartLoop => WakeInv'
<1> SUFFICES ASSUME WakeInv, loop = "off", StartLoop PROVE WakeInv'
  OBVIOUS
<1>1. now = 0 /\ transients \in Nat /\ 1 - 1 = 0
  BY DEF WakeInv, WakeTypeOK, Timed
<1>2. Clipped(0) \in Nat /\ Clipped(0) <= WakeTimeout
  BY TimesAssumption DEF Clipped, Least, Greatest
<1>3. WakeTypeOK' /\ Timed'
  BY <1>1, <1>2, TimesAssumption DEF WakeInv, WakeTypeOK, StartLoop, LoopStates, Timed, Running
<1>4. now >= Earned(0)
  BY <1>1, EarnedSteps
<1>5. Paced'
  BY <1>1, <1>4, TimesAssumption DEF StartLoop, Paced, Running, Earned, Slack
<1>6. Patient'
  BY DEF StartLoop, Patient
<1>7. QED
  BY <1>3, <1>5, <1>6 DEF WakeInv

LEMMA LoopKeepsInv == WakeInv /\ LoopStep => WakeInv'
<1> SUFFICES ASSUME WakeInv, LoopStep PROVE WakeInv'
  OBVIOUS
<1>0. /\ now \in Nat /\ timer \in Nat /\ attempts \in Nat /\ nextWake \in Nat
      /\ failures \in Nat /\ poll \in Nat /\ transients \in Nat
  BY DEF WakeInv, WakeTypeOK
<1>1. CASE WakeAccepted
  <2>1. /\ loop = "requesting" /\ loop' = "checking" /\ nextWake' = now + LeaseRefresh
        /\ timer' = now + Clipped(now) /\ failures' = 0
        /\ UNCHANGED <<now, attempts, poll, transients>>
    BY <1>1 DEF WakeAccepted, BeginCheck
  <2>2. now <= WakeTimeout /\ attempts >= 1 /\ attempts <= MaxAttempts /\ now >= Earned(attempts - 1)
    BY <1>0, <2>1, TimesAssumption DEF WakeInv, Timed, Paced, Running
  <2>3. WakeTypeOK' /\ Timed'
    BY <1>0, <2>1, <2>2, ClippedBounds, TimesAssumption DEF WakeTypeOK, LoopStates, Timed, Running
  <2>4. nextWake' >= Earned(attempts)
    <3>1. attempts - 1 \in Nat /\ (attempts - 1) + 1 = attempts
      BY <1>0, <2>2
    <3>2. Earned(attempts - 1) \in Int /\ Earned(attempts) = Earned(attempts - 1) + LeaseRefresh
      BY <1>0, <3>1, EarnedSteps
    <3>3. QED
      BY <1>0, <2>1, <2>2, <3>2, TimesAssumption
  <2>5. Paced' /\ Patient'
    BY <2>1, <2>2, <2>4 DEF Paced, Patient, Running, Earned, Slack
  <2>6. QED
    BY <2>3, <2>5 DEF WakeInv
<1>2. CASE WakeFails
  <2>1. /\ loop = "requesting" /\ loop' = "checking" /\ nextWake' = now + RetryDelay(failures + 1)
        /\ timer' = now + Clipped(now) /\ failures' = failures + 1 /\ transients' = transients + 1
        /\ UNCHANGED <<now, attempts, poll>>
    BY <1>2 DEF WakeFails, BeginCheck
  <2>2. now <= WakeTimeout /\ attempts >= 1 /\ attempts <= MaxAttempts /\ now >= Earned(attempts - 1)
    BY <1>0, <2>1, TimesAssumption DEF WakeInv, Timed, Paced, Running
  <2>3. RetryDelay(failures + 1) \in Nat /\ InitialPoll <= RetryDelay(failures + 1)
    <3>1. failures + 1 \in Nat /\ failures + 1 >= 1
      BY <1>0
    <3>2. QED
      BY <3>1, RetryDelayBounds
  <2>4. WakeTypeOK' /\ Timed'
    BY <1>0, <2>1, <2>2, <2>3, ClippedBounds, TimesAssumption DEF WakeTypeOK, LoopStates, Timed, Running
  <2>5. nextWake' >= attempts * LeaseRefresh - (transients + 1) * Slack
    <3>1. attempts - 1 \in Nat /\ (attempts - 1) + 1 = attempts
      BY <1>0, <2>2
    <3>2. Earned(attempts - 1) \in Int /\ Earned(attempts) = Earned(attempts - 1) + LeaseRefresh /\ Slack \in Nat
      BY <1>0, <3>1, EarnedSteps
    <3>3. now + LeaseRefresh >= Earned(attempts) /\ Earned(attempts) \in Int
      BY <1>0, <2>2, <3>2, TimesAssumption
    <3>4. /\ transients * Slack \in Int /\ attempts * LeaseRefresh \in Int
          /\ (transients + 1) * Slack = transients * Slack + Slack
      BY <1>0, <3>2, TimesAssumption
    <3>5. nextWake' >= now + LeaseRefresh - Slack
      BY <1>0, <2>1, <2>3, TimesAssumption DEF Slack
    <3>6. nextWake' \in Nat
      BY <2>4 DEF WakeTypeOK
    <3>7. now + LeaseRefresh >= attempts * LeaseRefresh - transients * Slack
      BY <3>3 DEF Earned
    <3>8. LeaseRefresh \in Nat
      BY TimesAssumption
    <3>9. QED
      BY <1>0, <3>2, <3>4, <3>5, <3>6, <3>7, <3>8
  <2>6. Paced' /\ Patient'
    BY <2>1, <2>2, <2>5 DEF Paced, Patient, Running, Earned, Slack
  <2>7. QED
    BY <2>4, <2>6 DEF WakeInv
<1>3. CASE WakeRefused
  BY <1>0, <1>3 DEF WakeRefused, WakeInv, WakeTypeOK, LoopStates, Timed, Running, Paced, Patient
<1>4. CASE FindHealthy
  BY <1>4, ResetKeepsInv DEF FindHealthy
<1>5. CASE FindUnhealthy
  <2>1. /\ loop = "checking" /\ now < WakeTimeout /\ loop' = "pausing" /\ timer' = now + Pause(now)
        /\ poll' = LongerPoll /\ UNCHANGED <<now, attempts, nextWake, failures, transients>>
    BY <1>5 DEF FindUnhealthy
  <2>2. now <= nextWake + RequestTimeout
    BY <1>0, <2>1, TimesAssumption DEF WakeInv, Timed, Running
  <2>3. /\ Pause(now) \in Nat /\ now + Pause(now) <= WakeTimeout
        /\ now + Pause(now) <= nextWake + RequestTimeout + 1
    BY <1>0, <2>1, <2>2, TimesAssumption DEF Pause, Least, Greatest
  <2>4. LongerPoll \in Nat
    BY <1>0, TimesAssumption DEF LongerPoll, Least
  <2>5. WakeTypeOK' /\ Timed'
    BY <1>0, <2>1, <2>3, <2>4, TimesAssumption DEF WakeTypeOK, LoopStates, Timed, Running
  <2>6. Paced' /\ Patient'
    BY <2>1 DEF WakeInv, Paced, Patient, Running, Earned, Slack
  <2>7. QED
    BY <2>5, <2>6 DEF WakeInv
<1>6. CASE WakeTimesOut
  BY <1>0, <1>6 DEF WakeTimesOut, WakeInv, WakeTypeOK, LoopStates, Timed, Running, Paced, Patient
<1>7. CASE CheckAgain
  <2>1. /\ loop = "pausing" /\ now < WakeTimeout /\ now < nextWake
        /\ loop' = "checking" /\ timer' = now + Clipped(now)
        /\ UNCHANGED <<now, attempts, nextWake, failures, poll, transients>>
    BY <1>7 DEF CheckAgain, BeginCheck
  <2>2. WakeTypeOK' /\ Timed'
    BY <1>0, <2>1, ClippedBounds, TimesAssumption DEF WakeTypeOK, LoopStates, Timed, Running
  <2>3. Paced' /\ Patient'
    BY <2>1 DEF WakeInv, Paced, Patient, Running, Earned, Slack
  <2>4. QED
    BY <2>2, <2>3 DEF WakeInv
<1>8. CASE RenewLease
  <2>1. /\ loop = "pausing" /\ now < WakeTimeout /\ now >= nextWake /\ attempts < MaxAttempts
        /\ loop' = "requesting" /\ attempts' = attempts + 1 /\ timer' = now + Clipped(now)
        /\ UNCHANGED <<now, nextWake, failures, poll, transients>>
    BY <1>8 DEF RenewLease
  <2>2. Clipped(now) \in Nat /\ now + Clipped(now) <= WakeTimeout
    BY <1>0, <2>1, TimesAssumption DEF Clipped, Least, Greatest
  <2>3. WakeTypeOK' /\ Timed'
    BY <1>0, <2>1, <2>2, TimesAssumption DEF WakeTypeOK, LoopStates, Timed, Running
  <2>4. now >= Earned(attempts)
    BY <1>0, <2>1, EarnedSteps DEF WakeInv, Paced
  <2>5. Paced' /\ Patient'
    <3>1. attempts' - 1 = attempts /\ attempts' >= 1 /\ attempts' <= MaxAttempts
      BY <1>0, <2>1, TimesAssumption
    <3>2. now' >= (attempts' - 1) * LeaseRefresh - transients' * (LeaseRefresh - InitialPoll)
      BY <2>1, <2>4, <3>1 DEF Earned, Slack
    <3>3. QED
      BY <2>1, <3>1, <3>2 DEF Paced, Patient, Running, Earned, Slack
  <2>6. QED
    BY <2>3, <2>5 DEF WakeInv
<1>9. CASE ExhaustAttempts
  <2>1. /\ loop = "pausing" /\ now < WakeTimeout /\ now >= nextWake /\ attempts >= MaxAttempts
        /\ loop' = "exhausted"
        /\ UNCHANGED <<now, timer, attempts, nextWake, failures, poll, transients>>
    BY <1>9 DEF ExhaustAttempts
  <2>2. attempts = MaxAttempts /\ nextWake >= Earned(attempts)
    BY <1>0, <2>1, TimesAssumption DEF WakeInv, Paced, Running
  <2>3. transients * Slack > MaxAttempts * LeaseRefresh - WakeTimeout
    <3>1. Earned(MaxAttempts) \in Int /\ Slack \in Nat /\ WakeTimeout \in Nat /\ MaxAttempts \in Nat
      BY <1>0, EarnedSteps, TimesAssumption
    <3>2. WakeTimeout > MaxAttempts * LeaseRefresh - transients * Slack
      BY <1>0, <2>1, <2>2, <3>1 DEF Earned
    <3>3. transients * Slack \in Int /\ MaxAttempts * LeaseRefresh \in Int
      BY <1>0, <3>1, TimesAssumption
    <3>4. QED
      BY <3>1, <3>2, <3>3
  <2>4. WakeTypeOK' /\ Timed' /\ Paced'
    BY <1>0, <2>1 DEF WakeTypeOK, LoopStates, Timed, Paced, Running
  <2>5. Patient'
    BY <2>1, <2>3 DEF Patient, Slack
  <2>6. QED
    BY <2>4, <2>5 DEF WakeInv
<1>10. CASE RejectWaiting
  BY <1>10, ResetKeepsInv DEF RejectWaiting
<1>11. CASE Elapse
  <2>1. /\ loop \in Running /\ now < timer /\ now' = now + 1
        /\ UNCHANGED <<loop, timer, attempts, nextWake, failures, poll, transients>>
    BY <1>11 DEF Elapse, Running
  <2>2. WakeTypeOK' /\ Timed'
    BY <1>0, <2>1 DEF WakeInv, WakeTypeOK, Timed, Running
  <2>3. loop = "requesting" => now' >= Earned(attempts - 1)
    <3>1. ASSUME loop = "requesting" PROVE now' >= Earned(attempts - 1)
      <4>1. attempts - 1 \in Nat /\ now >= Earned(attempts - 1)
        BY <1>0, <3>1 DEF WakeInv, Paced
      <4>2. Earned(attempts - 1) \in Int
        BY <1>0, <4>1, EarnedSteps
      <4>3. QED
        BY <1>0, <2>1, <4>1, <4>2
    <3>2. QED
      BY <3>1
  <2>4. Paced' /\ Patient'
    BY <2>1, <2>3 DEF WakeInv, Paced, Patient, Running, Earned, Slack
  <2>5. QED
    BY <2>2, <2>4 DEF WakeInv
<1>12. QED
  BY <1>1, <1>2, <1>3, <1>4, <1>5, <1>6, <1>7, <1>8, <1>9, <1>10, <1>11 DEF LoopStep

LEMMA WakeInvNext == WakeInv /\ [WakeNext]_wakeVars => WakeInv'
<1> SUFFICES ASSUME WakeInv, [WakeNext]_wakeVars PROVE WakeInv'
  OBVIOUS
<1>1. CASE LoopStep
  BY <1>1, LoopKeepsInv
<1>2. CASE Stale
  BY <1>2, FrameKeepsInv DEF Stale
<1>3. CASE RefreshHealth
  BY <1>3, FrameKeepsInv DEF RefreshHealth
<1>4. ASSUME NEW a \in Actions, Ask(a) PROVE WakeInv'
  BY <1>4, FrameKeepsInv, StartKeepsInv DEF Ask
<1>5. ASSUME NEW a \in Actions, Answer(a) PROVE WakeInv'
  BY <1>5, FrameKeepsInv DEF Answer
<1>6. CASE UNCHANGED wakeVars
  BY <1>6, FrameKeepsInv DEF wakeVars
<1>7. QED
  BY <1>1, <1>2, <1>3, <1>4, <1>5, <1>6 DEF WakeNext

LEMMA WakeInvKeepsTime == WakeInv => KeepsTime
BY TimesAssumption DEF WakeInv, WakeTypeOK, Timed, Running, KeepsTime

\* The loop of a page (wakeBackend) ends at its deadline and renews its lease on
\* time, whatever the delays it is configured with.
THEOREM WakeTimely == WakeSpec => []KeepsTime
<1>1. WakeInit => WakeInv
  BY WakeInvInit
<1>2. WakeInv /\ [WakeNext]_wakeVars => WakeInv'
  BY WakeInvNext
<1>3. WakeInv => KeepsTime
  BY WakeInvKeepsTime
<1>4. QED
  BY <1>1, <1>2, <1>3, PTL DEF WakeSpec

\* The loop of a page gives up before its deadline only if so many of its wake
\* requests have failed that the backoff used the attempts up.
THEOREM WakePatience == WakeSpec => []Patient
<1>1. WakeInit => WakeInv
  BY WakeInvInit
<1>2. WakeInv /\ [WakeNext]_wakeVars => WakeInv'
  BY WakeInvNext
<1>3. WakeInv => Patient
  BY DEF WakeInv
<1>4. QED
  BY <1>1, <1>2, <1>3, PTL DEF WakeSpec

(***************************************************************************)
(* The page that follows a job.  An event or an answer that is on its way  *)
(* was true when it was read; a final status it carries still is, since    *)
(* the engine never revises one.                                           *)
(***************************************************************************)
Events == Statuses \cup {"done", "error"}

PageTypeOK ==
  /\ page    \in [Watched -> PageStates]
  /\ shown   \in [Watched -> Statuses]
  /\ sent    \in [Watched -> Statuses \cup {NoEvent, "closed"}]
  /\ wire    \in [Watched -> Seq(Events)]
  /\ replies \in [Watched -> [Polls -> Statuses \cup {NoEvent, "refused"}]]

\* A final status in an event or an answer is the status of the job.
StillTrue(j, what) == what \in Terminal => what = status[j]

\* The event before the end of a stream was the final status.
DoneAfterVerdict(j) ==
  \A k \in 1 .. Len(wire[j]) : wire[j][k] = "done" =>
    IF k = 1 THEN shown[j] \in Terminal /\ shown[j] = status[j] ELSE wire[j][k - 1] \in Terminal

Streamed(j) ==
  /\ page[j] = "submitting" => wire[j] = <<>>
  /\ page[j] = "streaming" =>
       DoneAfterVerdict(j) /\ \A k \in 1 .. Len(wire[j]) : StillTrue(j, wire[j][k])

\* Nothing is out but the polls of a page that polls.
Polled(j) ==
  \A n \in Polls :
    /\ StillTrue(j, replies[j][n])
    /\ replies[j][n] # NoEvent => page[j] \in {"polling", "interval"}

Settled(j) == page[j] = "settled" => shown[j] \in Terminal /\ shown[j] = status[j]

PagesInv == PageTypeOK /\ \A j \in Watched : Streamed(j) /\ Polled(j) /\ Settled(j)

LEMMA PagesInitially == PagesInit => PagesInv
BY DEF PagesInit, WatchInit, PagesInv, PageTypeOK, PageStates, Statuses, Terminal, Streamed, Polled,
       Settled, StillTrue, NoEvent

\* As long as final statuses stay what they are, the engine does not disturb a page.
LEMMA EngineKeepsPages ==
  ASSUME PagesInv, UNCHANGED pageVars,
         \A j \in Jobs : status[j] \in Terminal => status'[j] = status[j]
  PROVE  PagesInv'
<1>1. \A j \in Watched : j \in Jobs
  BY WatchAssumption
<1>2. UNCHANGED <<page, shown, sent, wire, replies>>
  BY DEF pageVars
<1>3. PageTypeOK'
  BY <1>2 DEF PagesInv, PageTypeOK
<1>4. ASSUME NEW j \in Watched PROVE Streamed(j)' /\ Polled(j)' /\ Settled(j)'
  BY <1>1, <1>2, <1>4 DEF PagesInv, Streamed, DoneAfterVerdict, Polled, Settled, StillTrue
<1>5. QED
  BY <1>3, <1>4 DEF PagesInv

\* A step of one page leaves the others alone.
LEMMA OnePage ==
  ASSUME PagesInv, NEW j \in Watched, UNCHANGED status, PageTypeOK',
         \A k \in Watched : k # j => /\ page'[k] = page[k] /\ shown'[k] = shown[k]
                                     /\ wire'[k] = wire[k] /\ replies'[k] = replies[k],
         Streamed(j)', Polled(j)', Settled(j)'
  PROVE  PagesInv'
<1> SUFFICES ASSUME NEW k \in Watched, k # j PROVE Streamed(k)' /\ Polled(k)' /\ Settled(k)'
  BY DEF PagesInv
<1> QED
  BY DEF PagesInv, Streamed, DoneAfterVerdict, Polled, Settled, StillTrue

LEMMA SubmissionKeepsPages ==
  ASSUME PagesInv, NEW j \in Watched, UNCHANGED status,
         OpenStream(j) \/ ShowRefusal(j) \/ LoseAnswer(j)
  PROVE  PagesInv'
<1> USE DEF PagesInv, PageTypeOK, Leave
<1>1. page[j] = "submitting" /\ UNCHANGED <<sent, wire, replies>>
  BY DEF OpenStream, ShowRefusal, LoseAnswer
<1>2. PICK to \in {"streaming", "polling", "abandoned"} : page' = [page EXCEPT ![j] = to]
  BY DEF OpenStream, ShowRefusal, LoseAnswer
<1>3. UNCHANGED shown \/ shown' = [shown EXCEPT ![j] = "failed"]
  BY DEF OpenStream, ShowRefusal, LoseAnswer
<1>4. PageTypeOK'
  BY <1>1, <1>2, <1>3 DEF PageStates, Statuses, Terminal
<1>5. Streamed(j)' /\ Polled(j)' /\ Settled(j)'
  <2>1. wire[j] = <<>> /\ 1 .. Len(wire[j]) = {}
    BY <1>1, EmptySeq DEF Streamed
  <2>2. QED
    BY <1>1, <1>2, <2>1 DEF Streamed, DoneAfterVerdict, Polled, Settled, StillTrue
<1>6. QED
  BY <1>1, <1>2, <1>3, <1>4, <1>5, OnePage

\* The server's end of the stream appends one or two events.
LEMMA SnapshotKeepsPages ==
  ASSUME PagesInv, TypeOK, NEW j \in Watched, UNCHANGED status, PublishSnapshot(j) \/ SnapshotFails(j)
  PROVE  PagesInv'
<1> USE DEF PagesInv, PageTypeOK
<1>1. status[j] \in Statuses
  BY WatchAssumption DEF TypeOK, StoreTypeOK
<1>2. page[j] = "streaming" /\ UNCHANGED <<page, shown, replies>>
  BY DEF PublishSnapshot, SnapshotFails
<1>3. PICK more \in Seq(Events) :
        /\ wire' = [wire EXCEPT ![j] = @ \o more]
        /\ \/ more = <<"error">>
           \/ more = <<status[j]>> /\ status[j] \notin Terminal
           \/ more = <<status[j], "done">> /\ status[j] \in Terminal
  <2>1. wire[j] \in Seq(Events) /\ "error" \in Events
    BY DEF Events
  <2>2. CASE SnapshotFails(j)
    <3>1. wire' = [wire EXCEPT ![j] = @ \o <<"error">>]
      BY <2>1, <2>2, AppendIsConcat DEF SnapshotFails
    <3>2. <<"error">> \in Seq(Events)
      BY <2>1
    <3>3. QED
      BY <3>1, <3>2
  <2>3. CASE PublishSnapshot(j)
    <3>1. <<"error">> \in Seq(Events) /\ <<status[j]>> \in Seq(Events) /\ <<status[j], "done">> \in Seq(Events)
      BY <1>1 DEF Events
    <3>2. QED
      BY <2>3, <3>1 DEF PublishSnapshot
  <2>4. QED
    BY <2>2, <2>3
<1> DEFINE old == wire[j]
           new == wire'[j]
<1>4. /\ new \in Seq(Events) /\ Len(new) = Len(old) + Len(more) /\ old \in Seq(Events)
      /\ \A k \in 1 .. Len(old) + Len(more) : new[k] = IF k <= Len(old) THEN old[k] ELSE more[k - Len(old)]
  BY <1>3, ConcatProperties
<1>5. PageTypeOK'
  <2>1. sent' \in [Watched -> Statuses \cup {NoEvent, "closed"}]
    BY <1>1 DEF PublishSnapshot, SnapshotFails
  <2>2. wire' \in [Watched -> Seq(Events)]
    BY <1>3, <1>4
  <2>3. QED
    BY <1>2, <2>1, <2>2
<1>6. ASSUME NEW k \in 1 .. Len(new), new[k] \in Terminal PROVE new[k] = status[j]
  <2>1. CASE k <= Len(old)
    <3>1. k \in 1 .. Len(old) /\ new[k] = old[k]
      BY <1>3, <1>4, <2>1
    <3>2. QED
      BY <1>2, <1>6, <3>1 DEF Streamed, StillTrue
  <2>2. CASE k > Len(old)
    <3>1. k - Len(old) \in 1 .. Len(more) /\ new[k] = more[k - Len(old)]
      BY <1>3, <1>4, <2>2
    <3>2. more[k - Len(old)] \in {"error", "done", status[j]}
      <4>1. CASE Len(more) = 1
        BY <1>3, <3>1, <4>1
      <4>2. CASE more = <<status[j], "done">>
        <5>1. Len(more) = 2 /\ more[1] = status[j] /\ more[2] = "done"
          BY <4>2
        <5>2. k - Len(old) \in {1, 2}
          BY <1>4, <3>1, <5>1
        <5>3. QED
          BY <5>1, <5>2
      <4>3. QED
        BY <1>3, <4>1, <4>2
    <3>3. QED
      BY <1>6, <3>1, <3>2 DEF Terminal
  <2>3. QED
    BY <1>3, <1>4, <2>1, <2>2
<1>7. DoneAfterVerdict(j)'
  <2> SUFFICES ASSUME NEW k \in 1 .. Len(new), new[k] = "done"
               PROVE  IF k = 1 THEN shown[j] \in Terminal /\ shown[j] = status[j] ELSE new[k - 1] \in Terminal
    BY <1>2 DEF DoneAfterVerdict
  <2>1. CASE k <= Len(old)
    <3>1. k \in 1 .. Len(old) /\ new[k] = old[k] /\ (k # 1 => new[k - 1] = old[k - 1])
      BY <1>3, <1>4, <2>1
    <3>2. QED
      BY <1>2, <3>1 DEF Streamed, DoneAfterVerdict
  <2>2. CASE k > Len(old)
    <3>1. status[j] # "done"
      BY <1>1 DEF Statuses, Terminal
    <3>2. more = <<status[j], "done">> /\ status[j] \in Terminal /\ k = Len(old) + 2
      BY <1>3, <1>4, <2>2, <3>1
    <3>3. new[Len(old) + 1] = status[j]
      BY <1>4, <3>2
    <3>4. QED
      BY <1>4, <3>2, <3>3
  <2>3. QED
    BY <1>4, <2>1, <2>2
<1>8. Streamed(j)' /\ Polled(j)' /\ Settled(j)'
  BY <1>2, <1>6, <1>7 DEF Streamed, Polled, Settled, StillTrue
<1>9. QED
  BY <1>2, <1>3, <1>5, <1>8, OnePage

LEMMA EventKeepsPages ==
  ASSUME PagesInv, NEW j \in Watched, UNCHANGED status, ReceiveEvent(j)
  PROVE  PagesInv'
<1> USE DEF PagesInv, PageTypeOK
<1> DEFINE event == Head(wire[j])
           rest  == Tail(wire[j])
<1>1. page[j] = "streaming" /\ wire[j] \in Seq(Events) /\ wire[j] # <<>> /\ UNCHANGED <<sent, replies>>
  BY DEF ReceiveEvent
<1>2. /\ wire' = [wire EXCEPT ![j] = rest]
      /\ page' = [page EXCEPT ![j] = IF event = "done" THEN "settled"
                                     ELSE IF event = "error" THEN "polling" ELSE page[j]]
      /\ shown' = [shown EXCEPT ![j] = IF event \in {"done", "error"} THEN shown[j] ELSE event]
  BY DEF ReceiveEvent
<1>3. /\ event \in Events /\ rest \in Seq(Events) /\ Len(rest) = Len(wire[j]) - 1
      /\ \A k \in 1 .. Len(rest) : rest[k] = wire[j][k + 1]
      /\ event = wire[j][1] /\ 1 \in 1 .. Len(wire[j]) /\ Len(wire[j]) \in Nat
  BY <1>1, HeadTailProperties, EmptySeq, LenProperties
<1>4. DoneAfterVerdict(j) /\ \A k \in 1 .. Len(wire[j]) : StillTrue(j, wire[j][k])
  BY <1>1 DEF Streamed
<1> HIDE DEF event, rest
<1>5. PageTypeOK'
  BY <1>1, <1>2, <1>3 DEF Events, PageStates
<1>6. Settled(j)'
  BY <1>1, <1>2, <1>3, <1>4 DEF Settled, DoneAfterVerdict
<1>7. Polled(j)'
  BY <1>1, <1>2 DEF Polled, StillTrue
<1>8. Streamed(j)'
  <2>1. \A k \in 1 .. Len(rest) : StillTrue(j, rest[k])
    <3> SUFFICES ASSUME NEW k \in 1 .. Len(rest) PROVE StillTrue(j, rest[k])
      OBVIOUS
    <3>1. k + 1 \in 1 .. Len(wire[j]) /\ rest[k] = wire[j][k + 1]
      BY <1>3
    <3>2. QED
      BY <1>4, <3>1
  <2>2. ASSUME event \notin {"done", "error"} PROVE DoneAfterVerdict(j)'
    <3> SUFFICES ASSUME NEW k \in 1 .. Len(rest), rest[k] = "done"
                 PROVE  IF k = 1 THEN event \in Terminal /\ event = status[j] ELSE rest[k - 1] \in Terminal
      BY <1>2, <2>2 DEF DoneAfterVerdict
    <3>1. k + 1 \in 1 .. Len(wire[j]) /\ wire[j][k + 1] = "done" /\ wire[j][k] \in Terminal
      BY <1>3, <1>4 DEF DoneAfterVerdict
    <3>2. QED
      BY <1>3, <1>4, <3>1 DEF StillTrue
  <2>3. QED
    BY <1>1, <1>2, <2>1, <2>2 DEF Streamed, StillTrue
<1>9. QED
  BY <1>1, <1>2, <1>5, <1>6, <1>7, <1>8, OnePage

LEMMA PollKeepsPages ==
  ASSUME PagesInv, TypeOK, MaxPolls = 1, NEW j \in Watched, UNCHANGED status,
         GetExecution(j) \/ RefusePoll(j) \/ FetchStatus(j) \/ LosePoll(j) \/ StreamDrops(j)
  PROVE  PagesInv'
<1> USE DEF PagesInv, PageTypeOK, NoEvent
<1>1. status[j] \in Statuses /\ Polls = {1}
  BY WatchAssumption DEF TypeOK, StoreTypeOK, Polls
<1>2. CASE GetExecution(j) \/ RefusePoll(j)
  <2>1. PICK what \in {"refused", status[j]} : Poll(j, 1, what)
    BY <1>1, <1>2 DEF GetExecution, RefusePoll
  <2>2. /\ page[j] \in {"polling", "interval"} /\ replies' = [replies EXCEPT ![j][1] = what]
        /\ UNCHANGED <<page, shown, sent, wire>>
    BY <2>1 DEF Poll
  <2>3. PageTypeOK'
    BY <1>1, <2>2
  <2>4. Streamed(j)' /\ Polled(j)' /\ Settled(j)'
    BY <1>1, <2>2 DEF Streamed, Polled, Settled, StillTrue, Terminal
  <2>5. QED
    BY <2>2, <2>3, <2>4, OnePage
<1>3. CASE FetchStatus(j)
  <2> DEFINE answer == replies[j][1]
  <2>1. /\ answer # NoEvent /\ replies' = [replies EXCEPT ![j][1] = NoEvent]
        /\ shown' = [shown EXCEPT ![j] = IF answer = "refused" THEN "failed" ELSE answer]
        /\ page'  = [page EXCEPT ![j] = IF page[j] = "polling" THEN "interval"
                                        ELSE IF page[j] # "interval" THEN page[j]
                                        ELSE IF answer = "refused" THEN "abandoned"
                                        ELSE IF answer \in Terminal THEN "settled" ELSE page[j]]
        /\ UNCHANGED <<sent, wire>>
    BY <1>1, <1>3 DEF FetchStatus
  <2>2. page[j] \in {"polling", "interval"} /\ StillTrue(j, answer)
    BY <1>1, <2>1 DEF Polled
  <2>3. answer \in Statuses \cup {"refused"}
    BY <1>1, <2>1
  <2> HIDE DEF answer
  <2>4. PageTypeOK'
    BY <1>1, <2>1, <2>3 DEF PageStates, Statuses, Terminal
  <2>5. Streamed(j)' /\ Polled(j)' /\ Settled(j)'
    BY <1>1, <2>1, <2>2 DEF Streamed, Polled, Settled, StillTrue, Terminal
  <2>6. QED
    BY <2>1, <2>4, <2>5, OnePage
<1>4. CASE LosePoll(j)
  <2>1. /\ replies[j][1] # NoEvent /\ replies' = [replies EXCEPT ![j][1] = NoEvent]
        /\ page'  = [page EXCEPT ![j] = IF page[j] = "polling" THEN "abandoned" ELSE page[j]]
        /\ shown' = [shown EXCEPT ![j] = IF page[j] = "polling" THEN "failed" ELSE shown[j]]
        /\ UNCHANGED <<sent, wire>>
    BY <1>1, <1>4 DEF LosePoll
  <2>2. page[j] \in {"polling", "interval"}
    BY <1>1, <2>1 DEF Polled
  <2>3. PageTypeOK'
    BY <1>1, <2>1 DEF PageStates, Statuses, Terminal
  <2>4. Streamed(j)' /\ Polled(j)' /\ Settled(j)'
    BY <1>1, <2>1, <2>2 DEF Streamed, Polled, Settled, StillTrue, Terminal
  <2>5. QED
    BY <2>1, <2>3, <2>4, OnePage
<1>5. CASE StreamDrops(j)
  <2>1. /\ page[j] = "streaming" /\ page' = [page EXCEPT ![j] = "polling"]
        /\ sent' = [sent EXCEPT ![j] = "closed"] /\ wire' = [wire EXCEPT ![j] = <<>>]
        /\ UNCHANGED <<shown, replies>>
    BY <1>5 DEF StreamDrops, Leave
  <2>2. PageTypeOK'
    BY <2>1 DEF PageStates
  <2>3. Streamed(j)' /\ Polled(j)' /\ Settled(j)'
    BY <1>1, <2>1 DEF Streamed, Polled, Settled, StillTrue
  <2>4. QED
    BY <2>1, <2>2, <2>3, OnePage
<1>6. QED
  BY <1>2, <1>3, <1>4, <1>5

WatchInv == HashInv /\ PagesInv

LEMMA WatchStep ==
  ASSUME LocalEngine, OneWorker, Faults \subseteq HarmlessFaults, MaxPolls = 1, WatchInv,
         [WatchNext]_watchVars
  PROVE  WatchInv'
<1> USE DEF WatchInv
<1>1. [Next]_vars
  BY DEF WatchNext, EngineStep, WakeStep, watchVars
<1>2. HashInv' /\ \A j \in Jobs : status[j] \in Terminal => status'[j] = status[j]
  BY <1>1, HashStep, VerdictsKept
<1>3. CASE UNCHANGED pageVars
  BY <1>2, <1>3, EngineKeepsPages
<1>4. ASSUME NEW j \in Watched, Follow(j) \/ Disturb(j), UNCHANGED vars PROVE PagesInv'
  <2>1. UNCHANGED status /\ TypeOK
    BY <1>4 DEF vars, storeVars, HashInv, EngineInv, AdmissionInv, LineageInv, AttemptInv, TypeInv
  <2>2. QED
    BY <1>4, <2>1, SubmissionKeepsPages, SnapshotKeepsPages, EventKeepsPages, PollKeepsPages
       DEF Follow, Disturb
<1>5. QED
  BY <1>2, <1>3, <1>4 DEF WatchNext, EngineStep, WakeStep, watchVars

\* A page that settles shows the final status of its job, and that status never
\* changes again: on the "local" backend with one worker process, for polls that
\* do not overtake each other, whatever else a page's requests meet.
THEOREM PagesShowVerdicts ==
  ASSUME Backend = "local", MaxReplays = 0, Faults \subseteq HarmlessFaults, OneWorker, MaxPolls = 1
  PROVE  WatchSpec => []ShownIsFinal
<1>1. PagesInit => WatchInv
  BY HashInit, PagesInitially DEF PagesInit, WatchInv
<1>2. WatchInv /\ [WatchNext]_watchVars => WatchInv'
  BY WatchStep DEF LocalEngine
<1>3. WatchInv => ShownIsFinal
  BY DEF WatchInv, PagesInv, Settled, ShownIsFinal
<1>4. WatchSpec => PagesInit /\ [][WatchNext]_watchVars
  BY PTL DEF WatchSpec
<1>5. QED
  BY <1>1, <1>2, <1>3, <1>4, PTL

\* The loop that the pages share keeps its time and its patience.
THEOREM PagesWake == WatchSpec => [](KeepsTime /\ Patient)
<1>1. PagesInit => WakeInv
  BY WakeInvInit DEF PagesInit
<1>2. WakeInv /\ [WatchNext]_watchVars => WakeInv'
  <2>1. [WatchNext]_watchVars => [WakeNext]_wakeVars
    BY DEF WatchNext, EngineStep, WakeStep, watchVars, WakeNext, Others
  <2>2. QED
    BY <2>1, WakeInvNext
<1>3. WakeInv => KeepsTime /\ Patient
  BY WakeInvKeepsTime DEF WakeInv
<1>4. WatchSpec => PagesInit /\ [][WatchNext]_watchVars
  BY PTL DEF WatchSpec
<1>5. QED
  BY <1>1, <1>2, <1>3, <1>4, PTL

\* What the pages do is invisible to the engine: all that is proved of the
\* lifecycle alone holds of the lifecycle that pages watch.
THEOREM PagesRunTheEngine == WatchSpec => Spec
<1>1. [WatchNext]_watchVars => [Next]_vars
  BY DEF WatchNext, EngineStep, WakeStep, watchVars
<1>2. WatchSpec => PagesInit /\ [][WatchNext]_watchVars
  BY PTL DEF WatchSpec
<1>3. PagesInit => Init
  BY DEF PagesInit
<1>4. QED
  BY <1>1, <1>2, <1>3, PTL DEF Spec
=============================================================================
