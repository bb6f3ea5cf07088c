--------------------------- MODULE AnalysisProofs ---------------------------
(***************************************************************************)
(* An explanation stays true.  On one worker of the "local" backend, whose *)
(* processors neither die nor fail past the program's end, the attempts of *)
(* a job's two queue entries come one after the other: the second entry is *)
(* added from a dead letter, which the first one's last listener copied    *)
(* after it had written the hash.  The result of an attempt is then the    *)
(* last that is written, and what was read with it cannot become wrong.    *)
(***************************************************************************)
EXTENDS Analysis, ServiceProofs

SteadyWorker == Backend = "local" /\ OneWorker /\ {"workerCrash", "workerCommandError"} \cap Faults = {}

(***************************************************************************)
(* What a step does to an entry, its processor and its listeners.          *)
(***************************************************************************)

\* The m-th listener of the entry goes one step further.
ListenerTurn(e, m) ==
  /\ handler[<<e, m>>] # "none" /\ handler[<<e, m>>] # handler'[<<e, m>>]
  /\ handler'[<<e, m>>] # "notified"
  /\ handler[<<e, m>>] = "copied" => handler'[<<e, m>>] = "done"
  /\ handler[<<e, m>>] \in {"notified", "recorded", "released", "copied"}
  /\ \A n \in 1 .. Attempts : n # m => handler'[<<e, n>>] = handler[<<e, n>>]
  /\ queue'[e] = queue[e] /\ made'[e] = made[e] /\ proc'[e] = proc[e]

EntryTurn(e) ==
  \/ Quiet(e)
  \/ /\ queue[e] \in {"none", "delayed"} /\ queue'[e] = "waiting"
     /\ made'[e] = made[e] /\ proc'[e] = proc[e] /\ KeepsListeners(e)
  \/ /\ queue[e] = "waiting" /\ queue'[e] = "active" /\ proc[e] = "idle" /\ proc'[e] = "taken"
     /\ made'[e] = made[e] /\ KeepsListeners(e)
  \/ Processing(e, "taken", "running") /\ ~SentEarlier(e)
  \/ Processing(e, "running", "executed")
  \/ Processing(e, "executed", "recorded") /\ RecordResult(e)
  \/ Processing(e, "recorded", "charged")
  \/ Processing(e, "charged", "released")
  \/ /\ proc[e] = "released" /\ proc'[e] = "idle" /\ queue[e] = "active" /\ queue'[e] = "completed"
     /\ made'[e] = made[e] /\ KeepsListeners(e)
  \/ /\ proc[e] = "running" /\ proc'[e] = "idle" /\ queue[e] = "active"
     /\ queue'[e] = AfterFailure(e) /\ made'[e] = made[e] + 1
     /\ \A m \in 1 .. Attempts :
          handler'[<<e, m>>] = IF m = made[e] + 1 THEN "notified" ELSE handler[<<e, m>>]
  \/ \E m \in 1 .. Attempts : ListenerTurn(e, m)

\* What the earlier invariants say of an entry.
LEMMA EntryFacts ==
  ASSUME AdmissionInv
  PROVE  /\ TypeOK /\ LineageInv /\ AttemptInv
         /\ \A e \in Entries : /\ queue[e] = "active" <=> proc[e] # "idle"
                               /\ queue[e] \in QueueStates /\ proc[e] \in ProcStates
                               /\ made[e] \in Nat
                               /\ JobOf(e) \in Jobs
                               /\ \A m \in 1 .. Attempts : <<e, m>> \in Failures
         /\ \A f \in Failures : f = <<f[1], f[2]>> /\ f[1] \in Entries /\ f[2] \in 1 .. Attempts
<1> USE DEF AdmissionInv, LineageInv, AttemptInv, TypeInv
<1>1. \A e \in Entries : /\ queue[e] = "active" <=> proc[e] # "idle"
                         /\ queue[e] \in QueueStates /\ proc[e] \in ProcStates
                         /\ made[e] \in Nat
  BY DEF AttemptsCounted, TypeOK, QueueTypeOK, WorkerTypeOK
<1>2. \A e \in Entries : JobOf(e) \in Jobs /\ \A m \in 1 .. Attempts : <<e, m>> \in Failures
  BY EntriesShape DEF Failures
<1>3. \A f \in Failures : f = <<f[1], f[2]>> /\ f[1] \in Entries /\ f[2] \in 1 .. Attempts
  BY DEF Failures
<1>4. QED
  BY <1>1, <1>2, <1>3

LEMMA ProcessorTurn ==
  ASSUME SteadyWorker, AdmissionInv, NEW g \in Entries, ProcessorStep(g), NEW e \in Entries
  PROVE  EntryTurn(e)
<1>0. /\ TypeOK /\ (queue[g] = "active" <=> proc[g] # "idle")
      /\ \A h \in Entries, m \in 1 .. Attempts : <<h, m>> \in Failures
  BY EntryFacts
<1>1. ASSUME NEW from \in ProcStates \ {"idle"}, NEW to \in ProcStates \ {"idle"},
             Proceed(g, from, to), UNCHANGED <<queueVars, handler>>
      PROVE  IF g = e THEN Processing(e, from, to) ELSE Quiet(e)
  <2>1. proc[g] = from /\ proc'[g] = to /\ \A h \in Entries : h # g => proc'[h] = proc[h]
    BY <1>0, <1>1, ProcUpdate DEF Proceed
  <2>2. QED
    BY <1>0, <1>1, <2>1 DEF Processing, Quiet, KeepsListeners, queueVars
<1>2. CASE MarkRunning(g)
  <2>1. IF g = e THEN Processing(e, "taken", "running") ELSE Quiet(e)
    BY <1>1, <1>2 DEF MarkRunning, ProcStates
  <2>2. QED
    BY <1>2, <2>1 DEF MarkRunning, EntryTurn
<1>3. CASE ExecuteLocalRunner(g)
  <2>1. IF g = e THEN Processing(e, "running", "executed") ELSE Quiet(e)
    BY <1>1, <1>3 DEF ExecuteLocalRunner, ProcStates
  <2>2. QED
    BY <2>1 DEF EntryTurn
<1>4. CASE RecordResult(g)
  <2>1. IF g = e THEN Processing(e, "executed", "recorded") ELSE Quiet(e)
    BY <1>1, <1>4 DEF RecordResult, ProcStates
  <2>2. QED
    BY <1>4, <2>1 DEF EntryTurn
<1>5. CASE IncrementDailyCost(g)
  <2>1. IF g = e THEN Processing(e, "recorded", "charged") ELSE Quiet(e)
    BY <1>1, <1>5 DEF IncrementDailyCost, ProcStates
  <2>2. QED
    BY <2>1 DEF EntryTurn
<1>6. CASE DecrementActiveQuota(g)
  <2>1. IF g = e THEN Processing(e, "charged", "released") ELSE Quiet(e)
    BY <1>1, <1>6 DEF DecrementActiveQuota, ProcStates
  <2>2. QED
    BY <2>1 DEF EntryTurn
<1>7. CASE FinishAttempt(g)
  <2>1. /\ proc[g] \in {"released", "dispatched"} /\ proc' = [proc EXCEPT ![g] = "idle"]
        /\ queue[g] = "active" /\ queue' = [queue EXCEPT ![g] = "completed"]
        /\ UNCHANGED <<made, handler>>
    BY <1>7 DEF FinishAttempt, Proceed, MoveToCompleted, Move
  <2>2. \A h \in Entries : IF h = g THEN proc'[h] = "idle" ELSE proc'[h] = proc[h]
    BY <1>0, <2>1, ProcUpdate
  <2>3. \A h \in Entries : IF h = g THEN queue'[h] = "completed" ELSE queue'[h] = queue[h]
    BY <1>0, <2>1, QueueUpdate
  <2>4. proc[g] = "released"
    BY <2>1 DEF SteadyWorker, AdmissionInv, LineageInv, AttemptInv, TasksCounted
  <2>5. QED
    BY <2>1, <2>2, <2>3, <2>4 DEF EntryTurn, Quiet, KeepsListeners
<1>8. CASE AttemptThrows(g)
  <2>1. /\ proc[g] = "running" /\ proc' = [proc EXCEPT ![g] = "idle"]
        /\ queue[g] = "active" /\ queue' = [queue EXCEPT ![g] = AfterFailure(g)]
        /\ made' = [made EXCEPT ![g] = @ + 1]
        /\ handler' = [handler EXCEPT ![<<g, made[g] + 1>>] = "notified"]
    BY <1>8 DEF AttemptThrows, Proceed, NotifyFailure, MoveToFailed, Move, SteadyWorker
  <2>2. \A h \in Entries : IF h = g THEN proc'[h] = "idle" ELSE proc'[h] = proc[h]
    BY <1>0, <2>1, ProcUpdate
  <2>3. \A h \in Entries : IF h = g THEN queue'[h] = AfterFailure(h) ELSE queue'[h] = queue[h]
    BY <1>0, <2>1, QueueUpdate
  <2>4. \A h \in Entries : IF h = g THEN made'[h] = made[h] + 1 ELSE made'[h] = made[h]
    BY <1>0, <2>1 DEF TypeOK, QueueTypeOK
  <2>5. <<g, made[g] + 1>> \in Failures
    BY <2>1, StartHasTask DEF AdmissionInv, LineageInv
  <2>6. /\ handler'[<<g, made[g] + 1>>] = "notified"
        /\ \A f \in Failures : f # <<g, made[g] + 1>> => handler'[f] = handler[f]
    BY <1>0, <2>1, <2>5, HandlerUpdate
  <2>7. QED
    BY <1>0, <2>1, <2>2, <2>3, <2>4, <2>6 DEF EntryTurn, Quiet
<1>9. ~(DispatchEcsRunner(g) \/ MarkDispatched(g) \/ DispatchAnswerLost(g))
  BY DEF DispatchEcsRunner, MarkDispatched, DispatchAnswerLost, Proceed, SteadyWorker,
         AdmissionInv, LineageInv, AttemptInv, TasksCounted
<1>10. QED
  BY <1>2, <1>3, <1>4, <1>5, <1>6, <1>7, <1>8, <1>9 DEF ProcessorStep

LEMMA ListenersTurn ==
  ASSUME AdmissionInv, NEW f \in Failures, HandlerStep(f), NEW e \in Entries
  PROVE  EntryTurn(e)
<1>0. /\ TypeOK /\ f = <<f[1], f[2]>> /\ f[1] \in Entries /\ f[2] \in 1 .. Attempts
      /\ \A n \in 1 .. Attempts : <<e, n>> \in Failures
  BY EntryFacts
<1>1. UNCHANGED <<queue, made, proc>>
  BY DEF HandlerStep, MarkRetrying, MarkFailed, ReleaseFailed, CopyToDlq, MarkDeadLettered, queueVars
<1>2. PICK from \in {"notified", "recorded", "released", "copied"},
           to \in {"recorded", "released", "copied", "done"} :
        from # to /\ (from = "copied" => to = "done") /\ Handle(f, from, to)
  BY DEF HandlerStep, MarkRetrying, MarkFailed, ReleaseFailed, CopyToDlq, MarkDeadLettered
<1>3. handler[f] = from /\ handler'[f] = to /\ \A g \in Failures : g # f => handler'[g] = handler[g]
  BY <1>0, <1>2, HandlerUpdate DEF Handle
<1>4. CASE f[1] = e
  <2>1. ListenerTurn(e, f[2])
    BY <1>0, <1>1, <1>2, <1>3, <1>4 DEF ListenerTurn
  <2>2. QED
    BY <1>0, <2>1 DEF EntryTurn
<1>5. CASE f[1] # e
  BY <1>0, <1>1, <1>3, <1>5 DEF EntryTurn, Quiet
<1>6. QED
  BY <1>4, <1>5

\* Added by the API, the script or the backoff timer, or taken by a worker.
LEMMA QueueTurn ==
  ASSUME AdmissionInv, NEW e \in Entries, NEW g \in Entries,
         \/ /\ Add(g) \/ Promote(g)
            /\ UNCHANGED workerVars
         \/ \E w \in Workers : TakeJob(w, g)
  PROVE  EntryTurn(e)
<1>0. TypeOK /\ (queue[g] = "active" <=> proc[g] # "idle")
  BY EntryFacts
<1>1. CASE (Add(g) \/ Promote(g)) /\ UNCHANGED workerVars
  <2>1. /\ queue[g] \in {"none", "delayed"} /\ queue' = [queue EXCEPT ![g] = "waiting"]
        /\ UNCHANGED <<made, proc, handler>>
    BY <1>1 DEF Add, Promote, Move, workerVars
  <2>2. queue'[g] = "waiting" /\ \A h \in Entries : h # g => queue'[h] = queue[h]
    BY <1>0, <2>1, QueueUpdate
  <2>3. QED
    BY <2>1, <2>2 DEF EntryTurn, Quiet, KeepsListeners
<1>2. CASE \E w \in Workers : TakeJob(w, g)
  <2>1. /\ queue[g] = "waiting" /\ queue' = [queue EXCEPT ![g] = "active"]
        /\ proc[g] = "idle" /\ proc' = [proc EXCEPT ![g] = "taken"]
        /\ UNCHANGED <<made, handler>>
    BY <1>2 DEF TakeJob, Take, Move, Proceed
  <2>2. queue'[g] = "active" /\ \A h \in Entries : h # g => queue'[h] = queue[h]
    BY <1>0, <2>1, QueueUpdate
  <2>3. proc'[g] = "taken" /\ \A h \in Entries : h # g => proc'[h] = proc[h]
    BY <1>0, <2>1, ProcUpdate
  <2>4. QED
    BY <2>1, <2>2, <2>3 DEF EntryTurn, Quiet, KeepsListeners
<1>3. QED
  BY <1>1, <1>2

LEMMA EntryTurns ==
  ASSUME SteadyWorker, AdmissionInv, [Next]_vars, NEW e \in Entries
  PROVE  EntryTurn(e)
<1>0. TypeOK
  BY EntryFacts
<1>1. ASSUME UNCHANGED <<queue, made, proc, handler>> PROVE EntryTurn(e)
  BY <1>1 DEF EntryTurn, Quiet
<1>2. ASSUME NEW j \in Jobs, SubmissionStep(j), UNCHANGED <<taskVars, workerVars, replayVars>>
      PROVE  EntryTurn(e)
  <2>1. CASE EnqueueJob(j)
    BY <1>2, <2>1, QueueTurn, EntriesShape DEF EnqueueJob
  <2>2. CASE ~EnqueueJob(j)
    <3>1. UNCHANGED queueVars
      BY <1>2, <2>2
         DEF SubmissionStep, RejectSubmission, ReserveQuota, ContinueSubmission, WriteJobHash,
             AppendHistoryItem, AcceptSubmission, RollbackReservedQuota, DeleteJobHash,
             DropHistoryItem, FailSubmission, SubmissionThrows, HandlerThrows, ApiCrash
    <3>2. QED
      BY <1>1, <1>2, <3>1 DEF queueVars, workerVars
  <2>3. QED
    BY <2>1, <2>2
<1>3. ASSUME NEW p \in Replayers, ReplayStep(p) PROVE EntryTurn(e)
  <2>1. CASE AddReplay(p)
    <3>1. PICK d \in todo[p], r \in 1 .. MaxReplays : Add(<<JobOf(d), r>>)
      BY <2>1 DEF AddReplay
    <3>2. d \in Entries
      BY <1>0, <3>1 DEF TypeOK, ReplayTypeOK
    <3>3. <<JobOf(d), r>> \in Entries
      BY <3>2, BoundsAssumption DEF Entries, JobOf
    <3>4. QED
      BY <2>1, <3>1, <3>3, QueueTurn DEF AddReplay
  <2>2. CASE ~AddReplay(p)
    BY <1>1, <1>3, <2>2
       DEF ReplayStep, FetchJobs, RemoveDeadLetter, SkipDeadLetter, FinishReplay, ReplayCrash,
           queueVars, workerVars
  <2>3. QED
    BY <2>1, <2>2
<1>4. ASSUME NEW a \in TaskIds, RunTask(a) \/ BreakTask(a), UNCHANGED workerVars PROVE EntryTurn(e)
  BY <1>1, <1>4
     DEF RunTask, BreakTask, ExecuteUserCode, RecordTaskResult, ChargeTask, ReleaseTaskSlot,
         ExitTask, EnterFallback, FallbackThrows, KillTask, queueVars, workerVars
<1>5. ASSUME NEW g \in Entries, PromoteDelayed(g) PROVE EntryTurn(e)
  BY <1>5, QueueTurn DEF PromoteDelayed
<1>6. ASSUME (Midnight /\ UNCHANGED workerVars) \/ UNCHANGED vars PROVE EntryTurn(e)
  BY <1>1, <1>6 DEF Midnight, vars, queueVars, workerVars
<1>7. \A w \in Workers : ~WorkerCrash(w)
  BY DEF WorkerCrash, SteadyWorker
<1>8. QED
  BY <1>2, <1>3, <1>4, <1>5, <1>6, <1>7, ProcessorTurn, ListenersTurn, QueueTurn
     DEF Next, Submissions, SubmissionNext, Fetches, Processors, Listeners, Backoffs, Crashes,
         Tasks, BrokenTasks, Replays

(***************************************************************************)
(* The order of the attempts.                                              *)
(***************************************************************************)

\* The worker's one connection keeps a listener's HSET ahead of the next attempt.
LEMMA InOrderStep ==
  ASSUME SteadyWorker, AdmissionInv, [Next]_vars, NEW e \in Entries, ListenerInOrder(e)
  PROVE  ListenerInOrder(e)'
<1>0. /\ TypeOK /\ EntryTurn(e)
      /\ queue[e] = "active" <=> proc[e] # "idle"
      /\ made[e] \in Nat /\ \A m \in 1 .. Attempts : <<e, m>> \in Failures
  BY EntryFacts, EntryTurns
<1>1. CASE Quiet(e)
  BY <1>1, QuietEntry
<1>2. CASE /\ queue[e] \in {"none", "delayed"} /\ queue'[e] = "waiting"
           /\ made'[e] = made[e] /\ proc'[e] = proc[e] /\ KeepsListeners(e)
  BY <1>2 DEF ListenerInOrder, KeepsListeners
<1>3. CASE /\ queue[e] = "waiting" /\ queue'[e] = "active" /\ proc[e] = "idle" /\ proc'[e] = "taken"
           /\ made'[e] = made[e] /\ KeepsListeners(e)
  BY <1>3 DEF ListenerInOrder, KeepsListeners
<1>4. CASE Processing(e, "taken", "running") /\ ~SentEarlier(e)
  <2>1. \A m \in 1 .. Attempts : heardBy[<<e, m>>] = runBy[e]
    BY <1>0 DEF SteadyWorker, OneWorker, TypeOK, WorkerTypeOK
  <2>2. QED
    BY <1>4, <2>1 DEF ListenerInOrder, SentEarlier, Processing, KeepsListeners
<1>5. CASE \/ Processing(e, "running", "executed")
           \/ Processing(e, "executed", "recorded")
           \/ Processing(e, "recorded", "charged")
           \/ Processing(e, "charged", "released")
  BY <1>5 DEF ListenerInOrder, Processing, KeepsListeners
<1>6. CASE /\ proc[e] = "released" /\ proc'[e] = "idle" /\ queue[e] = "active" /\ queue'[e] = "completed"
           /\ made'[e] = made[e] /\ KeepsListeners(e)
  BY <1>6 DEF ListenerInOrder, KeepsListeners
<1>7. CASE /\ proc[e] = "running" /\ proc'[e] = "idle" /\ queue[e] = "active"
           /\ queue'[e] = AfterFailure(e) /\ made'[e] = made[e] + 1
           /\ \A m \in 1 .. Attempts :
                handler'[<<e, m>>] = IF m = made[e] + 1 THEN "notified" ELSE handler[<<e, m>>]
  BY <1>7 DEF ListenerInOrder, AfterFailure
<1>8. ASSUME NEW m \in 1 .. Attempts, ListenerTurn(e, m) PROVE ListenerInOrder(e)'
  BY <1>8 DEF ListenerInOrder, ListenerTurn
<1>9. QED
  BY <1>0, <1>1, <1>2, <1>3, <1>4, <1>5, <1>6, <1>7, <1>8 DEF EntryTurn

\* The last listener of the entry has made its copy; it has nothing left to write
\* to the status.
Copied(e) == handler[<<e, Attempts>>] \in {"copied", "done"}

LEMMA CopiedFailed ==
  ASSUME AdmissionInv, NEW e \in Entries, Copied(e)
  PROVE  queue[e] = "failed" /\ made[e] = Attempts
<1>1. Attempts \in 1 .. Attempts /\ <<e, Attempts>> \in Failures
  BY AttemptsAssumption, EntryFacts
<1>2. Attempts <= made[e] /\ made[e] \in Nat /\ queue[e] \in QueueStates
  BY <1>1, EntryFacts DEF Copied, AttemptInv, ListenersCounted
<1>3. QED
  BY <1>2, EntryFacts, AttemptsAssumption DEF AttemptInv, AttemptsCounted, Pending, QueueStates

LEMMA CopiedStays ==
  ASSUME SteadyWorker, AdmissionInv, [Next]_vars, NEW e \in Entries, Copied(e)
  PROVE  Copied(e)'
<1>1. EntryTurn(e) /\ queue[e] = "failed" /\ proc[e] = "idle"
  BY EntryTurns, CopiedFailed, EntryFacts
<1>2. Attempts \in 1 .. Attempts
  BY AttemptsAssumption
<1>3. ASSUME NEW m \in 1 .. Attempts, ListenerTurn(e, m) PROVE Copied(e)'
  BY <1>2, <1>3 DEF ListenerTurn, Copied
<1>4. Quiet(e) \/ \E m \in 1 .. Attempts : ListenerTurn(e, m)
  BY <1>1 DEF EntryTurn, Processing
<1>5. QED
  BY <1>2, <1>3, <1>4 DEF Quiet, Copied

\* What the replay script takes from was copied before, and so was the job's first
\* entry if there is a second.
CopiedFirst ==
  /\ \A e \in dlq : Copied(e)
  /\ \A p \in Replayers : \A e \in todo[p] : Copied(e)
  /\ 1 \in 0 .. MaxReplays => \A j \in Jobs : queue[<<j, 1>>] # "none" => Copied(<<j, 0>>)

\* Where dead letters, and what a run of the script reads, come from.
LEMMA CopiesComeFromListeners ==
  ASSUME [Next]_vars, NEW e \in dlq', e \notin dlq
  PROVE  \E f \in Failures : CopyToDlq(f) /\ e = f[1]
<1>1. ASSUME NEW f \in Failures, HandlerStep(f) PROVE CopyToDlq(f) /\ e = f[1]
  BY <1>1 DEF HandlerStep, MarkRetrying, MarkFailed, ReleaseFailed, CopyToDlq, MarkDeadLettered,
              queueVars
<1>2. ~\E g \in Entries : ProcessorStep(g)
  BY DEF ProcessorStep, MarkRunning, ExecuteLocalRunner, RecordResult, IncrementDailyCost,
         DecrementActiveQuota, DispatchEcsRunner, MarkDispatched, FinishAttempt, AttemptThrows,
         DispatchAnswerLost, NotifyFailure, MoveToFailed, MoveToCompleted, queueVars
<1>3. ~\E a \in TaskIds : RunTask(a) \/ BreakTask(a)
  BY DEF RunTask, BreakTask, ExecuteUserCode, RecordTaskResult, ChargeTask, ReleaseTaskSlot,
         ExitTask, EnterFallback, FallbackThrows, KillTask, queueVars
<1>4. ~\E j \in Jobs : SubmissionStep(j)
  BY DEF SubmissionStep, RejectSubmission, ReserveQuota, ContinueSubmission, WriteJobHash,
         AppendHistoryItem, EnqueueJob, Add, AcceptSubmission, RollbackReservedQuota, DeleteJobHash,
         DropHistoryItem, FailSubmission, SubmissionThrows, HandlerThrows, ApiCrash, queueVars
<1>5. ~ \/ \E w \in Workers, g \in Entries : TakeJob(w, g)
        \/ \E g \in Entries : PromoteDelayed(g)
        \/ \E w \in Workers : WorkerCrash(w)
        \/ \E p \in Replayers : ReplayStep(p)
        \/ Midnight
        \/ UNCHANGED vars
  BY DEF TakeJob, Take, PromoteDelayed, Promote, WorkerCrash, Redeliver, Midnight, ReplayStep,
         FetchJobs, AddReplay, Add, RemoveDeadLetter, SkipDeadLetter, FinishReplay, ReplayCrash,
         vars, queueVars
<1>6. QED
  BY <1>1, <1>2, <1>3, <1>4, <1>5
     DEF Next, Submissions, SubmissionNext, Fetches, Processors, Listeners, Backoffs, Crashes,
         Tasks, BrokenTasks, Replays

LEMMA TodoComesFromDlq ==
  ASSUME TypeOK, [Next]_vars, NEW p \in Replayers
  PROVE  todo'[p] \subseteq todo[p] \cup dlq
<1>1. ASSUME NEW q \in Replayers, ReplayStep(q) PROVE todo'[p] \subseteq todo[p] \cup dlq
  BY <1>1 DEF ReplayStep, FetchJobs, AddReplay, RemoveDeadLetter, SkipDeadLetter, FinishReplay,
              ReplayCrash, TypeOK, ReplayTypeOK
<1>2. CASE UNCHANGED replayVars \/ UNCHANGED vars
  BY <1>2 DEF replayVars, vars
<1>3. QED
  BY <1>1, <1>2
     DEF Next, Submissions, Fetches, Processors, Listeners, Backoffs, Crashes, Tasks, BrokenTasks,
         Replays

LEMMA CopiedFirstStep ==
  ASSUME SteadyWorker, AdmissionInv, CopiedFirst, [Next]_vars
  PROVE  CopiedFirst'
<1>0. /\ TypeOK /\ LineageInv /\ AttemptInv
      /\ \A f \in Failures : f = <<f[1], f[2]>> /\ f[1] \in Entries /\ f[2] \in 1 .. Attempts
  BY EntryFacts
<1>1. /\ dlq \subseteq Entries
      /\ \A p \in Replayers : todo[p] \subseteq Entries
  BY <1>0 DEF TypeOK, QueueTypeOK, ReplayTypeOK
<1>2. \A e \in Entries : Copied(e) => Copied(e)'
  BY CopiedStays
<1>3. ASSUME NEW e \in dlq' PROVE Copied(e)'
  <2>1. CASE e \in dlq
    BY <1>1, <1>2, <2>1 DEF CopiedFirst
  <2>2. ASSUME NEW f \in Failures, CopyToDlq(f), e = f[1] PROVE Copied(e)'
    <3>1. f = <<e, Attempts>>
      BY <1>0, <2>2 DEF CopyToDlq, Handle, AttemptInv, ListenersCounted
    <3>2. handler'[f] = "copied"
      BY <1>0, <2>2 DEF CopyToDlq, Handle, TypeOK, WorkerTypeOK
    <3>3. QED
      BY <3>1, <3>2 DEF Copied
  <2>3. QED
    BY <2>1, <2>2, CopiesComeFromListeners
<1>4. ASSUME NEW p \in Replayers, NEW e \in todo'[p] PROVE Copied(e)'
  <2>1. e \in todo[p] \cup dlq
    BY <1>0, TodoComesFromDlq
  <2>2. QED
    BY <1>1, <1>2, <2>1 DEF CopiedFirst
<1>5. ASSUME 1 \in 0 .. MaxReplays, NEW j \in Jobs, queue'[<<j, 1>>] # "none"
      PROVE  Copied(<<j, 0>>)'
  <2>1. <<j, 0>> \in Entries /\ <<j, 1>> \in Entries
    BY <1>5, BoundsAssumption DEF Entries
  <2>2. CASE queue[<<j, 1>>] # "none"
    BY <1>2, <1>5, <2>1, <2>2 DEF CopiedFirst
  <2>3. CASE queue[<<j, 1>>] = "none"
    <3>1. PICK p \in Replayers : AddReplay(p)
      BY <1>0, <1>5, <2>1, <2>3, QueueGrows
    <3>2. PICK d \in todo[p], r \in 1 .. MaxReplays : Add(<<JobOf(d), r>>)
      BY <3>1 DEF AddReplay
    <3>3. d \in Entries /\ d = <<JobOf(d), d[2]>> /\ d[2] \in 0 .. MaxReplays /\ JobOf(d) \in Jobs
      BY <1>1, <3>2 DEF Entries, JobOf
    <3>4. <<JobOf(d), r>> \in Entries /\ queue' = [queue EXCEPT ![<<JobOf(d), r>>] = "waiting"]
      BY <3>2, <3>3 DEF Add, Move, Entries
    <3>5. <<j, 1>> = <<JobOf(d), r>>
      BY <1>0, <1>5, <2>1, <2>3, <3>4 DEF TypeOK, QueueTypeOK
    <3>6. queue[d] # "none" /\ Copied(d)
      BY <1>0, <3>2 DEF LineageInv, Lineage, CopiedFirst
    <3>7. d[2] = 0
      <4>1. CASE d[2] # 0
        <5>1. 1 \in 0 .. d[2]
          BY <3>3, <4>1, BoundsAssumption
        <5>2. queue[<<j, 1>>] # "none"
          BY <1>0, <3>3, <3>5, <3>6, <5>1 DEF LineageInv, Lineage
        <5>3. QED
          BY <2>3, <5>2
      <4>2. QED
        BY <4>1
    <3>8. QED
      BY <1>2, <3>3, <3>5, <3>6, <3>7
  <2>4. QED
    BY <2>2, <2>3
<1>6. QED
  BY <1>3, <1>4, <1>5 DEF CopiedFirst

(***************************************************************************)
(* The last word.                                                          *)
(***************************************************************************)

\* A job with at most one replay on the queue.
Twice(j) == \A r \in 2 .. MaxReplays : queue[<<j, r>>] = "none"

\* The entry's result is in the hash.
Past(e) == proc[e] \in {"recorded", "charged", "released"} \/ queue[e] = "completed"

LEMMA PastStays ==
  ASSUME SteadyWorker, AdmissionInv, [Next]_vars, NEW e \in Entries, Past(e)
  PROVE  Past(e)'
<1>1. EntryTurn(e) /\ (queue[e] = "active" <=> proc[e] # "idle")
  BY EntryTurns, EntryFacts
<1>2. ASSUME NEW m \in 1 .. Attempts, ListenerTurn(e, m) PROVE Past(e)'
  BY <1>2 DEF ListenerTurn, Past
<1>3. QED
  BY <1>1, <1>2 DEF EntryTurn, Past, Quiet, Processing

LEMMA TwiceBefore ==
  ASSUME TypeOK, [Next]_vars, NEW j \in Jobs, Twice(j)'
  PROVE  Twice(j)
<1>1. \A r \in 2 .. MaxReplays : <<j, r>> \in Entries
  BY BoundsAssumption DEF Entries
<1>2. QED
  BY <1>1, QueueGrows DEF Twice

\* Once a result is in the hash of a job, nobody else is going to write it: the
\* other entry, if there is one, was given up and copied before.
LEMMA OthersAreSilent ==
  ASSUME AdmissionInv, CopiedFirst, \A h \in Entries : ListenerInOrder(h),
         NEW j \in Jobs, Twice(j), NEW e \in Entries, JobOf(e) = j, Past(e),
         NEW g \in Entries, JobOf(g) = j
  PROVE  /\ g # e => proc[g] = "idle"
         /\ \A m \in 1 .. Attempts : handler[<<g, m>>] # "notified"
<1>0. /\ LineageInv /\ AttemptInv
      /\ \A h \in Entries : queue[h] = "active" <=> proc[h] # "idle"
  BY EntryFacts
<1>1. \A h \in Entries : JobOf(h) = j =>
        h = <<j, h[2]>> /\ h[2] \in 0 .. MaxReplays /\ (queue[h] # "none" => h[2] \in {0, 1})
  BY BoundsAssumption DEF Entries, JobOf, Twice
<1>2. queue[e] \in {"active", "completed"} /\ queue[e] # "none"
  BY <1>0 DEF Past
<1>3. CASE g = e
  BY <1>0, <1>2, <1>3 DEF ListenerInOrder, Past
<1>4. CASE queue[g] = "none"
  <2>1. made[g] = 0 /\ proc[g] = "idle"
    BY <1>0, <1>4 DEF AttemptInv, AttemptsCounted
  <2>2. \A m \in 1 .. Attempts : <<g, m>> \in Failures
    BY EntryFacts
  <2>3. \A m \in 1 .. Attempts : handler[<<g, m>>] = "none"
    BY <1>0, <2>1, <2>2, AttemptsAssumption DEF AttemptInv, ListenersCounted
  <2>4. QED
    BY <2>1, <2>3
<1>5. CASE g # e /\ queue[g] # "none"
  <2>1. /\ \/ e = <<j, 0>> /\ g = <<j, 1>>
           \/ e = <<j, 1>> /\ g = <<j, 0>>
        /\ 1 \in 0 .. MaxReplays
    BY <1>1, <1>2, <1>5
  <2>2. Copied(<<j, 0>>)
    BY <1>2, <1>5, <2>1 DEF CopiedFirst
  <2>3. g = <<j, 0>> /\ Copied(g)
    BY <1>2, <2>1, <2>2, CopiedFailed
  <2>4. queue[g] = "failed" /\ made[g] = Attempts
    BY <2>3, CopiedFailed
  <2>5. \A m \in 1 .. Attempts : handler[<<g, m>>] # "notified"
    BY <2>3, <2>4 DEF ListenerInOrder, Copied
  <2>6. QED
    BY <1>0, <2>4, <2>5
<1>6. QED
  BY <1>3, <1>4, <1>5

\* The commands that write the status of a job.
LEMMA WhoWrites ==
  ASSUME SteadyWorker, AdmissionInv, [Next]_vars, NEW j \in Jobs, status'[j] # status[j]
  PROVE  \/ api[j] \in {"reserved", "rolledBack"}
         \/ \E g \in Entries : JobOf(g) = j /\ (MarkRunning(g) \/ RecordResult(g))
         \/ \E f \in Failures : JobOf(f[1]) = j /\ handler[f] = "notified"
<1>0. TypeOK /\ AttemptInv
  BY EntryFacts
<1>1. ASSUME NEW k \in Jobs, SubmissionStep(k) PROVE api[j] \in {"reserved", "rolledBack"}
  <2>1. CASE WriteJobHash(k) \/ DeleteJobHash(k)
    BY <1>0, <2>1, StatusUpdate
       DEF WriteJobHash, DeleteJobHash, WriteStatus, DeleteHash, Goto, TypeOK, ApiTypeOK
  <2>2. CASE ~(WriteJobHash(k) \/ DeleteJobHash(k))
    BY <1>1, <2>2
       DEF SubmissionStep, RejectSubmission, ReserveQuota, ContinueSubmission, AppendHistoryItem,
           EnqueueJob, AcceptSubmission, RollbackReservedQuota, DropHistoryItem, FailSubmission,
           SubmissionThrows, HandlerThrows, ApiCrash, storeVars
  <2>3. QED
    BY <2>1, <2>2
<1>2. ASSUME NEW g \in Entries, ProcessorStep(g)
      PROVE  \E h \in Entries : JobOf(h) = j /\ (MarkRunning(h) \/ RecordResult(h))
  <2>1. CASE MarkRunning(g) \/ RecordResult(g)
    BY <1>0, <2>1, StatusUpdate, EntryFacts DEF MarkRunning, RecordResult, WriteStatus
  <2>2. ~MarkDispatched(g)
    BY <1>0 DEF MarkDispatched, Proceed, SteadyWorker, AttemptInv, TasksCounted
  <2>3. CASE ~(MarkRunning(g) \/ RecordResult(g))
    BY <1>2, <2>2, <2>3
       DEF ProcessorStep, ExecuteLocalRunner, IncrementDailyCost, DecrementActiveQuota,
           DispatchEcsRunner, FinishAttempt, AttemptThrows, DispatchAnswerLost, storeVars
  <2>4. QED
    BY <2>1, <2>3
<1>3. ASSUME NEW f \in Failures, HandlerStep(f)
      PROVE  JobOf(f[1]) = j /\ handler[f] = "notified"
  <2>1. CASE MarkRetrying(f) \/ MarkFailed(f)
    BY <1>0, <2>1, StatusUpdate, EntryFacts DEF MarkRetrying, MarkFailed, WriteStatus, Handle
  <2>2. CASE ~(MarkRetrying(f) \/ MarkFailed(f))
    BY <1>3, <2>2 DEF HandlerStep, ReleaseFailed, CopyToDlq, MarkDeadLettered, storeVars
  <2>3. QED
    BY <2>1, <2>2
<1>4. ~\E a \in TaskIds : RunTask(a) \/ BreakTask(a)
  <2>1. \A a \in TaskIds : task[a] = "none"
    BY <1>0 DEF SteadyWorker, AttemptInv, TasksCounted
  <2>2. QED
    BY <2>1
       DEF RunTask, BreakTask, ExecuteUserCode, RecordTaskResult, ChargeTask, ReleaseTaskSlot,
           ExitTask, EnterFallback, FallbackThrows, KillTask, Advance
<1>5. ~ \/ \E w \in Workers, g \in Entries : TakeJob(w, g)
        \/ \E g \in Entries : PromoteDelayed(g)
        \/ \E w \in Workers : WorkerCrash(w)
        \/ \E p \in Replayers : ReplayStep(p)
        \/ Midnight
        \/ UNCHANGED vars
  BY DEF TakeJob, PromoteDelayed, WorkerCrash, Midnight, ReplayStep, FetchJobs, AddReplay,
         RemoveDeadLetter, SkipDeadLetter, FinishReplay, ReplayCrash, vars, storeVars
<1>6. QED
  BY <1>1, <1>2, <1>3, <1>4, <1>5
     DEF Next, Submissions, SubmissionNext, Fetches, Processors, Listeners, Backoffs, Crashes,
         Tasks, BrokenTasks, Replays

\* The one attempt whose result a step puts into the hash of a job.
LEMMA ResultWritten ==
  ASSUME SteadyWorker, AdmissionInv, [Next]_vars, NEW j \in Jobs, Persisted(j) # {}
  PROVE  \E g \in Entries : /\ JobOf(g) = j /\ proc[g] = "executed" /\ Past(g)'
                            /\ Persisted(j) = {result[g]} /\ result[g] \in Terminal
                            /\ status'[j] = result[g]
<1>0. /\ TypeOK /\ AttemptInv
      /\ \A g \in Entries : result[g] \in Terminal \/ proc[g] # "executed"
  BY EntryFacts DEF AttemptInv, TypeInv, ResultsKnown, Outcomes, Terminal
<1>1. \A a \in TaskIds : task[a] = "none"
  BY <1>0 DEF SteadyWorker, AttemptInv, TasksCounted
<1>2. PICK g \in Entries : JobOf(g) = j /\ proc[g] = "executed" /\ proc'[g] = "recorded"
  BY <1>1 DEF Persisted
<1>3. RecordResult(g)
  <2>1. \A m \in 1 .. Attempts : ~ListenerTurn(g, m)
    BY <1>2 DEF ListenerTurn
  <2>2. EntryTurn(g)
    BY EntryTurns
  <2>3. QED
    BY <1>2, <2>1, <2>2 DEF EntryTurn, Quiet, Processing
<1>4. \A h \in Entries : h # g => proc'[h] = proc[h]
  BY <1>0, <1>3, ProcUpdate DEF RecordResult, Proceed
<1>5. Persisted(j) = {result[g]}
  BY <1>1, <1>2, <1>4 DEF Persisted
<1>6. status'[j] = result[g]
  BY <1>0, <1>2, <1>3, StatusUpdate DEF RecordResult, WriteStatus
<1>7. Past(g)'
  BY <1>2 DEF Past
<1>8. QED
  BY <1>0, <1>2, <1>5, <1>6, <1>7

AnalysisTypeOK ==
  /\ recorded \in [Jobs -> Outcomes \cup {"none"}]
  /\ analyst  \in [Jobs -> [at : {"idle", "asking", "explained", "replied"},
                            about : Outcomes \cup {"missing", "progress"}, calls : 0 .. Calls]]
  /\ analysis \in [Jobs -> Outcomes \cup {"missing", "progress", "none"}]

\* A result in the hash is what its status says, and an explanation of an end, on
\* its way or stored, is about that result.
LastWord(j) ==
  /\ recorded[j] # "none" => /\ status[j] = recorded[j]
                             /\ \E e \in Entries : JobOf(e) = j /\ Past(e)
  /\ analyst[j].about \in Terminal => recorded[j] = analyst[j].about
  /\ analysis[j] \in Terminal => recorded[j] = analysis[j]

AnalysisInv ==
  /\ AdmissionInv
  /\ CopiedFirst
  /\ \A e \in Entries : ListenerInOrder(e)
  /\ AnalysisTypeOK
  /\ \A j \in Jobs : Twice(j) => LastWord(j)

LEMMA AnalysisInvInit == Init /\ AnalysisInit => AnalysisInv
<1> SUFFICES ASSUME Init, AnalysisInit PROVE AnalysisInv
  OBVIOUS
<1>1. AdmissionInv
  BY AdmissionInit
<1>2. CopiedFirst /\ \A e \in Entries : ListenerInOrder(e)
  BY EntryFacts, <1>1 DEF Init, QueueInit, ReplayInit, WorkerInit, CopiedFirst, ListenerInOrder, Entries
<1>3. AnalysisTypeOK
  BY CallsAssumption DEF AnalysisInit, AnalysisTypeOK, Unasked
<1>4. \A j \in Jobs : LastWord(j)
  BY DEF AnalysisInit, LastWord, Unasked, Terminal
<1>5. QED
  BY <1>1, <1>2, <1>3, <1>4 DEF AnalysisInv

\* A step of the engine that finds no result in the hash writes at most the first;
\* one that finds a result leaves it and the status alone.
LEMMA LastWordKept ==
  ASSUME SteadyWorker, AnalysisInv, LifecycleStep, NEW j \in Jobs, Twice(j)'
  PROVE  LastWord(j)'
<1>0. /\ AdmissionInv /\ TypeOK /\ CopiedFirst /\ \A h \in Entries : ListenerInOrder(h)
      /\ AnalysisTypeOK /\ [Next]_vars
  BY EntryFacts DEF AnalysisInv, LifecycleStep
<1>1. Twice(j) /\ LastWord(j)
  BY <1>0, TwiceBefore DEF AnalysisInv
<1>2. /\ analyst' = analyst /\ analysis' = analysis
      /\ recorded'[j] = IF Persisted(j) # {} THEN CHOOSE r \in Persisted(j) : TRUE
                        ELSE IF status[j] # "absent" /\ status'[j] = "absent" THEN "none"
                        ELSE recorded[j]
  BY DEF LifecycleStep
<1>3. CASE recorded[j] = "none"
  <2>1. analyst[j].about \notin Terminal /\ analysis[j] \notin Terminal
    BY <1>1, <1>3 DEF LastWord, Terminal
  <2>2. CASE Persisted(j) = {}
    BY <1>2, <1>3, <2>1, <2>2 DEF LastWord
  <2>3. CASE Persisted(j) # {}
    <3>1. PICK g \in Entries : /\ JobOf(g) = j /\ Past(g)'
                               /\ Persisted(j) = {result[g]} /\ status'[j] = result[g]
      BY <1>0, <2>3, ResultWritten
    <3>2. recorded'[j] = result[g]
      BY <1>2, <3>1
    <3>3. QED
      BY <1>2, <2>1, <3>1, <3>2 DEF LastWord
  <2>4. QED
    BY <2>2, <2>3
<1>4. CASE recorded[j] # "none"
  <2>1. PICK e \in Entries : JobOf(e) = j /\ Past(e)
    BY <1>1, <1>4 DEF LastWord
  <2>2. \A g \in Entries : JobOf(g) = j => /\ proc[g] \notin {"taken", "executed"}
                                           /\ \A m \in 1 .. Attempts : handler[<<g, m>>] # "notified"
    <3>1. proc[e] \notin {"taken", "executed"}
      BY <1>0, <2>1, EntryFacts DEF Past
    <3>2. QED
      BY <1>0, <1>1, <2>1, <3>1, OthersAreSilent
  <2>3. queue[<<j, 0>>] # "none"
    BY <1>0, <2>1, WorkWasQueued DEF AdmissionInv, Past
  <2>4. api[j] \notin {"reserved", "rolledBack"}
    BY <1>0, <2>3 DEF AdmissionInv, Admission, Admitted
  <2>5. status'[j] = status[j]
    <3>1. \A f \in Failures : JobOf(f[1]) = j => handler[f] # "notified"
      BY <1>0, <2>2, EntryFacts
    <3>2. \A g \in Entries : JobOf(g) = j => ~MarkRunning(g) /\ ~RecordResult(g)
      BY <2>2 DEF MarkRunning, RecordResult, Proceed
    <3>3. QED
      BY <1>0, <2>4, <3>1, <3>2, WhoWrites
  <2>6. Persisted(j) = {}
    BY <1>0, <2>2, ResultWritten
  <2>7. recorded'[j] = recorded[j]
    BY <1>2, <2>5, <2>6
  <2>8. Past(e)'
    BY <1>0, <2>1, PastStays
  <2>9. QED
    BY <1>1, <1>2, <2>1, <2>5, <2>7, <2>8 DEF LastWord
<1>5. QED
  BY <1>3, <1>4

\* The handler that explains takes a subject from the hash and carries it.
LEMMA ExplainerStep ==
  ASSUME AnalysisTypeOK, NEW k \in Jobs, AnalysisStep(k), NEW j \in Jobs
  PROVE  /\ AnalysisTypeOK' /\ recorded' = recorded
         /\ analyst'[j].about \in Terminal => analyst'[j].about \in {analyst[j].about, recorded[j]}
         /\ analysis'[j] \in {analysis[j], analyst[j].about}
<1> USE CallsAssumption DEF AnalysisTypeOK
<1>1. CASE ReadForAnalysis(k)
  <2>1. Subject(k) \in Outcomes \cup {"missing", "progress"} /\ (Subject(k) \in Terminal => Subject(k) = recorded[k])
    BY DEF Subject, Outcomes, Terminal
  <2>2. QED
    BY <1>1, <2>1 DEF ReadForAnalysis
<1>2. CASE AskModel(k)
  <2>1. analyst[k].calls + 1 \in 0 .. Calls
    BY <1>2 DEF AskModel
  <2>2. QED
    BY <1>2, <2>1 DEF AskModel, Explained
<1>3. CASE FallBack(k)
  BY <1>3 DEF FallBack, Explained
<1>4. CASE StoreAnalysis(k)
  BY <1>4 DEF StoreAnalysis, Replied, Terminal
<1>5. QED
  BY <1>1, <1>2, <1>3, <1>4 DEF AnalysisStep

LEMMA RecordedType ==
  ASSUME SteadyWorker, AdmissionInv, AnalysisTypeOK, LifecycleStep
  PROVE  AnalysisTypeOK'
<1>1. ASSUME NEW j \in Jobs PROVE recorded'[j] \in Outcomes \cup {"none"}
  <2>1. CASE Persisted(j) # {}
    <3>1. PICK r \in Terminal : Persisted(j) = {r}
      BY <2>1, ResultWritten DEF LifecycleStep
    <3>2. QED
      BY <3>1 DEF LifecycleStep, Outcomes, Terminal
  <2>2. CASE Persisted(j) = {}
    BY <2>2 DEF LifecycleStep, AnalysisTypeOK
  <2>3. QED
    BY <2>1, <2>2
<1>2. QED
  BY <1>1 DEF LifecycleStep, AnalysisTypeOK

LEMMA AnalysisInvStep ==
  ASSUME SteadyWorker, AnalysisInv, [AnalysisNext]_analysedVars
  PROVE  AnalysisInv'
<1>0. AdmissionInv /\ AnalysisTypeOK
  BY DEF AnalysisInv
<1>1. CASE LifecycleStep
  <2>1. [Next]_vars
    BY <1>1 DEF LifecycleStep
  <2>2. AdmissionInv' /\ CopiedFirst' /\ \A e \in Entries : ListenerInOrder(e)'
    BY <1>0, <2>1, AdmissionStep, CopiedFirstStep, InOrderStep DEF AnalysisInv
  <2>3. AnalysisTypeOK'
    BY <1>0, <1>1, RecordedType
  <2>4. QED
    BY <1>1, <2>2, <2>3, LastWordKept DEF AnalysisInv
<1>2. CASE UNCHANGED vars /\ (UNCHANGED analysisVars \/ \E k \in Jobs : AnalysisStep(k))
  <2>1. AdmissionInv'
    BY <1>0, <1>2, AdmissionStep
  <2>2. CopiedFirst' /\ \A e \in Entries : ListenerInOrder(e)'
    BY <1>0, <1>2, CopiedFirstStep, InOrderStep DEF AnalysisInv
  <2>3. \A j \in Jobs : /\ AnalysisTypeOK' /\ recorded' = recorded
                        /\ analyst'[j].about \in Terminal =>
                             analyst'[j].about \in {analyst[j].about, recorded[j]}
                        /\ analysis'[j] \in {analysis[j], analyst[j].about}
    BY <1>0, <1>2, ExplainerStep DEF analysisVars, AnalysisTypeOK
  <2>4. AnalysisTypeOK'
    BY <1>0, <1>2, ExplainerStep DEF analysisVars, AnalysisTypeOK
  <2>5. ASSUME NEW j \in Jobs, Twice(j)' PROVE LastWord(j)'
    <3>1. Twice(j) /\ LastWord(j) /\ status' = status
      BY <1>2, <2>5 DEF AnalysisInv, Twice, vars, queueVars, storeVars
    <3>2. (\E e \in Entries : JobOf(e) = j /\ Past(e)) => \E e \in Entries : JobOf(e) = j /\ Past(e)'
      BY <1>2 DEF Past, vars, queueVars, workerVars
    <3>3. QED
      BY <2>3, <3>1, <3>2 DEF LastWord
  <2>6. QED
    BY <2>1, <2>2, <2>4, <2>5 DEF AnalysisInv
<1>3. QED
  BY <1>1, <1>2 DEF AnalysisNext, analysedVars

\* At most two entries of a job are its own and its first replay.
LEMMA ReplayedAtMostOnce ==
  ASSUME LineageInv, NEW j \in Jobs, ReplayedOnce(j)
  PROVE  Twice(j)
<1> DEFINE S == {e \in Entries : JobOf(e) = j /\ queue[e] # "none"}
<1> SUFFICES ASSUME NEW r \in 2 .. MaxReplays, queue[<<j, r>>] # "none" PROVE FALSE
  BY DEF Twice
<1>1. <<j, 0>> \in S /\ <<j, 1>> \in S /\ <<j, r>> \in S
  <2>1. /\ r \in 0 .. MaxReplays /\ 0 \in 0 .. r /\ 1 \in 0 .. r
        /\ 0 \in 0 .. MaxReplays /\ 1 \in 0 .. MaxReplays
    BY BoundsAssumption
  <2>2. queue[<<j, 0>>] # "none" /\ queue[<<j, 1>>] # "none"
    BY <2>1 DEF LineageInv, Lineage
  <2>3. QED
    BY <2>1, <2>2 DEF Entries, JobOf
<1>2. IsFiniteSet(S)
  <2>1. IsFiniteSet({j} \X (0 .. MaxReplays))
    <3>1. IsFiniteSet(0 .. MaxReplays)
      BY BoundsAssumption, FS_Interval
    <3>2. IsFiniteSet({j})
      BY FS_Singleton
    <3>3. QED
      BY <3>1, <3>2, FS_Product
  <2>2. S \subseteq {j} \X (0 .. MaxReplays)
    BY DEF Entries, JobOf
  <2>3. QED
    BY <2>1, <2>2, FS_Subset
<1>3. Cardinality({<<j, 0>>} \cup {<<j, 1>>} \cup {<<j, r>>}) = 3
  <2>1. IsFiniteSet({<<j, 0>>}) /\ Cardinality({<<j, 0>>}) = 1
    BY FS_Singleton
  <2>2. <<j, 1>> \notin {<<j, 0>>} /\ <<j, r>> \notin {<<j, 0>>} \cup {<<j, 1>>}
    OBVIOUS
  <2>3. \A T, x : IsFiniteSet(T) /\ x \notin T =>
          IsFiniteSet(T \cup {x}) /\ Cardinality(T \cup {x}) = Cardinality(T) + 1
    BY FS_AddElement
  <2>4. /\ IsFiniteSet({<<j, 0>>} \cup {<<j, 1>>})
        /\ Cardinality({<<j, 0>>} \cup {<<j, 1>>}) = 1 + 1
    BY <2>1, <2>2, <2>3
  <2>5. Cardinality({<<j, 0>>} \cup {<<j, 1>>} \cup {<<j, r>>}) = 2 + 1
    BY <2>2, <2>3, <2>4
  <2>6. QED
    BY <2>5
<1>4. 3 <= Cardinality(S)
  <2>1. {<<j, 0>>} \cup {<<j, 1>>} \cup {<<j, r>>} \subseteq S
    BY <1>1
  <2> HIDE DEF S
  <2>2. QED
    BY <1>2, <1>3, <2>1, FS_Subset
<1>5. Cardinality(S) \in Nat /\ Cardinality(S) <= 2
  BY <1>2, FS_CardinalityType DEF ReplayedOnce
<1>6. QED
  BY <1>4, <1>5

\* An explanation stays true: on one worker of the "local" backend whose processors
\* neither die nor fail past the program's end, what an analysis says of a job's
\* end is how the job ended, for any number of jobs, attempts and model calls, with
\* the job replayed once and any failure of the API and of the replay script.
THEOREM ExplanationsStayTrue ==
  ASSUME SteadyWorker
  PROVE  AnalysisSpec => []ExplainsTheVerdict
<1>1. AnalysisInv => ExplainsTheVerdict
  <2> SUFFICES ASSUME AnalysisInv, NEW j \in Jobs, analysis[j] \in Terminal, ReplayedOnce(j)
               PROVE  status[j] = analysis[j]
    BY DEF ExplainsTheVerdict
  <2>1. Twice(j)
    BY ReplayedAtMostOnce DEF AnalysisInv, AdmissionInv
  <2>2. QED
    BY <2>1 DEF AnalysisInv, LastWord, Terminal
<1>2. AnalysisInv /\ [AnalysisNext]_analysedVars => AnalysisInv'
  BY AnalysisInvStep
<1>3. QED
  BY <1>1, <1>2, AnalysisInvInit, PTL DEF AnalysisSpec

\* Neither the provider nor the handlers of an analysis touch the lifecycle: all
\* that is proved of it holds beside them.
THEOREM AnalysisRunsTheEngine == AnalysisSpec => Spec
<1>1. [AnalysisNext]_analysedVars => [Next]_vars
  BY DEF AnalysisNext, LifecycleStep, analysedVars
<1>2. QED
  BY <1>1, PTL DEF AnalysisSpec, Spec
=============================================================================
