----------------------------- MODULE WorkerPool -----------------------------
(***************************************************************************)
(* The worker processes: the BullMQ processor, one action per command it   *)
(* awaits, and the listener of the "failed" event, which BullMQ calls but  *)
(* does not wait for, so it runs beside the next attempt of the same job.  *)
(***************************************************************************)
EXTENDS RunnerTask

CONSTANTS
  Workers,       \* the worker processes
  Concurrency,   \* WORKER_CONCURRENCY
  Backend        \* EXECUTION_BACKEND

ASSUME WorkersAssumption == Workers # {} /\ Concurrency \in Nat \ {0}
ASSUME BackendAssumption     == Backend \in {"local", "ecs"}

VARIABLES
  proc,      \* where the processor of each active entry is
  runBy,     \* the worker that runs, or last ran, each entry
  result,    \* the local runner's result, once there is one
  handler,   \* where the "failed" listener of the m-th failed attempt is
  heardBy    \* the worker that listener runs in

workerVars == <<proc, runBy, result, handler, heardBy>>

ProcStates ==
  {"idle",
   "taken",       \* the processor was called
   "running",     \* markRunning
   "executed",    \* local: executeLocalRunner returned a result
   "recorded",    \* local: markCompleted, HSET and EXPIRE of the result
   "charged",     \* local: incrementDailyCost
   "released",    \* local: decrementActiveQuota
   "launched",    \* ecs: dispatchEcsRunner returned
   "dispatched"}  \* ecs: markDispatched, HSET and EXPIRE
HandlerStates ==
  {"none",
   "notified",    \* the listener was called; its first HSET is on its way
   "recorded",    \* markFailed, HSET and EXPIRE
   "released",    \* markFailed, decrementActiveQuota
   "copied",      \* deadLetterQueue.add
   "done",
   "lost"}        \* its process died
Failures == Entries \X (1 .. Attempts)

WorkerInit ==
  /\ proc    = [e \in Entries |-> "idle"]
  /\ runBy   = [e \in Entries |-> CHOOSE w \in Workers : TRUE]
  /\ result  = [e \in Entries |-> "none"]
  /\ handler = [f \in Failures |-> "none"]
  /\ heardBy = [f \in Failures |-> CHOOSE w \in Workers : TRUE]

WorkerTypeOK ==
  /\ proc    \in [Entries -> ProcStates]
  /\ runBy   \in [Entries -> Workers]
  /\ result  \in [Entries -> Outcomes \cup {"none"}]
  /\ handler \in [Failures -> HandlerStates]
  /\ heardBy \in [Failures -> Workers]

Proceed(e, from, to) ==
  /\ proc[e] = from
  /\ proc' = [proc EXCEPT ![e] = to]

(***************************************************************************)
(* The processor.                                                          *)
(***************************************************************************)

TakeJob(w, e) ==
  /\ Cardinality({f \in Entries : queue[f] = "active" /\ runBy[f] = w}) < Concurrency
  /\ Take(e)
  /\ Proceed(e, "idle", "taken")
  /\ runBy' = [runBy EXCEPT ![e] = w]
  /\ UNCHANGED <<storeVars, apiVars, taskVars, result, handler, heardBy>>

\* A worker has one Redis connection, which executes its commands in the order
\* they were issued: an HSET its listener issued earlier comes first.
SentEarlier(e) ==
  \E m \in 1 .. Attempts : handler[<<e, m>>] = "notified" /\ heardBy[<<e, m>>] = runBy[e]

MarkRunning(e) ==
  /\ Proceed(e, "taken", "running")
  /\ ~SentEarlier(e)
  /\ WriteStatus(JobOf(e), "running")
  /\ UNCHANGED <<deadLettered, active, daily, history, charges, holders, queueVars, apiVars,
                 taskVars, runBy, result, handler, heardBy>>

ExecuteLocalRunner(e) ==
  /\ Backend = "local"
  /\ Proceed(e, "running", "executed")
  /\ \E r \in Outcomes : result' = [result EXCEPT ![e] = r]
  /\ UNCHANGED <<storeVars, queueVars, apiVars, taskVars, runBy, handler, heardBy>>

\* Mutants: the queue's word for the end of a job; the cost added along with the
\* result as well as after it.
RecordCompleted(e) ==
  /\ Proceed(e, "executed", "recorded")
  /\ WriteStatus(JobOf(e), "completed")
  /\ UNCHANGED <<deadLettered, active, daily, history, charges, holders, queueVars, apiVars,
                 taskVars, runBy, result, handler, heardBy>>

RecordAndCharge(e) ==
  /\ Proceed(e, "executed", "recorded")
  /\ WriteStatus(JobOf(e), result[e])
  /\ ChargeCost(JobOf(e))
  /\ UNCHANGED <<deadLettered, active, daily, history, holders, queueVars, apiVars,
                 taskVars, runBy, result, handler, heardBy>>

RecordResult(e) ==
  /\ Proceed(e, "executed", "recorded")
  /\ WriteStatus(JobOf(e), result[e])
  /\ UNCHANGED <<deadLettered, active, daily, history, charges, holders, queueVars, apiVars,
                 taskVars, runBy, result, handler, heardBy>>

\* Mutants: the cost is not added; the slot is released here and again later.
CostSkipped(e) ==
  /\ Proceed(e, "recorded", "charged")
  /\ UNCHANGED <<storeVars, queueVars, apiVars, taskVars, runBy, result, handler, heardBy>>

ChargeAndRelease(e) ==
  /\ Proceed(e, "recorded", "charged")
  /\ ChargeCost(JobOf(e))
  /\ ReleaseSlot(JobOf(e))
  /\ UNCHANGED <<status, deadLettered, daily, history, queueVars, apiVars,
                 taskVars, runBy, result, handler, heardBy>>

IncrementDailyCost(e) ==
  /\ Proceed(e, "recorded", "charged")
  /\ ChargeCost(JobOf(e))
  /\ UNCHANGED <<status, deadLettered, active, daily, history, holders, queueVars, apiVars,
                 taskVars, runBy, result, handler, heardBy>>

DecrementActiveQuota(e) ==
  /\ Proceed(e, "charged", "released")
  /\ ReleaseSlot(JobOf(e))
  /\ UNCHANGED <<status, deadLettered, daily, history, charges, queueVars, apiVars,
                 taskVars, runBy, result, handler, heardBy>>

DispatchEcsRunner(e) ==
  /\ Backend = "ecs"
  /\ Proceed(e, "running", "launched")
  /\ Launch(<<e, starts[e]>>)
  /\ UNCHANGED <<storeVars, queueVars, apiVars, runBy, result, handler, heardBy>>

\* The HSET does not look at the status it overwrites.
MarkDispatched(e) ==
  /\ Proceed(e, "launched", "dispatched")
  /\ WriteStatus(JobOf(e), "dispatched")
  /\ UNCHANGED <<deadLettered, active, daily, history, charges, holders, queueVars, apiVars,
                 taskVars, runBy, result, handler, heardBy>>

\* The result is a local variable of the processor: it goes with it.
Discard(ended) ==
  result' = [e \in Entries |-> IF e \in ended THEN "none" ELSE result[e]]

\* The last audit event; the processor returns and BullMQ completes the entry.
FinishAttempt(e) ==
  /\ \E from \in {"released", "dispatched"} : Proceed(e, from, "idle")
  /\ MoveToCompleted(e)
  /\ Discard({e})
  /\ UNCHANGED <<storeVars, apiVars, taskVars, runBy, handler, heardBy>>

\* BullMQ moves the entry and then emits "failed" in the same worker.
NotifyFailure(e) ==
  /\ MoveToFailed(e)
  /\ handler' = [handler EXCEPT ![<<e, made[e] + 1>>] = "notified"]
  /\ heardBy' = [heardBy EXCEPT ![<<e, made[e] + 1>>] = runBy[e]]

\* Mutant: an attempt whose runner was launched may still fail and be retried.
ThrowsAfterLaunch(e) ==
  /\ \E from \in {"running", "launched"} : Proceed(e, from, "idle")
  /\ NotifyFailure(e)
  /\ Discard({e})
  /\ UNCHANGED <<storeVars, apiVars, taskVars, runBy>>

\* The processor throws: the runner infrastructure or the dispatch failed, or
\* (a fault) one of its own Redis commands did.
AttemptThrows(e) ==
  /\ \/ Proceed(e, "running", "idle")
     \/ /\ "workerCommandError" \in Faults
        /\ proc[e] # "idle"
        /\ Proceed(e, proc[e], "idle")
  /\ NotifyFailure(e)
  /\ Discard({e})
  /\ UNCHANGED <<storeVars, apiVars, taskVars, runBy>>

\* RunTask took effect but its answer did not arrive: dispatchEcsRunner throws.
DispatchAnswerLost(e) ==
  /\ "dispatchAnswerLost" \in Faults
  /\ Backend = "ecs"
  /\ Proceed(e, "running", "idle")
  /\ Launch(<<e, starts[e]>>)
  /\ NotifyFailure(e)
  /\ UNCHANGED <<storeVars, apiVars, runBy, result>>

(***************************************************************************)
(* The "failed" listener; f = <<e, m>> is the m-th failed attempt of e.    *)
(***************************************************************************)

Handle(f, from, to) ==
  /\ handler[f] = from
  /\ handler' = [handler EXCEPT ![f] = to]

\* Mutants: one attempt too many, one too few.
OneAttemptMore(m) == m <= Attempts
OneAttemptLess(m) == m < Attempts - 1

\* attemptsMade < maxAttempts
HasAttemptsLeft(m) == m < Attempts

MarkRetrying(f) ==
  /\ HasAttemptsLeft(f[2])
  /\ Handle(f, "notified", "done")
  /\ WriteStatus(JobOf(f[1]), "retrying")
  /\ UNCHANGED <<deadLettered, active, daily, history, charges, holders, queueVars, apiVars,
                 taskVars, proc, runBy, result, heardBy>>

\* Mutant: the final failure is not written to the job hash.
FailedSilently(f) ==
  /\ ~HasAttemptsLeft(f[2])
  /\ Handle(f, "notified", "recorded")
  /\ UNCHANGED <<storeVars, queueVars, apiVars, taskVars, proc, runBy, result, heardBy>>

MarkFailed(f) ==
  /\ ~HasAttemptsLeft(f[2])
  /\ Handle(f, "notified", "recorded")
  /\ WriteStatus(JobOf(f[1]), "failed")
  /\ UNCHANGED <<deadLettered, active, daily, history, charges, holders, queueVars, apiVars,
                 taskVars, proc, runBy, result, heardBy>>

\* Mutant: a failed job keeps its slot.
FailedKeepsSlot(f) ==
  /\ Handle(f, "recorded", "released")
  /\ UNCHANGED <<storeVars, queueVars, apiVars, taskVars, proc, runBy, result, heardBy>>

ReleaseFailed(f) ==
  /\ Handle(f, "recorded", "released")
  /\ ReleaseSlot(JobOf(f[1]))
  /\ UNCHANGED <<status, deadLettered, daily, history, charges, queueVars, apiVars,
                 taskVars, proc, runBy, result, heardBy>>

CopyToDlq(f) ==
  /\ Handle(f, "released", "copied")
  /\ dlq' = dlq \cup {f[1]}
  /\ UNCHANGED <<storeVars, queue, made, starts, stalls, apiVars, taskVars, proc, runBy,
                 result, heardBy>>

MarkDeadLettered(f) ==
  /\ Handle(f, "copied", "done")
  /\ deadLettered' = deadLettered \cup {JobOf(f[1])}
  /\ UNCHANGED <<status, active, daily, history, charges, holders, queueVars, apiVars,
                 taskVars, proc, runBy, result, heardBy>>

(***************************************************************************)
(* A worker process dies, or is stopped without waiting for its listeners, *)
(* or is brought down by a listener's unhandled rejection.  The stalled    *)
(* check gives its active entries back; its listeners are gone.            *)
(***************************************************************************)
ActiveAt(w)    == {e \in Entries : queue[e] = "active" /\ runBy[e] = w}
ListeningAt(w) ==
  {f \in Failures : handler[f] \in {"notified", "recorded", "released", "copied"} /\ heardBy[f] = w}

WorkerCrash(w) ==
  /\ "workerCrash" \in Faults
  /\ ActiveAt(w) # {} \/ ListeningAt(w) # {}
  /\ Redeliver(ActiveAt(w))
  /\ proc'    = [e \in Entries |-> IF e \in ActiveAt(w) THEN "idle" ELSE proc[e]]
  /\ handler' = [f \in Failures |-> IF f \in ListeningAt(w) THEN "lost" ELSE handler[f]]
  /\ Discard(ActiveAt(w))
  /\ UNCHANGED <<storeVars, apiVars, taskVars, runBy, heardBy>>

\* BullMQ's own timer: the backoff of a delayed entry is over.
PromoteDelayed(e) ==
  /\ Promote(e)
  /\ UNCHANGED <<storeVars, apiVars, taskVars, workerVars>>

ProcessorStep(e) ==
  \/ MarkRunning(e)
  \/ ExecuteLocalRunner(e)
  \/ RecordResult(e)
  \/ IncrementDailyCost(e)
  \/ DecrementActiveQuota(e)
  \/ DispatchEcsRunner(e)
  \/ MarkDispatched(e)
  \/ FinishAttempt(e)
  \/ AttemptThrows(e)
  \/ DispatchAnswerLost(e)

HandlerStep(f) ==
  \/ MarkRetrying(f)
  \/ MarkFailed(f)
  \/ ReleaseFailed(f)
  \/ CopyToDlq(f)
  \/ MarkDeadLettered(f)
=============================================================================
