---------------------------- MODULE JobLifecycle ----------------------------
(***************************************************************************)
(* The life of a job through all the processes that act on it: the API     *)
(* handler that admits it, the workers and their "failed" listeners, the   *)
(* Fargate runner of the "ecs" backend and the dead-letter replay script,  *)
(* interleaved command by command on one Redis.                            *)
(***************************************************************************)
EXTENDS DlqReplay

vars == <<storeVars, queueVars, apiVars, taskVars, workerVars, replayVars>>

Init ==
  /\ StoreInit
  /\ QueueInit
  /\ ApiInit
  /\ TaskInit
  /\ WorkerInit
  /\ ReplayInit

Submissions == SubmissionNext /\ UNCHANGED <<taskVars, workerVars, replayVars>>
Fetches     == \E w \in Workers, e \in Entries : TakeJob(w, e) /\ UNCHANGED replayVars
Processors  == \E e \in Entries : ProcessorStep(e) /\ UNCHANGED replayVars
Listeners   == \E f \in Failures : HandlerStep(f) /\ UNCHANGED replayVars
Backoffs    == \E e \in Entries : PromoteDelayed(e) /\ UNCHANGED replayVars
Crashes     == \E w \in Workers : WorkerCrash(w) /\ UNCHANGED replayVars
Tasks       == \E a \in TaskIds : RunTask(a) /\ UNCHANGED <<workerVars, replayVars>>
BrokenTasks == \E a \in TaskIds : BreakTask(a) /\ UNCHANGED <<workerVars, replayVars>>
Replays     == \E p \in Replayers : ReplayStep(p)

Next ==
  \/ Submissions
  \/ Fetches
  \/ Processors
  \/ Listeners
  \/ Backoffs
  \/ Crashes
  \/ Tasks
  \/ BrokenTasks
  \/ Replays

(***************************************************************************)
(* What the code's scheduling gives: request handlers that await a command *)
(* are resumed, the workers fetch and process while entries wait, backoffs *)
(* end, listeners and launched tasks run on.  Nothing forces a submission  *)
(* to arrive, a fault to happen or an operator to replay.  There is one    *)
(* condition for each kind of process: it is weaker than one for each of   *)
(* them, and enough, since every single one comes to an end.               *)
(***************************************************************************)
Handlers == \E j \in Jobs : ContinueSubmission(j) /\ UNCHANGED <<taskVars, workerVars, replayVars>>

ProcessFairness ==
  /\ WF_vars(Handlers)
  /\ WF_vars(Fetches)
  /\ WF_vars(Processors)
  /\ WF_vars(Backoffs)
  /\ WF_vars(Listeners)

Fairness == ProcessFairness /\ WF_vars(Tasks)

Spec     == Init /\ [][Next]_vars
FairSpec == Spec /\ Fairness
-----------------------------------------------------------------------------
\* Every variable holds a value of its type.
TypeOK ==
  /\ StoreTypeOK
  /\ QueueTypeOK
  /\ ApiTypeOK
  /\ TaskTypeOK
  /\ WorkerTypeOK
  /\ ReplayTypeOK

\* A listener still works on an exhausted entry.
Listening(e) ==
  \E m \in 1 .. Attempts : ~HasAttemptsLeft(m) /\
    handler[<<e, m>>] \in {"notified", "recorded", "released"}

(***************************************************************************)
(* Quota.                                                                  *)
(***************************************************************************)

\* The active-jobs counter of a tenant is exactly the number of its
\* reservations that were not given back: over all handlers, attempts,
\* listeners and runners a reservation is released once, by whoever ends it.
QuotaExact == \A t \in Tenants : active[t] = Cardinality(HoldersOf(t))

\* Whatever fails, the counter is never above the reservations outstanding, so
\* reserveScript never answers max_concurrent_jobs to a tenant below its limit.
NeverOvercounts == \A t \in Tenants : active[t] <= Cardinality(HoldersOf(t))

\* Whoever holds a slot is still to give it back: a handler under way or
\* interrupted, a queued entry, a listener or a runner.  A slot that is held
\* with none of these is lost to the tenant.
SlotsHaveOwners ==
  \A j \in holders :
    \/ api[j] \in {"reserved", "hashed", "listed", "failing", "error", "crashed"}
    \/ \E e \in Entries : JobOf(e) = j /\ (queue[e] \in Pending \/ Listening(e))
    \/ \E a \in TaskIds : TaskJob(a) = j /\ task[a] \in {"executing", "computed", "recorded", "charged"}

\* A runner may be executing the user's code of job j.
Executing(j) ==
  \/ \E e \in Entries : JobOf(e) = j /\ Backend = "local" /\ proc[e] = "running"
  \/ \E a \in TaskIds : TaskJob(a) = j /\ task[a] = "executing"

\* The quota boundary as a tenant sees it: never do more of its jobs execute
\* at the same time than its policy allows.
ConcurrentRuns ==
  \A t \in Tenants :
    Cardinality({j \in Jobs : Owner[j] = t /\ Executing(j)}) <= MaxConcurrentJobs[t]

\* The submission of j counts for the day it was reserved on: its slot is still
\* taken, or was given back after it had been queued.
CountsFor(j, d) == reservedOn[j] = d /\ (j \in holders \/ queue[<<j, 0>>] # "none")

\* The daily counter counts the submissions of that day which were not rolled
\* back: a rollback after midnight must find the day of the reservation.
DailyExact ==
  \A t \in Tenants, d \in Days :
    daily[t][d] = Cardinality({j \in Jobs : Owner[j] = t /\ CountsFor(j, d)})

\* With k redeliveries of a tenant's entries after worker crashes, the counter
\* is at most k below the outstanding reservations: a redelivered attempt can
\* release a slot a second time, and nothing else can.
DriftBounded ==
  \A t \in Tenants :
    Cardinality(HoldersOf(t))
      <= active[t] + Cardinality({e \in Entries : Owner[JobOf(e)] = t /\ stalls[e] > 0})

(***************************************************************************)
(* Status, result and cost.                                                *)
(***************************************************************************)

\* Once a job hash says succeeded or failed it says so for good.
TerminalIsFinal ==
  [][\A j \in Jobs : status[j] \in Terminal => status'[j] = status[j]]_vars

\* A job shown as retrying has an attempt to come or under way.
RetryingIsPending ==
  \A j \in Jobs : status[j] = "retrying" =>
    \E e \in Entries : JobOf(e) = j /\ queue[e] \in Pending

\* The tenant's cost has the job once if the user's code produced its result,
\* and not at all if its attempts were exhausted.
ChargedForResult ==
  \A e \in Entries :
    /\ queue[e] = "completed" /\ Backend = "local" => charges[JobOf(e)] = 1
    /\ queue[e] = "failed" => charges[JobOf(e)] = 0

\* A job is charged at most once for its result and once for each redelivery.
ChargesBounded ==
  \A j \in Jobs : charges[j] <= 1 + Cardinality({e \in Entries : JobOf(e) = j /\ stalls[e] > 0})

\* The tasks ever launched for job j.
Launched(j) == {a \in TaskIds : TaskJob(a) = j /\ task[a] # "none"}

\* The user's code of a job is run by one runner task at most.
RunsAtMostOnce == \A j \in Jobs : Cardinality(Launched(j)) <= 1

\* However a runner fails, it charges its job at most once by itself and once
\* more in the catch block of run().
ChargesPerRunner ==
  \A j \in Jobs : charges[j] <= Cardinality(Launched(j)) + Cardinality(Launched(j) \cap fallback)

(***************************************************************************)
(* Losing nothing.                                                         *)
(***************************************************************************)

\* A 503 leaves nothing of the submission: no hash, no history item, no queue
\* entry, no slot.
RefusalLeavesNothing ==
  \A j \in Jobs : api[j] = "unavailable" =>
    /\ status[j] = "absent"
    /\ ~InHistory(j)
    /\ queue[<<j, 0>>] = "none"
    /\ j \notin holders

\* A job the API answered 202 for is in the queue, or with a listener, or with
\* a runner, or has a final status.
NoAcceptedJobLost ==
  \A j \in Jobs : api[j] = "accepted" =>
    \/ status[j] \in Terminal
    \/ \E e \in Entries : JobOf(e) = j /\ (queue[e] \in Pending \/ Listening(e))
    \/ \E a \in TaskIds : TaskJob(a) = j /\ task[a] \in {"executing", "computed"}

\* Every entry whose attempts are exhausted is copied to the dead-letter queue,
\* where it stays until a replay has put the job back on the main queue.
ExhaustedIsDeadLettered ==
  \A e \in Entries : queue[e] = "failed" =>
    \/ e \in dlq
    \/ Listening(e)
    \/ \E r \in 1 .. MaxReplays : r > e[2] /\ queue[<<JobOf(e), r>>] # "none"

(***************************************************************************)
(* Liveness.                                                               *)
(***************************************************************************)

\* A job that reached the queue gets a final status and keeps it: what the
\* frontend polls for.
Settles == \A j \in Jobs : api[j] = "enqueued" ~> [](status[j] \in Terminal)

\* A job that reached the queue has a final status at some time.
GetsVerdict == \A j \in Jobs : queue[<<j, 0>>] = "waiting" ~> status[j] \in Terminal

\* In the end every submission that arrived is answered for good, and no job
\* that reached the queue holds its slot.
Answered    == <>[](\A j \in Jobs : api[j] \in {"idle", "rejected", "accepted", "unavailable"})
SlotsReturn == <>[](\A j \in Jobs : api[j] = "accepted" => j \notin holders)

(***************************************************************************)
(* The engine implements the service its tenants are promised.             *)
(***************************************************************************)

\* A job holds its slot as long as Redis counts it; one without a slot that never
\* reached the queue was refused or given up, and one that did is settled.
ServicePhase(j) ==
  CASE j \in holders -> "holding"
    [] j \notin holders /\ api[j] = "idle" -> "new"
    [] j \notin holders /\ api[j] # "idle" /\ queue[<<j, 0>>] = "none" -> "refused"
    [] OTHER -> "settled"

Service == INSTANCE ExecutionService WITH
  phase      <- [j \in Jobs |-> ServicePhase(j)],
  verdict    <- [j \in Jobs |-> IF status[j] \in Terminal THEN status[j] ELSE "none"],
  admittedOn <- reservedOn,
  today      <- day

\* The handlers, workers, listeners and counters together implement the
\* abstract service: limits, slots and verdicts as a tenant sees them.
ImplementsService == Service!Spec
=============================================================================
