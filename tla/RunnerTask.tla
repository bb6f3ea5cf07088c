----------------------------- MODULE RunnerTask -----------------------------
(***************************************************************************)
(* The runner process of the "ecs" backend: a Fargate task that runs the   *)
(* user's code once and persists the result itself (RESULT_BACKEND=redis), *)
(* while the worker that launched it goes on.  When run() throws, its      *)
(* catch block persists a failed result with a second call of              *)
(* persistResultToRedis, whatever the first call had already done.         *)
(***************************************************************************)
EXTENDS Submission

VARIABLES
  task,      \* where each launched task is
  outcome,   \* the result it holds, once it has one
  fallback   \* the tasks that run the catch block of run()

taskVars == <<task, outcome, fallback>>

\* The n-th start of an entry's processor launches task <<e, n>>.
TaskIds    == Entries \X (1 .. Attempts + MaxStalls)
Outcomes   == {"succeeded", "failed"}
TaskStates ==
  {"none",
   "executing",  \* executeUserCode
   "computed",   \* a result is there, nothing of it is persisted
   "recorded",   \* HSET of the result
   "charged",    \* INCRBYFLOAT of the daily cost
   "released",   \* the release script
   "done",       \* XADD, QUIT and exit
   "dead"}       \* killed, or the catch block failed as well

TaskInit ==
  /\ task     = [a \in TaskIds |-> "none"]
  /\ outcome  = [a \in TaskIds |-> "none"]
  /\ fallback = {}

TaskTypeOK ==
  /\ task     \in [TaskIds -> TaskStates]
  /\ outcome  \in [TaskIds -> Outcomes \cup {"none"}]
  /\ fallback \subseteq TaskIds

TaskJob(a) == JobOf(a[1])

Advance(a, from, to) ==
  /\ task[a] = from
  /\ task' = [task EXCEPT ![a] = to]

\* RunTask: ECS accepted the task.
Launch(a) == Advance(a, "none", "executing") /\ UNCHANGED <<outcome, fallback>>

\* executeUserCode returned: the program's own failure is a result too.
ExecuteUserCode(a) ==
  /\ Advance(a, "executing", "computed")
  /\ \E r \in Outcomes : outcome' = [outcome EXCEPT ![a] = r]
  /\ UNCHANGED <<storeVars, queueVars, apiVars, fallback>>

RecordTaskResult(a) ==
  /\ Advance(a, "computed", "recorded")
  /\ WriteStatus(TaskJob(a), outcome[a])
  /\ UNCHANGED <<deadLettered, active, daily, history, charges, holders, queueVars, apiVars,
                 outcome, fallback>>

ChargeTask(a) ==
  /\ Advance(a, "recorded", "charged")
  /\ ChargeCost(TaskJob(a))
  /\ UNCHANGED <<status, deadLettered, active, daily, history, holders, queueVars, apiVars,
                 outcome, fallback>>

\* Mutant: the runner does not release the slot.
TaskKeepsSlot(a) ==
  /\ Advance(a, "charged", "released")
  /\ UNCHANGED <<storeVars, queueVars, apiVars, outcome, fallback>>

ReleaseTaskSlot(a) ==
  /\ Advance(a, "charged", "released")
  /\ ReleaseSlot(TaskJob(a))
  /\ UNCHANGED <<status, deadLettered, daily, history, charges, queueVars, apiVars,
                 outcome, fallback>>

ExitTask(a) ==
  /\ Advance(a, "released", "done")
  /\ UNCHANGED <<storeVars, queueVars, apiVars, outcome, fallback>>

\* Mutant: the catch block of run() retries as often as persisting fails.
FallbackForEver(a) ==
  /\ \/ Advance(a, "executing", "computed")
     \/ /\ "persistError" \in Faults
        /\ \E from \in {"computed", "recorded", "charged", "released"} :
             Advance(a, from, "computed")
  /\ outcome'  = [outcome EXCEPT ![a] = "failed"]
  /\ fallback' = fallback \cup {a}
  /\ UNCHANGED <<storeVars, queueVars, apiVars>>

\* run() threw: in executeUserCode, or, with two Redis retries spent
\* (maxRetriesPerRequest: 2), in persistResultToRedis.
EnterFallback(a) ==
  /\ a \notin fallback
  /\ \/ Advance(a, "executing", "computed")
     \/ /\ "persistError" \in Faults
        /\ \E from \in {"computed", "recorded", "charged", "released"} :
             Advance(a, from, "computed")
  /\ outcome'  = [outcome EXCEPT ![a] = "failed"]
  /\ fallback' = fallback \cup {a}
  /\ UNCHANGED <<storeVars, queueVars, apiVars>>

\* The second persistResultToRedis threw: the result only goes to stdout.
FallbackThrows(a) ==
  /\ "persistError" \in Faults
  /\ a \in fallback
  /\ \E from \in {"computed", "recorded", "charged", "released"} : Advance(a, from, "dead")
  /\ UNCHANGED <<storeVars, queueVars, apiVars, outcome, fallback>>

\* The task is stopped: a Spot interruption, out of memory, a host failure.
KillTask(a) ==
  /\ "taskKilled" \in Faults
  /\ \E from \in {"executing", "computed", "recorded", "charged", "released"} :
       Advance(a, from, "dead")
  /\ UNCHANGED <<storeVars, queueVars, apiVars, outcome, fallback>>

RunTask(a) ==
  \/ ExecuteUserCode(a)
  \/ RecordTaskResult(a)
  \/ ChargeTask(a)
  \/ ReleaseTaskSlot(a)
  \/ ExitTask(a)
  \/ EnterFallback(a)

BreakTask(a) == FallbackThrows(a) \/ KillTask(a)
=============================================================================
