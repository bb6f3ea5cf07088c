----------------------------- MODULE Submission -----------------------------
(***************************************************************************)
(* submitExecutionHandler of the API, from the quota reservation on: one   *)
(* handler per submission, one action per Redis command it awaits, so that *)
(* the API's other requests, the workers and a crash come in between.  The *)
(* checks before it (authentication, schema, size and rate limits) reject  *)
(* a request before it touches any of this state.                          *)
(***************************************************************************)
EXTENDS JobQueue

CONSTANT Faults   \* which failures of the environment a behaviour may have

ASSUME FaultsAssumption ==
  Faults \subseteq {"apiCommandError", "apiCrash", "rollbackError",
                    "workerCrash", "workerCommandError", "dispatchAnswerLost",
                    "taskKilled", "persistError", "replayError", "replayCrash"}

VARIABLES
  api,         \* where the handler of each submission is
  reservedOn,  \* the dateKey of each reservation
  day          \* the current UTC date

apiVars == <<api, reservedOn, day>>

ApiStates ==
  {"idle",        \* the request did not arrive yet
   "rejected",    \* 429 quota_exceeded
   "reserved",    \* reserveQuota granted the slot
   "hashed",      \* HSET and EXPIRE of the job hash are done
   "listed",      \* appendHistoryItem is done
   "enqueued",    \* queue.add is done
   "accepted",    \* 202
   "failing",     \* in the catch block
   "rolledBack",  \* rollbackReservedQuota is done
   "deleted",     \* DEL of the job hash is done
   "unavailable", \* 503
   "error",       \* 500: a command outside the try block threw
   "crashed"}     \* the API process died

ApiInit ==
  /\ api        = [j \in Jobs |-> "idle"]
  /\ reservedOn = [j \in Jobs |-> 0]
  /\ day        = 0

ApiTypeOK ==
  /\ api        \in [Jobs -> ApiStates]
  /\ reservedOn \in [Jobs -> Days]
  /\ day        \in Days

Goto(j, from, to) ==
  /\ api[j] = from
  /\ api' = [api EXCEPT ![j] = to]

Midnight ==
  /\ day < LastDay
  /\ day' = day + 1
  /\ UNCHANGED <<storeVars, queueVars, api, reservedOn>>

\* quota_exceeded: nothing was reserved, nothing is left behind.
RejectSubmission(j) ==
  /\ Goto(j, "idle", "rejected")
  /\ ~HasQuota(Owner[j], day)
  /\ UNCHANGED <<storeVars, queueVars, reservedOn, day>>

ReserveQuota(j) ==
  /\ Goto(j, "idle", "reserved")
  /\ HasQuota(Owner[j], day)
  /\ ReserveSlot(j, day)
  /\ reservedOn' = [reservedOn EXCEPT ![j] = day]
  /\ UNCHANGED <<status, deadLettered, history, charges, queueVars, day>>

WriteJobHash(j) ==
  /\ Goto(j, "reserved", "hashed")
  /\ WriteStatus(j, "queued")
  /\ UNCHANGED <<deadLettered, active, daily, history, charges, holders, queueVars,
                 reservedOn, day>>

AppendHistoryItem(j) ==
  /\ Goto(j, "hashed", "listed")
  /\ AppendHistory(j)
  /\ UNCHANGED <<status, deadLettered, active, daily, charges, holders, queueVars,
                 reservedOn, day>>

EnqueueJob(j) ==
  /\ Goto(j, "listed", "enqueued")
  /\ Add(<<j, 0>>)
  /\ UNCHANGED <<storeVars, reservedOn, day>>

\* The job_submitted audit event and the reply.
AcceptSubmission(j) ==
  /\ Goto(j, "enqueued", "accepted")
  /\ UNCHANGED <<storeVars, queueVars, reservedOn, day>>

\* Mutants: no catch block; the audit event after queue.add inside the try block.
SubmissionThrowsUncaught(j) ==
  /\ "apiCommandError" \in Faults
  /\ \E from \in {"reserved", "hashed", "listed"} : Goto(j, from, "error")
  /\ UNCHANGED <<storeVars, queueVars, reservedOn, day>>

AuditThrowsInTry(j) ==
  /\ "apiCommandError" \in Faults
  /\ \E from \in {"reserved", "hashed", "listed", "enqueued"} : Goto(j, from, "failing")
  /\ UNCHANGED <<storeVars, queueVars, reservedOn, day>>

\* A command of the try block threw before it had an effect.
SubmissionThrows(j) ==
  /\ "apiCommandError" \in Faults
  /\ \E from \in {"reserved", "hashed", "listed"} : Goto(j, from, "failing")
  /\ UNCHANGED <<storeVars, queueVars, reservedOn, day>>

\* Mutants: the day is taken anew at the rollback; the rollback is forgotten.
RollbackToday(j) ==
  /\ Goto(j, "failing", "rolledBack")
  /\ RollbackSlot(j, day)
  /\ UNCHANGED <<status, deadLettered, history, charges, queueVars, reservedOn, day>>

RollbackForgotten(j) ==
  /\ Goto(j, "failing", "rolledBack")
  /\ UNCHANGED <<storeVars, queueVars, reservedOn, day>>

\* The catch block, in its order.
RollbackReservedQuota(j) ==
  /\ Goto(j, "failing", "rolledBack")
  /\ RollbackSlot(j, reservedOn[j])
  /\ UNCHANGED <<status, deadLettered, history, charges, queueVars, reservedOn, day>>

\* Mutant: the job hash stays.
HashKept(j) ==
  /\ Goto(j, "rolledBack", "deleted")
  /\ UNCHANGED <<storeVars, queueVars, reservedOn, day>>

DeleteJobHash(j) ==
  /\ Goto(j, "rolledBack", "deleted")
  /\ DeleteHash(j)
  /\ UNCHANGED <<active, daily, history, charges, holders, queueVars, reservedOn, day>>

DropHistoryItem(j) ==
  /\ Goto(j, "deleted", "unavailable")
  /\ DropHistory(j)
  /\ UNCHANGED <<status, deadLettered, active, daily, charges, holders, queueVars,
                 reservedOn, day>>

\* A command of the catch block, or the audit event after the enqueue, threw.
HandlerThrows(j) ==
  /\ "rollbackError" \in Faults
  /\ \E from \in {"failing", "rolledBack", "deleted", "enqueued"} : Goto(j, from, "error")
  /\ UNCHANGED <<storeVars, queueVars, reservedOn, day>>

ApiCrash(j) ==
  /\ "apiCrash" \in Faults
  /\ \E from \in {"reserved", "hashed", "listed", "enqueued", "failing", "rolledBack", "deleted"} :
       Goto(j, from, "crashed")
  /\ UNCHANGED <<storeVars, queueVars, reservedOn, day>>

\* The handler runs by itself from its first command to its reply.
ContinueSubmission(j) ==
  \/ WriteJobHash(j)
  \/ AppendHistoryItem(j)
  \/ EnqueueJob(j)
  \/ AcceptSubmission(j)
  \/ RollbackReservedQuota(j)
  \/ DeleteJobHash(j)
  \/ DropHistoryItem(j)

FailSubmission(j) ==
  \/ SubmissionThrows(j)
  \/ HandlerThrows(j)
  \/ ApiCrash(j)

SubmissionStep(j) ==
  \/ RejectSubmission(j)
  \/ ReserveQuota(j)
  \/ ContinueSubmission(j)
  \/ FailSubmission(j)

\* The API's requests, and the date they read.
SubmissionNext ==
  \/ Midnight
  \/ \E j \in Jobs : SubmissionStep(j)
=============================================================================
