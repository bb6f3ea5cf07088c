------------------------- MODULE JobLifecycleProofs -------------------------
(***************************************************************************)
(* Proofs about JobLifecycle for every set of jobs, tenants, workers and   *)
(* replays, every policy, number of attempts, backend and set of faults:   *)
(* the variables keep their types, no tenant's counter runs too high, and  *)
(* the attempts of an entry add up.  From the last follow, with the faults *)
(* each theorem names, that dead letters are kept and what runners charge. *)
(***************************************************************************)
EXTENDS SlotCustody, FiniteSetTheorems, TLAPS

(***************************************************************************)
(* Type correctness.                                                       *)
(***************************************************************************)

LEMMA EntriesShape ==
  /\ \A e \in Entries : JobOf(e) \in Jobs /\ Owner[JobOf(e)] \in Tenants
  /\ \A j \in Jobs : Owner[j] \in Tenants /\ <<j, 0>> \in Entries
  /\ \A f \in Failures : f[1] \in Entries /\ f[2] \in 1 .. Attempts
  /\ \A a \in TaskIds : a[1] \in Entries /\ TaskJob(a) \in Jobs
BY OwnerAssumption, BoundsAssumption DEF Entries, JobOf, Failures, TaskIds, TaskJob

\* What the trim script and ZREM leave is again a sequence of jobs.
LEMMA TrimmedType ==
  ASSUME NEW s \in Seq(Jobs)
  PROVE  Trimmed(s) \in Seq(Jobs)
BY HistoryAssumption DEF Trimmed

LEMMA DropItemType ==
  ASSUME NEW s \in Seq(Jobs), NEW i \in 1 .. Len(s)
  PROVE  DropItem(s, i) \in Seq(Jobs)
BY DEF DropItem

LEMMA InitType == Init => TypeOK
<1> SUFFICES ASSUME Init PROVE TypeOK
  OBVIOUS
<1>1. StoreTypeOK
  BY DEF Init, StoreInit, StoreTypeOK, Statuses, Terminal
<1>2. QueueTypeOK
  BY DEF Init, QueueInit, QueueTypeOK, QueueStates
<1>3. ApiTypeOK
  BY LastDayAssumption DEF Init, ApiInit, ApiTypeOK, ApiStates, Days
<1>4. TaskTypeOK
  BY DEF Init, TaskInit, TaskTypeOK, TaskStates, Outcomes
<1>5. WorkerTypeOK
  <2>1. (CHOOSE w \in Workers : TRUE) \in Workers
    BY WorkersAssumption
  <2>2. QED
    BY <2>1 DEF Init, WorkerInit, WorkerTypeOK, ProcStates, HandlerStates, Outcomes
<1>6. ReplayTypeOK
  BY DEF Init, ReplayInit, ReplayTypeOK, ReplayStates
<1>7. QED
  BY <1>1, <1>2, <1>3, <1>4, <1>5, <1>6 DEF TypeOK

\* The groups of variables an action does not touch keep their type.
LEMMA FrameType ==
  ASSUME TypeOK
  PROVE  /\ UNCHANGED storeVars  => StoreTypeOK'
         /\ UNCHANGED queueVars  => QueueTypeOK'
         /\ UNCHANGED apiVars    => ApiTypeOK'
         /\ UNCHANGED taskVars   => TaskTypeOK'
         /\ UNCHANGED workerVars => WorkerTypeOK'
         /\ UNCHANGED replayVars => ReplayTypeOK'
<1>1. UNCHANGED storeVars => StoreTypeOK'
  BY DEF TypeOK, StoreTypeOK, storeVars
<1>2. UNCHANGED queueVars => QueueTypeOK'
  BY DEF TypeOK, QueueTypeOK, queueVars
<1>3. UNCHANGED apiVars => ApiTypeOK'
  BY DEF TypeOK, ApiTypeOK, apiVars
<1>4. UNCHANGED taskVars => TaskTypeOK'
  BY DEF TypeOK, TaskTypeOK, taskVars
<1>5. UNCHANGED workerVars => WorkerTypeOK'
  BY DEF TypeOK, WorkerTypeOK, workerVars
<1>6. UNCHANGED replayVars => ReplayTypeOK'
  BY DEF TypeOK, ReplayTypeOK, replayVars
<1>7. QED
  BY <1>1, <1>2, <1>3, <1>4, <1>5, <1>6

\* Each store operation keeps the type of what it writes.
LEMMA StoreOpsType ==
  ASSUME TypeOK, NEW j \in Jobs
  PROVE  /\ \A s \in Statuses : WriteStatus(j, s) => status' \in [Jobs -> Statuses]
         /\ \A d \in Days : ReserveSlot(j, d) \/ RollbackSlot(j, d) =>
              /\ active' \in [Tenants -> Nat]
              /\ daily' \in [Tenants -> [Days -> Nat]]
              /\ holders' \subseteq Jobs
         /\ ReleaseSlot(j) => active' \in [Tenants -> Nat] /\ holders' \subseteq Jobs
         /\ ChargeCost(j) => charges' \in [Jobs -> Nat]
         /\ AppendHistory(j) \/ DropHistory(j) => history' \in [Tenants -> Seq(Jobs)]
         /\ DeleteHash(j) => status' \in [Jobs -> Statuses] /\ deadLettered' \subseteq Jobs
<1> USE EntriesShape DEF TypeOK, StoreTypeOK
<1>1. ASSUME NEW s \in Statuses, WriteStatus(j, s)
      PROVE  status' \in [Jobs -> Statuses]
  BY <1>1 DEF WriteStatus
<1>2. ASSUME NEW d \in Days, ReserveSlot(j, d) \/ RollbackSlot(j, d)
      PROVE  /\ active' \in [Tenants -> Nat]
             /\ daily' \in [Tenants -> [Days -> Nat]]
             /\ holders' \subseteq Jobs
  <2> DEFINE t == Owner[j]
  <2>1. t \in Tenants /\ active[t] \in Nat /\ daily[t] \in [Days -> Nat] /\ daily[t][d] \in Nat
    OBVIOUS
  <2>2. CASE ReserveSlot(j, d)
    <3>1. [daily[t] EXCEPT ![d] = @ + 1] \in [Days -> Nat]
      BY <2>1
    <3>2. QED
      BY <2>1, <2>2, <3>1 DEF ReserveSlot
  <2>3. CASE RollbackSlot(j, d)
    <3>1. [daily[t] EXCEPT ![d] = FlooredDecr(@)] \in [Days -> Nat]
      BY <2>1 DEF FlooredDecr
    <3>2. FlooredDecr(active[t]) \in Nat
      BY <2>1 DEF FlooredDecr
    <3>3. QED
      BY <2>1, <2>3, <3>1, <3>2 DEF RollbackSlot
  <2>4. QED
    BY <1>2, <2>2, <2>3
<1>3. ASSUME ReleaseSlot(j)
      PROVE  active' \in [Tenants -> Nat] /\ holders' \subseteq Jobs
  <2>1. Owner[j] \in Tenants /\ active[Owner[j]] \in Nat
    OBVIOUS
  <2>2. FlooredDecr(active[Owner[j]]) \in Nat
    BY <2>1 DEF FlooredDecr
  <2>3. QED
    BY <1>3, <2>1, <2>2 DEF ReleaseSlot
<1>4. ASSUME ChargeCost(j)
      PROVE  charges' \in [Jobs -> Nat]
  BY <1>4 DEF ChargeCost
<1>5. ASSUME AppendHistory(j)
      PROVE  history' \in [Tenants -> Seq(Jobs)]
  <2>1. Owner[j] \in Tenants /\ history[Owner[j]] \in Seq(Jobs)
    OBVIOUS
  <2>2. Append(history[Owner[j]], j) \in Seq(Jobs)
    BY <2>1
  <2>3. Trimmed(Append(history[Owner[j]], j)) \in Seq(Jobs)
    BY <2>2, TrimmedType
  <2>4. QED
    BY <1>5, <2>1, <2>3 DEF AppendHistory
<1>6. ASSUME DropHistory(j)
      PROVE  history' \in [Tenants -> Seq(Jobs)]
  <2> DEFINE h == history[Owner[j]]
             i == CHOOSE k \in 1 .. Len(h) : h[k] = j
  <2>1. CASE InHistory(j)
    <3>1. i \in 1 .. Len(h)
      BY <2>1 DEF InHistory
    <3>2. DropItem(h, i) \in Seq(Jobs)
      BY <3>1, DropItemType
    <3>3. QED
      BY <1>6, <2>1, <3>2 DEF DropHistory
  <2>2. CASE ~InHistory(j)
    BY <1>6, <2>2 DEF DropHistory
  <2>3. QED
    BY <2>1, <2>2
<1>7. ASSUME DeleteHash(j)
      PROVE  status' \in [Jobs -> Statuses] /\ deadLettered' \subseteq Jobs
  BY <1>7 DEF DeleteHash, Statuses
<1>8. QED
  BY <1>1, <1>2, <1>3, <1>4, <1>5, <1>6, <1>7

LEMMA SubmissionType ==
  ASSUME TypeOK, NEW j \in Jobs, SubmissionStep(j),
         UNCHANGED <<taskVars, workerVars, replayVars>>
  PROVE  TypeOK'
<1> USE EntriesShape, FrameType, StoreOpsType
<1> DEFINE Rest == TaskTypeOK' /\ WorkerTypeOK' /\ ReplayTypeOK'
<1>1. Rest
  BY DEF TypeOK
<1>2. ASSUME NEW from, NEW to \in ApiStates, Goto(j, from, to)
      PROVE  api' \in [Jobs -> ApiStates]
  BY <1>2 DEF TypeOK, ApiTypeOK, Goto
<1>3. CASE RejectSubmission(j)
  BY <1>1, <1>2, <1>3 DEF RejectSubmission, TypeOK, ApiTypeOK, ApiStates
<1>4. CASE ReserveQuota(j)
  BY <1>1, <1>2, <1>4 DEF ReserveQuota, TypeOK, ApiTypeOK, ApiStates, StoreTypeOK
<1>5. CASE WriteJobHash(j)
  BY <1>1, <1>2, <1>5 DEF WriteJobHash, TypeOK, ApiTypeOK, ApiStates, StoreTypeOK, Statuses
<1>6. CASE AppendHistoryItem(j)
  BY <1>1, <1>2, <1>6 DEF AppendHistoryItem, TypeOK, ApiTypeOK, ApiStates, StoreTypeOK
<1>7. CASE EnqueueJob(j)
  BY <1>1, <1>2, <1>7 DEF EnqueueJob, Add, Move, TypeOK, ApiTypeOK, ApiStates, QueueTypeOK, QueueStates
<1>8. CASE AcceptSubmission(j)
  BY <1>1, <1>2, <1>8 DEF AcceptSubmission, TypeOK, ApiTypeOK, ApiStates
<1>9. CASE RollbackReservedQuota(j)
  <2>1. reservedOn[j] \in Days
    BY DEF TypeOK, ApiTypeOK
  <2>2. QED
    BY <1>1, <1>2, <1>9, <2>1 DEF RollbackReservedQuota, TypeOK, ApiTypeOK, ApiStates, StoreTypeOK
<1>10. CASE DeleteJobHash(j)
  BY <1>1, <1>2, <1>10 DEF DeleteJobHash, TypeOK, ApiTypeOK, ApiStates, StoreTypeOK
<1>11. CASE DropHistoryItem(j)
  BY <1>1, <1>2, <1>11 DEF DropHistoryItem, TypeOK, ApiTypeOK, ApiStates, StoreTypeOK
<1>12. CASE FailSubmission(j)
  BY <1>1, <1>2, <1>12
     DEF FailSubmission, SubmissionThrows, HandlerThrows, ApiCrash, TypeOK, ApiTypeOK, ApiStates
<1>13. QED
  BY <1>3, <1>4, <1>5, <1>6, <1>7, <1>8, <1>9, <1>10, <1>11, <1>12
     DEF SubmissionStep, ContinueSubmission

\* A result that is written to a job hash was computed before.
ResultsKnown ==
  /\ \A e \in Entries : proc[e] = "executed" => result[e] \in Outcomes
  /\ \A a \in TaskIds : task[a] = "computed" => outcome[a] \in Outcomes

\* The type invariant alone is not inductive: the status written by a runner
\* is the result the runner holds.
TypeInv == TypeOK /\ ResultsKnown

LEMMA RunnerType ==
  ASSUME TypeInv, NEW a \in TaskIds, RunTask(a) \/ BreakTask(a),
         UNCHANGED <<workerVars, replayVars>>
  PROVE  TypeInv'
<1> USE EntriesShape, FrameType, StoreOpsType DEF TypeInv
<1>1. WorkerTypeOK' /\ ReplayTypeOK'
  BY DEF TypeOK
<1>2. ASSUME NEW from, NEW to \in TaskStates, Advance(a, from, to)
      PROVE  task' \in [TaskIds -> TaskStates]
  BY <1>2 DEF TypeOK, TaskTypeOK, Advance
<1>3. UNCHANGED <<proc, result>>
  BY DEF workerVars
<1>4. CASE ExecuteUserCode(a)
  BY <1>1, <1>2, <1>3, <1>4
     DEF ExecuteUserCode, Advance, TypeOK, TaskTypeOK, TaskStates, ResultsKnown
<1>5. CASE RecordTaskResult(a)
  <2>1. outcome[a] \in Statuses
    BY <1>5 DEF RecordTaskResult, Advance, ResultsKnown, Statuses, Terminal, Outcomes
  <2>2. status' \in [Jobs -> Statuses]
    BY <1>5, <2>1 DEF RecordTaskResult, TypeInv
  <2>3. StoreTypeOK'
    BY <1>5, <2>2 DEF RecordTaskResult, TypeOK, StoreTypeOK
  <2>4. QED
    BY <1>1, <1>2, <1>3, <1>5, <2>3
       DEF RecordTaskResult, Advance, TypeOK, TaskTypeOK, TaskStates, ResultsKnown
<1>6. CASE ChargeTask(a)
  <2>1. StoreTypeOK'
    BY <1>6 DEF ChargeTask, TypeOK, StoreTypeOK
  <2>2. QED
    BY <1>1, <1>2, <1>3, <1>6, <2>1
       DEF ChargeTask, Advance, TypeOK, TaskTypeOK, TaskStates, ResultsKnown
<1>7. CASE ReleaseTaskSlot(a)
  <2>1. StoreTypeOK'
    BY <1>7 DEF ReleaseTaskSlot, TypeOK, StoreTypeOK
  <2>2. QED
    BY <1>1, <1>2, <1>3, <1>7, <2>1
       DEF ReleaseTaskSlot, Advance, TypeOK, TaskTypeOK, TaskStates, ResultsKnown
<1>8. CASE ExitTask(a)
  BY <1>1, <1>2, <1>3, <1>8
     DEF ExitTask, Advance, TypeOK, TaskTypeOK, TaskStates, ResultsKnown
<1>9. CASE EnterFallback(a)
  <2>1. /\ task' = [task EXCEPT ![a] = "computed"]
        /\ outcome' = [outcome EXCEPT ![a] = "failed"]
        /\ fallback' = fallback \cup {a}
    BY <1>9 DEF EnterFallback, Advance
  <2>2. UNCHANGED <<storeVars, queueVars, apiVars>>
    BY <1>9 DEF EnterFallback
  <2>3. QED
    BY <1>1, <1>3, <2>1, <2>2 DEF TypeOK, TaskTypeOK, TaskStates, Outcomes, ResultsKnown
<1>10. CASE BreakTask(a)
  <2>1. /\ task' = [task EXCEPT ![a] = "dead"]
        /\ UNCHANGED <<storeVars, queueVars, apiVars, outcome, fallback>>
    BY <1>10 DEF BreakTask, FallbackThrows, KillTask, Advance
  <2>2. QED
    BY <1>1, <1>3, <2>1 DEF TypeOK, TaskTypeOK, TaskStates, ResultsKnown
<1>11. QED
  BY <1>4, <1>5, <1>6, <1>7, <1>8, <1>9, <1>10 DEF RunTask

\* A processor or a listener that writes a status and touches no other part of
\* the store, or charges, or releases, keeps the store well typed.
LEMMA StoreStepType ==
  ASSUME TypeInv, NEW j \in Jobs
  PROVE  /\ \A s \in Statuses :
              WriteStatus(j, s) /\ UNCHANGED <<deadLettered, active, daily, history, charges, holders>>
                => StoreTypeOK'
         /\ ChargeCost(j) /\ UNCHANGED <<status, deadLettered, active, daily, history, holders>>
              => StoreTypeOK'
         /\ ReleaseSlot(j) /\ UNCHANGED <<status, deadLettered, daily, history, charges>>
              => StoreTypeOK'
BY StoreOpsType DEF TypeInv, TypeOK, StoreTypeOK

\* The queue operations of a processor's end.
LEMMA QueueOpsType ==
  ASSUME TypeInv, NEW e \in Entries
  PROVE  /\ Add(e) \/ Take(e) \/ MoveToCompleted(e) \/ Promote(e) => QueueTypeOK'
         /\ MoveToFailed(e) => QueueTypeOK'
<1> USE DEF TypeInv, TypeOK, QueueTypeOK, QueueStates, Move
<1>1. Add(e) \/ MoveToCompleted(e) \/ Promote(e) => QueueTypeOK'
  BY DEF Add, MoveToCompleted, Promote
<1>2. Take(e) => QueueTypeOK'
  BY DEF Take
<1>3. MoveToFailed(e) => QueueTypeOK'
  BY DEF MoveToFailed, AfterFailure
<1>4. QED
  BY <1>1, <1>2, <1>3

LEMMA ProcessorType ==
  ASSUME TypeInv, NEW e \in Entries, ProcessorStep(e), UNCHANGED replayVars
  PROVE  TypeInv'
<1> USE EntriesShape, FrameType DEF TypeInv
<1>1. ReplayTypeOK'
  BY DEF TypeOK
<1>2. CASE MarkRunning(e)
  <2>1. StoreTypeOK'
    BY <1>2, StoreStepType DEF MarkRunning, Statuses
  <2>2. QED
    BY <1>1, <1>2, <2>1
       DEF MarkRunning, Proceed, TypeOK, WorkerTypeOK, ProcStates, ResultsKnown, taskVars
<1>3. CASE ExecuteLocalRunner(e)
  <2>1. UNCHANGED <<storeVars, queueVars, apiVars, taskVars, runBy, handler, heardBy>>
    BY <1>3 DEF ExecuteLocalRunner
  <2>2. PICK r \in Outcomes : result' = [result EXCEPT ![e] = r]
    BY <1>3 DEF ExecuteLocalRunner
  <2>3. proc' = [proc EXCEPT ![e] = "executed"]
    BY <1>3 DEF ExecuteLocalRunner, Proceed
  <2>4. QED
    BY <1>1, <2>1, <2>2, <2>3 DEF TypeOK, WorkerTypeOK, ProcStates, ResultsKnown, taskVars
<1>4. CASE RecordResult(e)
  <2>1. result[e] \in Statuses
    BY <1>4 DEF RecordResult, Proceed, ResultsKnown, Statuses, Terminal, Outcomes
  <2>2. StoreTypeOK'
    BY <1>4, <2>1, StoreStepType DEF RecordResult
  <2>3. QED
    BY <1>1, <1>4, <2>2
       DEF RecordResult, Proceed, TypeOK, WorkerTypeOK, ProcStates, ResultsKnown, taskVars
<1>5. CASE IncrementDailyCost(e)
  <2>1. StoreTypeOK'
    BY <1>5, StoreStepType DEF IncrementDailyCost
  <2>2. QED
    BY <1>1, <1>5, <2>1
       DEF IncrementDailyCost, Proceed, TypeOK, WorkerTypeOK, ProcStates, ResultsKnown, taskVars
<1>6. CASE DecrementActiveQuota(e)
  <2>1. StoreTypeOK'
    BY <1>6, StoreStepType DEF DecrementActiveQuota
  <2>2. QED
    BY <1>1, <1>6, <2>1
       DEF DecrementActiveQuota, Proceed, TypeOK, WorkerTypeOK, ProcStates, ResultsKnown, taskVars
<1>7. ASSUME Launch(<<e, starts[e]>>), proc' = [proc EXCEPT ![e] = "launched"]
               \/ proc' = [proc EXCEPT ![e] = "idle"], UNCHANGED result
      PROVE  TaskTypeOK' /\ ResultsKnown'
  <2>1. task' = [task EXCEPT ![<<e, starts[e]>>] = "executing"]
    BY <1>7 DEF Launch, Advance
  <2>2. UNCHANGED <<outcome, fallback>>
    BY <1>7 DEF Launch
  <2>3. TaskTypeOK'
    BY <2>1, <2>2 DEF TypeOK, TaskTypeOK, TaskStates
  <2>4. \A a \in TaskIds : task'[a] = "computed" => task[a] = "computed"
    BY <2>1 DEF TypeOK, TaskTypeOK
  <2>5. \A x \in Entries : proc'[x] = "executed" => proc[x] = "executed"
    BY <1>7 DEF TypeOK, WorkerTypeOK
  <2>6. QED
    BY <1>7, <2>2, <2>3, <2>4, <2>5 DEF ResultsKnown
<1>14. CASE DispatchEcsRunner(e)
  <2>1. proc' = [proc EXCEPT ![e] = "launched"]
    BY <1>14 DEF DispatchEcsRunner, Proceed
  <2>2. TaskTypeOK' /\ ResultsKnown'
    BY <1>7, <1>14, <2>1 DEF DispatchEcsRunner
  <2>3. WorkerTypeOK'
    BY <1>14, <2>1 DEF DispatchEcsRunner, TypeOK, WorkerTypeOK, ProcStates
  <2>4. QED
    BY <1>1, <1>14, <2>2, <2>3 DEF DispatchEcsRunner, TypeOK
<1>8. CASE MarkDispatched(e)
  <2>1. StoreTypeOK'
    BY <1>8, StoreStepType DEF MarkDispatched, Statuses
  <2>2. QED
    BY <1>1, <1>8, <2>1
       DEF MarkDispatched, Proceed, TypeOK, WorkerTypeOK, ProcStates, ResultsKnown, taskVars
<1>9. CASE FinishAttempt(e)
  <2>1. QueueTypeOK'
    BY <1>9, QueueOpsType DEF FinishAttempt
  <2>2. proc' = [proc EXCEPT ![e] = "idle"]
    BY <1>9 DEF FinishAttempt, Proceed
  <2>3. QED
    BY <1>1, <1>9, <2>1, <2>2
       DEF FinishAttempt, Discard, TypeOK, WorkerTypeOK, ProcStates, ResultsKnown, taskVars
<1>10. ASSUME NotifyFailure(e)
       PROVE  /\ QueueTypeOK'
              /\ handler' \in [Failures -> HandlerStates]
              /\ heardBy' \in [Failures -> Workers]
  BY <1>10, QueueOpsType DEF NotifyFailure, TypeOK, WorkerTypeOK, HandlerStates
<1>11. CASE AttemptThrows(e)
  <2>1. proc' = [proc EXCEPT ![e] = "idle"]
    BY <1>11 DEF AttemptThrows, Proceed
  <2>2. QED
    BY <1>1, <1>10, <1>11, <2>1
       DEF AttemptThrows, Discard, TypeOK, WorkerTypeOK, ProcStates, ResultsKnown, taskVars
<1>12. CASE DispatchAnswerLost(e)
  <2>1. proc' = [proc EXCEPT ![e] = "idle"]
    BY <1>12 DEF DispatchAnswerLost, Proceed
  <2>2. TaskTypeOK' /\ ResultsKnown'
    BY <1>7, <1>12, <2>1 DEF DispatchAnswerLost
  <2>3. WorkerTypeOK'
    BY <1>10, <1>12, <2>1 DEF DispatchAnswerLost, TypeOK, WorkerTypeOK, ProcStates
  <2>4. QED
    BY <1>1, <1>10, <1>12, <2>2, <2>3 DEF DispatchAnswerLost, TypeOK
<1>13. QED
  BY <1>2, <1>3, <1>4, <1>5, <1>6, <1>8, <1>9, <1>11, <1>12, <1>14 DEF ProcessorStep

LEMMA HandlerType ==
  ASSUME TypeInv, NEW f \in Failures, HandlerStep(f), UNCHANGED replayVars
  PROVE  TypeInv'
<1> USE EntriesShape, FrameType DEF TypeInv
<1>1. ReplayTypeOK'
  BY DEF TypeOK
<1>2. ASSUME NEW from, NEW to \in HandlerStates, Handle(f, from, to),
             UNCHANGED <<proc, runBy, result, heardBy>>
      PROVE  WorkerTypeOK'
  BY <1>2 DEF Handle, TypeOK, WorkerTypeOK
<1>3. CASE MarkRetrying(f)
  <2>1. StoreTypeOK'
    BY <1>3, StoreStepType DEF MarkRetrying, Statuses
  <2>2. QED
    BY <1>1, <1>2, <1>3, <2>1 DEF MarkRetrying, HandlerStates, TypeOK, ResultsKnown, taskVars
<1>4. CASE MarkFailed(f)
  <2>1. StoreTypeOK'
    BY <1>4, StoreStepType DEF MarkFailed, Statuses, Terminal
  <2>2. QED
    BY <1>1, <1>2, <1>4, <2>1 DEF MarkFailed, HandlerStates, TypeOK, ResultsKnown, taskVars
<1>5. CASE ReleaseFailed(f)
  <2>1. StoreTypeOK'
    BY <1>5, StoreStepType DEF ReleaseFailed
  <2>2. QED
    BY <1>1, <1>2, <1>5, <2>1 DEF ReleaseFailed, HandlerStates, TypeOK, ResultsKnown, taskVars
<1>6. CASE CopyToDlq(f)
  <2>1. QueueTypeOK'
    BY <1>6 DEF CopyToDlq, TypeOK, QueueTypeOK
  <2>2. QED
    BY <1>1, <1>2, <1>6, <2>1 DEF CopyToDlq, HandlerStates, TypeOK, ResultsKnown, taskVars
<1>7. CASE MarkDeadLettered(f)
  <2>1. StoreTypeOK'
    BY <1>7 DEF MarkDeadLettered, TypeOK, StoreTypeOK
  <2>2. QED
    BY <1>1, <1>2, <1>7, <2>1 DEF MarkDeadLettered, HandlerStates, TypeOK, ResultsKnown, taskVars
<1>8. QED
  BY <1>3, <1>4, <1>5, <1>6, <1>7 DEF HandlerStep

LEMMA WorkerType ==
  ASSUME TypeInv, UNCHANGED replayVars,
         \/ \E w \in Workers, e \in Entries : TakeJob(w, e)
         \/ \E e \in Entries : PromoteDelayed(e)
         \/ \E w \in Workers : WorkerCrash(w)
  PROVE  TypeInv'
<1> USE EntriesShape, FrameType DEF TypeInv
<1>1. ReplayTypeOK'
  BY DEF TypeOK
<1>2. ASSUME NEW w \in Workers, NEW e \in Entries, TakeJob(w, e)
      PROVE  TypeInv'
  <2>1. QueueTypeOK'
    BY <1>2, QueueOpsType DEF TakeJob
  <2>2. QED
    BY <1>1, <1>2, <2>1
       DEF TakeJob, Proceed, TypeOK, WorkerTypeOK, ProcStates, ResultsKnown, taskVars
<1>3. ASSUME NEW e \in Entries, PromoteDelayed(e)
      PROVE  TypeInv'
  <2>1. QueueTypeOK'
    BY <1>3, QueueOpsType DEF PromoteDelayed
  <2>2. QED
    BY <1>1, <1>3, <2>1 DEF PromoteDelayed, TypeOK, ResultsKnown, taskVars, workerVars
<1>4. ASSUME NEW w \in Workers, WorkerCrash(w)
      PROVE  TypeInv'
  <2>1. QueueTypeOK'
    BY <1>4 DEF WorkerCrash, Redeliver, TypeOK, QueueTypeOK, QueueStates
  <2>2. /\ proc' \in [Entries -> ProcStates]
        /\ \A e \in Entries : proc'[e] = "executed" => e \notin ActiveAt(w) /\ proc[e] = "executed"
    BY <1>4 DEF WorkerCrash, TypeOK, WorkerTypeOK, ProcStates
  <2>3. handler' \in [Failures -> HandlerStates]
    BY <1>4 DEF WorkerCrash, TypeOK, WorkerTypeOK, HandlerStates
  <2>4. /\ result' \in [Entries -> Outcomes \cup {"none"}]
        /\ \A e \in Entries : e \notin ActiveAt(w) => result'[e] = result[e]
    BY <1>4 DEF WorkerCrash, Discard, TypeOK, WorkerTypeOK
  <2>5. WorkerTypeOK'
    BY <1>4, <2>2, <2>3, <2>4 DEF WorkerCrash, TypeOK, WorkerTypeOK
  <2>6. ResultsKnown'
    BY <1>4, <2>2, <2>4 DEF WorkerCrash, ResultsKnown, taskVars
  <2>7. QED
    BY <1>1, <1>4, <2>1, <2>5, <2>6 DEF WorkerCrash, TypeOK
<1>5. QED
  BY <1>2, <1>3, <1>4

LEMMA ReplayType ==
  ASSUME TypeInv, NEW p \in Replayers, ReplayStep(p)
  PROVE  TypeInv'
<1> USE FrameType DEF TypeInv
<1>1. ASSUME NEW from, NEW to \in ReplayStates, Turn(p, from, to)
      PROVE  replay' \in [Replayers -> ReplayStates]
  BY <1>1 DEF Turn, TypeOK, ReplayTypeOK
<1>2. UNCHANGED <<taskVars, workerVars>> => ResultsKnown'
  BY DEF ResultsKnown, taskVars, workerVars
<1>3. CASE FetchJobs(p)
  <2>1. ReplayTypeOK'
    BY <1>1, <1>3 DEF FetchJobs, ReplayStates, TypeOK, ReplayTypeOK, QueueTypeOK
  <2>2. QED
    BY <1>2, <1>3, <2>1 DEF FetchJobs, TypeOK
<1>4. CASE AddReplay(p)
  <2>1. PICK e \in todo[p], r \in 1 .. MaxReplays :
          /\ Add(<<JobOf(e), r>>)
          /\ current' = [current EXCEPT ![p] = {e}]
          /\ todo' = [todo EXCEPT ![p] = @ \ {e}]
    BY <1>4 DEF AddReplay
  <2>2. e \in Entries
    BY DEF TypeOK, ReplayTypeOK
  <2>3. <<JobOf(e), r>> \in Entries
    BY <2>2, BoundsAssumption DEF Entries, JobOf
  <2>4. QueueTypeOK'
    BY <2>1, <2>3, QueueOpsType
  <2>5. ReplayTypeOK'
    BY <1>1, <1>4, <2>1, <2>2 DEF AddReplay, ReplayStates, TypeOK, ReplayTypeOK
  <2>6. QED
    BY <1>2, <1>4, <2>4, <2>5 DEF AddReplay, TypeOK
<1>5. CASE RemoveDeadLetter(p)
  <2>1. QueueTypeOK'
    BY <1>5 DEF RemoveDeadLetter, TypeOK, QueueTypeOK
  <2>2. ReplayTypeOK'
    BY <1>1, <1>5 DEF RemoveDeadLetter, ReplayStates, TypeOK, ReplayTypeOK
  <2>3. QED
    BY <1>2, <1>5, <2>1, <2>2 DEF RemoveDeadLetter, TypeOK
<1>6. CASE FinishReplay(p) \/ ReplayCrash(p)
  <2>1. ReplayTypeOK'
    BY <1>1, <1>6 DEF FinishReplay, ReplayCrash, ReplayStates, TypeOK, ReplayTypeOK
  <2>2. QED
    BY <1>2, <1>6, <2>1 DEF FinishReplay, ReplayCrash, TypeOK
<1>7. CASE SkipDeadLetter(p)
  <2>1. /\ todo' \in [Replayers -> SUBSET Entries]
        /\ current' \in [Replayers -> SUBSET Entries]
    BY <1>7 DEF SkipDeadLetter, TypeOK, ReplayTypeOK
  <2>2. replay' \in [Replayers -> ReplayStates]
    BY <1>1, <1>7 DEF SkipDeadLetter, ReplayStates
  <2>3. QED
    BY <1>2, <1>7, <2>1, <2>2 DEF SkipDeadLetter, TypeOK, ReplayTypeOK
<1>8. QED
  BY <1>3, <1>4, <1>5, <1>6, <1>7 DEF ReplayStep

LEMMA StepType == TypeInv /\ [Next]_vars => TypeInv'
<1> SUFFICES ASSUME TypeInv, [Next]_vars PROVE TypeInv'
  OBVIOUS
<1>1. CASE Midnight /\ UNCHANGED <<taskVars, workerVars, replayVars>>
  <2>1. ApiTypeOK'
    BY <1>1, LastDayAssumption DEF Midnight, TypeInv, TypeOK, ApiTypeOK, Days
  <2>2. QED
    BY <1>1, <2>1, FrameType DEF Midnight, TypeInv, TypeOK, ResultsKnown, taskVars, workerVars
<1>2. ASSUME NEW j \in Jobs, SubmissionStep(j), UNCHANGED <<taskVars, workerVars, replayVars>>
      PROVE  TypeInv'
  BY <1>2, SubmissionType DEF TypeInv, ResultsKnown, taskVars, workerVars
<1>3. ASSUME NEW e \in Entries, ProcessorStep(e), UNCHANGED replayVars
      PROVE  TypeInv'
  BY <1>3, ProcessorType
<1>4. ASSUME NEW f \in Failures, HandlerStep(f), UNCHANGED replayVars
      PROVE  TypeInv'
  BY <1>4, HandlerType
<1>5. ASSUME NEW a \in TaskIds, RunTask(a) \/ BreakTask(a), UNCHANGED <<workerVars, replayVars>>
      PROVE  TypeInv'
  BY <1>5, RunnerType
<1>6. ASSUME NEW p \in Replayers, ReplayStep(p)
      PROVE  TypeInv'
  BY <1>6, ReplayType
<1>7. CASE UNCHANGED vars
  BY <1>7, FrameType DEF TypeInv, TypeOK, ResultsKnown, vars, taskVars, workerVars
<1>8. QED
  BY <1>1, <1>2, <1>3, <1>4, <1>5, <1>6, <1>7, WorkerType
     DEF Next, Submissions, SubmissionNext, Fetches, Processors, Listeners, Backoffs, Crashes, Tasks, BrokenTasks, Replays

\* Every variable of every process keeps its type, for every policy, backend
\* and set of faults.
THEOREM TypeCorrect == Spec => []TypeOK
<1>1. Init => TypeInv
  BY InitType DEF Init, WorkerInit, TaskInit, TypeInv, ResultsKnown
<1>2. TypeInv /\ [Next]_vars => TypeInv'
  BY StepType
<1>3. TypeInv => TypeOK
  BY DEF TypeInv
<1>4. QED
  BY <1>1, <1>2, <1>3, PTL DEF Spec

(***************************************************************************)
(* The tenant's active-jobs counter and the reservations it stands for.    *)
(* Every step of the system leaves both alone, reserves a slot, or gives   *)
(* one back, the last with a decrement that is floored at zero.            *)
(***************************************************************************)

Reserves(j) ==
  /\ api[j] = "idle" /\ api'[j] # "idle"
  /\ HasQuota(Owner[j], day)
  /\ active'  = [active EXCEPT ![Owner[j]] = @ + 1]
  /\ holders' = holders \cup {j}

\* A processor, a listener or a runner is about to release the slot of job j.
AboutToRelease(j) ==
  \/ \E e \in Entries : JobOf(e) = j /\ proc[e] = "charged"
  \/ \E f \in Failures : JobOf(f[1]) = j /\ handler[f] = "recorded"
  \/ \E a \in TaskIds : TaskJob(a) = j /\ task[a] = "charged"

\* The handler takes back what it reserved, or whoever ends the job gives it back.
Releases(j) ==
  /\ (api[j] = "failing" /\ api'[j] = "rolledBack") \/ AboutToRelease(j)
  /\ ReleaseSlot(j)

QuotaStep ==
  \/ UNCHANGED <<active, holders>>
  \/ \E j \in Jobs : Reserves(j)
  \/ \E j \in Jobs : Releases(j)

\* What any step may do to the counters and to the submissions under way.
LEMMA StepsOnQuota ==
  ASSUME TypeOK, [Next]_vars
  PROVE  /\ QuotaStep
         /\ \A j \in Jobs : api'[j] = "idle" => api[j] = "idle"
<1>1. CASE Midnight /\ UNCHANGED <<taskVars, workerVars, replayVars>>
  BY <1>1 DEF Midnight, QuotaStep, storeVars
<1>2. ASSUME NEW j \in Jobs, SubmissionStep(j)
      PROVE  /\ QuotaStep
             /\ \A k \in Jobs : api'[k] = "idle" => api[k] = "idle"
  <2>1. ASSUME NEW from, NEW to \in ApiStates \ {"idle"}, Goto(j, from, to)
        PROVE  /\ \A k \in Jobs : api'[k] = "idle" => api[k] = "idle"
               /\ api'[j] = to
    BY <2>1 DEF Goto, TypeOK, ApiTypeOK
  <2>2. CASE ReserveQuota(j)
    <3>1. Goto(j, "idle", "reserved")
      BY <2>2 DEF ReserveQuota
    <3>2. Reserves(j)
      <4>1. api[j] = "idle" /\ api'[j] = "reserved"
        BY <2>1, <3>1 DEF Goto, ApiStates
      <4>2. HasQuota(Owner[j], day) /\ ReserveSlot(j, day)
        BY <2>2 DEF ReserveQuota
      <4>3. QED
        BY <4>1, <4>2 DEF ReserveSlot, Reserves
    <3>3. QED
      BY <2>1, <3>1, <3>2 DEF QuotaStep, ApiStates
  <2>3. CASE RollbackReservedQuota(j)
    <3>1. Goto(j, "failing", "rolledBack") /\ RollbackSlot(j, reservedOn[j])
      BY <2>3 DEF RollbackReservedQuota
    <3>2. api[j] = "failing" /\ api'[j] = "rolledBack"
      BY <2>1, <3>1 DEF Goto, ApiStates
    <3>3. ReleaseSlot(j)
      BY <3>1 DEF RollbackSlot, ReleaseSlot
    <3>4. QED
      BY <2>1, <3>1, <3>2, <3>3 DEF QuotaStep, Releases, ApiStates
  <2>4. CASE RejectSubmission(j)
    BY <2>1, <2>4 DEF RejectSubmission, storeVars, QuotaStep, ApiStates
  <2>5. CASE WriteJobHash(j)
    BY <2>1, <2>5 DEF WriteJobHash, QuotaStep, ApiStates
  <2>6. CASE AppendHistoryItem(j)
    BY <2>1, <2>6 DEF AppendHistoryItem, QuotaStep, ApiStates
  <2>7. CASE EnqueueJob(j) \/ AcceptSubmission(j)
    BY <2>1, <2>7 DEF EnqueueJob, AcceptSubmission, storeVars, QuotaStep, ApiStates
  <2>8. CASE DeleteJobHash(j) \/ DropHistoryItem(j)
    BY <2>1, <2>8 DEF DeleteJobHash, DropHistoryItem, QuotaStep, ApiStates
  <2>9. CASE FailSubmission(j)
    BY <2>1, <2>9
       DEF FailSubmission, SubmissionThrows, HandlerThrows, ApiCrash, storeVars, QuotaStep, ApiStates
  <2>10. QED
    BY <1>2, <2>2, <2>3, <2>4, <2>5, <2>6, <2>7, <2>8, <2>9
       DEF SubmissionStep, ContinueSubmission
<1>3. ASSUME NEW e \in Entries, ProcessorStep(e)
      PROVE  QuotaStep /\ UNCHANGED api
  <2>1. CASE DecrementActiveQuota(e)
    <3>1. JobOf(e) \in Jobs /\ AboutToRelease(JobOf(e)) /\ ReleaseSlot(JobOf(e))
      BY <2>1, EntriesShape DEF DecrementActiveQuota, Proceed, AboutToRelease
    <3>2. QED
      BY <2>1, <3>1 DEF DecrementActiveQuota, apiVars, QuotaStep, Releases
  <2>2. CASE ~DecrementActiveQuota(e)
    BY <1>3, <2>2
       DEF ProcessorStep, MarkRunning, ExecuteLocalRunner, RecordResult, IncrementDailyCost,
           DispatchEcsRunner, MarkDispatched, FinishAttempt, AttemptThrows,
           DispatchAnswerLost, storeVars, apiVars, QuotaStep
  <2>3. QED
    BY <2>1, <2>2
<1>4. ASSUME NEW f \in Failures, HandlerStep(f)
      PROVE  QuotaStep /\ UNCHANGED api
  <2>1. CASE ReleaseFailed(f)
    <3>1. JobOf(f[1]) \in Jobs /\ AboutToRelease(JobOf(f[1])) /\ ReleaseSlot(JobOf(f[1]))
      BY <2>1, EntriesShape DEF ReleaseFailed, Handle, AboutToRelease
    <3>2. QED
      BY <2>1, <3>1 DEF ReleaseFailed, apiVars, QuotaStep, Releases
  <2>2. CASE ~ReleaseFailed(f)
    BY <1>4, <2>2
       DEF HandlerStep, MarkRetrying, MarkFailed, CopyToDlq, MarkDeadLettered,
           storeVars, apiVars, QuotaStep
  <2>3. QED
    BY <2>1, <2>2
<1>5. ASSUME NEW a \in TaskIds, RunTask(a) \/ BreakTask(a)
      PROVE  QuotaStep /\ UNCHANGED api
  <2>1. CASE ReleaseTaskSlot(a)
    <3>1. TaskJob(a) \in Jobs /\ AboutToRelease(TaskJob(a)) /\ ReleaseSlot(TaskJob(a))
      BY <2>1, EntriesShape DEF ReleaseTaskSlot, Advance, AboutToRelease
    <3>2. QED
      BY <2>1, <3>1 DEF ReleaseTaskSlot, apiVars, QuotaStep, Releases
  <2>2. CASE ~ReleaseTaskSlot(a)
    BY <1>5, <2>2
       DEF RunTask, BreakTask, ExecuteUserCode, RecordTaskResult, ChargeTask,
           ExitTask, EnterFallback, FallbackThrows, KillTask, storeVars, apiVars, QuotaStep
  <2>3. QED
    BY <2>1, <2>2
<1>6. ASSUME \/ \E w \in Workers, e \in Entries : TakeJob(w, e)
             \/ \E e \in Entries : PromoteDelayed(e)
             \/ \E w \in Workers : WorkerCrash(w)
             \/ \E p \in Replayers : ReplayStep(p)
      PROVE  UNCHANGED <<active, holders, api>>
  BY <1>6
     DEF TakeJob, PromoteDelayed, WorkerCrash, ReplayStep, FetchJobs, AddReplay,
         RemoveDeadLetter, SkipDeadLetter, FinishReplay, ReplayCrash, storeVars, apiVars
<1>7. CASE UNCHANGED vars
  BY <1>7 DEF vars, storeVars, apiVars, QuotaStep
<1>8. QED
  BY <1>1, <1>2, <1>3, <1>4, <1>5, <1>6, <1>7 DEF Next, QuotaStep, Submissions, SubmissionNext, Fetches, Processors, Listeners,
     Backoffs, Crashes, Tasks, BrokenTasks, Replays

(***************************************************************************)
(* Cardinality of the reservations of one tenant.                          *)
(***************************************************************************)

LEMMA HoldersFinite ==
  ASSUME IsFiniteSet(holders), NEW t
  PROVE  IsFiniteSet(HoldersOf(t)) /\ Cardinality(HoldersOf(t)) \in Nat
<1>1. HoldersOf(t) \subseteq holders
  BY DEF HoldersOf
<1>2. QED
  BY <1>1, FS_Subset, FS_CardinalityType

LEMMA HoldersGained ==
  ASSUME IsFiniteSet(holders), NEW j \in Jobs, j \notin holders, holders' = holders \cup {j}
  PROVE  /\ IsFiniteSet(holders')
         /\ Cardinality(HoldersOf(Owner[j])') = Cardinality(HoldersOf(Owner[j])) + 1
         /\ \A t : t # Owner[j] => HoldersOf(t)' = HoldersOf(t)
<1>1. IsFiniteSet(holders')
  BY FS_AddElement
<1>2. HoldersOf(Owner[j])' = HoldersOf(Owner[j]) \cup {j} /\ j \notin HoldersOf(Owner[j])
  BY DEF HoldersOf
<1>3. Cardinality(HoldersOf(Owner[j])') = Cardinality(HoldersOf(Owner[j])) + 1
  BY <1>2, HoldersFinite, FS_AddElement
<1>4. \A t : t # Owner[j] => HoldersOf(t)' = HoldersOf(t)
  BY DEF HoldersOf
<1>5. QED
  BY <1>1, <1>3, <1>4

LEMMA HoldersLost ==
  ASSUME IsFiniteSet(holders), NEW j \in Jobs, holders' = holders \ {j}
  PROVE  /\ IsFiniteSet(holders')
         /\ j \in holders =>
              Cardinality(HoldersOf(Owner[j])') = Cardinality(HoldersOf(Owner[j])) - 1
         /\ j \notin holders => HoldersOf(Owner[j])' = HoldersOf(Owner[j])
         /\ \A t : t # Owner[j] => HoldersOf(t)' = HoldersOf(t)
<1>1. IsFiniteSet(holders')
  BY FS_RemoveElement
<1>2. HoldersOf(Owner[j])' = HoldersOf(Owner[j]) \ {j}
  BY DEF HoldersOf
<1>3. ASSUME j \in holders
      PROVE  Cardinality(HoldersOf(Owner[j])') = Cardinality(HoldersOf(Owner[j])) - 1
  <2>1. j \in HoldersOf(Owner[j])
    BY <1>3 DEF HoldersOf
  <2>2. QED
    BY <1>2, <2>1, HoldersFinite, FS_RemoveElement
<1>4. \A t : t # Owner[j] => HoldersOf(t)' = HoldersOf(t)
  BY DEF HoldersOf
<1>5. ASSUME j \notin holders PROVE HoldersOf(Owner[j])' = HoldersOf(Owner[j])
  BY <1>5 DEF HoldersOf
<1>6. QED
  BY <1>1, <1>3, <1>4, <1>5

(***************************************************************************)
(* The counter never runs above the reservations.                          *)
(***************************************************************************)

\* NeverOvercounts is inductive once a submission that did not arrive is known
\* to hold nothing.
CounterInv ==
  /\ TypeInv
  /\ IsFiniteSet(holders)
  /\ \A j \in Jobs : api[j] = "idle" => j \notin holders
  /\ NeverOvercounts

LEMMA CounterInit == Init => CounterInv
<1> SUFFICES ASSUME Init PROVE CounterInv
  OBVIOUS
<1>1. TypeInv
  BY InitType DEF Init, WorkerInit, TaskInit, TypeInv, ResultsKnown
<1>2. holders = {} /\ IsFiniteSet(holders)
  BY FS_EmptySet DEF Init, StoreInit
<1>3. \A t \in Tenants : Cardinality(HoldersOf(t)) \in Nat /\ active[t] = 0
  BY <1>2, HoldersFinite DEF Init, StoreInit
<1>4. QED
  BY <1>1, <1>2, <1>3 DEF CounterInv, NeverOvercounts

\* A reservation adds one to both sides, and a release takes one job from the
\* holders and at most one from the counter.
LEMMA CounterBelow ==
  ASSUME TypeOK, IsFiniteSet(holders), NeverOvercounts, [Next]_vars,
         \A j \in Jobs : Reserves(j) => j \notin holders
  PROVE  IsFiniteSet(holders') /\ NeverOvercounts'
<1>1. CASE UNCHANGED <<active, holders>>
  BY <1>1 DEF NeverOvercounts, HoldersOf
<1>2. ASSUME NEW j \in Jobs, Reserves(j)
      PROVE  IsFiniteSet(holders') /\ NeverOvercounts'
  <2>1. j \notin holders /\ holders' = holders \cup {j}
    BY <1>2 DEF Reserves
  <2>2. ASSUME NEW t \in Tenants PROVE active'[t] <= Cardinality(HoldersOf(t)')
    BY <1>2, <2>1, HoldersGained, HoldersFinite, EntriesShape
       DEF Reserves, NeverOvercounts, TypeOK, StoreTypeOK
  <2>3. QED
    BY <2>1, <2>2, HoldersGained DEF NeverOvercounts
<1>3. ASSUME NEW j \in Jobs, ReleaseSlot(j)
      PROVE  IsFiniteSet(holders') /\ NeverOvercounts'
  <2>1. holders' = holders \ {j}
    BY <1>3 DEF ReleaseSlot
  <2>2. ASSUME NEW t \in Tenants PROVE active'[t] <= Cardinality(HoldersOf(t)')
    <3>1. active[t] \in Nat /\ active[t] <= Cardinality(HoldersOf(t)) /\ Cardinality(HoldersOf(t)) \in Nat
      BY HoldersFinite DEF NeverOvercounts, TypeOK, StoreTypeOK
    <3>2. CASE t # Owner[j]
      BY <1>3, <2>1, <3>1, <3>2, HoldersLost DEF ReleaseSlot, TypeOK, StoreTypeOK
    <3>3. CASE t = Owner[j]
      <4>1. active'[t] = FlooredDecr(active[t])
        BY <1>3, <3>3 DEF ReleaseSlot, TypeOK, StoreTypeOK
      <4>2. CASE j \in holders
        <5>1. Cardinality(HoldersOf(t)') = Cardinality(HoldersOf(t)) - 1
          BY <2>1, <3>3, <4>2, HoldersLost
        <5>2. HoldersOf(t) # {}
          BY <3>3, <4>2 DEF HoldersOf
        <5>3. Cardinality(HoldersOf(t)) # 0
          BY <5>2, HoldersFinite, FS_EmptySet
        <5>4. QED
          BY <3>1, <4>1, <5>1, <5>3 DEF FlooredDecr
      <4>3. CASE j \notin holders
        BY <2>1, <3>1, <3>3, <4>1, <4>3, HoldersLost DEF FlooredDecr
      <4>4. QED
        BY <4>2, <4>3
    <3>4. QED
      BY <3>2, <3>3
  <2>3. QED
    BY <2>1, <2>2, HoldersLost DEF NeverOvercounts
<1>4. QED
  BY <1>1, <1>2, <1>3, StepsOnQuota DEF QuotaStep, Releases

LEMMA CounterStep == CounterInv /\ [Next]_vars => CounterInv'
<1> SUFFICES ASSUME CounterInv, [Next]_vars PROVE CounterInv'
  OBVIOUS
<1>1. TypeInv' /\ TypeOK
  BY StepType DEF CounterInv, TypeInv
<1>2. \A j \in Jobs : Reserves(j) => j \notin holders
  BY DEF CounterInv, Reserves
<1>3. IsFiniteSet(holders') /\ NeverOvercounts'
  BY <1>1, <1>2, CounterBelow DEF CounterInv
<1>4. \A j \in Jobs : api'[j] = "idle" => j \notin holders'
  BY <1>1, StepsOnQuota DEF CounterInv, QuotaStep, Reserves, Releases, ReleaseSlot
<1>5. QED
  BY <1>1, <1>3, <1>4 DEF CounterInv

\* Under every fault, crash, redelivery and replay the tenant's counter is at
\* most the number of its outstanding reservations: a tenant below its limit is
\* never refused for slots it does not hold.
THEOREM CounterSound == Spec => []NeverOvercounts
<1>1. CounterInv => NeverOvercounts
  BY DEF CounterInv
<1>2. QED
  BY <1>1, CounterInit, CounterStep, PTL DEF Spec

(***************************************************************************)
(* The attempts, whatever fails: an entry's starts are its failed attempts, *)
(* its redeliveries and the one under way or done; a listener was called   *)
(* for each failed attempt and for no other; a runner task belongs to a    *)
(* start.                                                                  *)
(***************************************************************************)

AttemptsCounted ==
  \A e \in Entries :
    /\ starts[e] = made[e] + stalls[e] + (IF queue[e] \in {"active", "completed"} THEN 1 ELSE 0)
    /\ stalls[e] <= MaxStalls
    /\ queue[e] = "none" => made[e] = 0 /\ stalls[e] = 0
    /\ queue[e] \in Pending \cup {"completed"} => made[e] < Attempts
    /\ queue[e] = "failed" => made[e] = Attempts
    /\ queue[e] = "active" <=> proc[e] # "idle"

ListenersCounted ==
  \A f \in Failures :
    /\ handler[f] # "none" <=> f[2] <= made[f[1]]
    /\ handler[f] \in {"recorded", "released", "copied"} => f[2] = Attempts

TasksCounted ==
  /\ \A a \in TaskIds : task[a] # "none" =>
       /\ Backend = "ecs"
       /\ a[2] <= starts[a[1]]
       /\ a[2] = starts[a[1]] /\ queue[a[1]] = "active" => proc[a[1]] \in {"launched", "dispatched"}
  /\ \A e \in Entries :
       /\ proc[e] \in {"executed", "recorded", "charged", "released"} => Backend = "local"
       /\ proc[e] \in {"launched", "dispatched"} =>
            Backend = "ecs" /\ task[<<e, starts[e]>>] # "none"
       /\ queue[e] = "completed" /\ Backend = "ecs" => task[<<e, starts[e]>>] # "none"

AttemptInv ==
  /\ TypeInv
  /\ AttemptsCounted
  /\ ListenersCounted
  /\ TasksCounted

Counted == AttemptsCounted /\ ListenersCounted /\ TasksCounted

LEMMA CountedInit == Init => Counted
<1> SUFFICES ASSUME Init PROVE Counted
  OBVIOUS
<1>1. \A e \in Entries : /\ queue[e] = "none" /\ proc[e] = "idle"
                         /\ made[e] = 0 /\ starts[e] = 0 /\ stalls[e] = 0
  BY DEF Init, QueueInit, WorkerInit
<1>2. \A f \in Failures : handler[f] = "none" /\ f[1] \in Entries /\ f[2] \in 1 .. Attempts
  BY EntriesShape DEF Init, WorkerInit
<1>3. \A a \in TaskIds : task[a] = "none"
  BY DEF Init, TaskInit
<1>4. AttemptsCounted
  BY <1>1, BoundsAssumption DEF AttemptsCounted, Pending
<1>5. ListenersCounted
  BY <1>1, <1>2, AttemptsAssumption DEF ListenersCounted
<1>6. TasksCounted
  BY <1>1, <1>3 DEF TasksCounted
<1>7. QED
  BY <1>4, <1>5, <1>6 DEF Counted

\* An active or completed entry is within its attempts and redeliveries, so its
\* start has a task of its own to launch.
LEMMA StartHasTask ==
  ASSUME AttemptInv, NEW e \in Entries, queue[e] \in {"active", "completed"}
  PROVE  /\ made[e] \in Nat /\ stalls[e] \in Nat /\ made[e] < Attempts
         /\ <<e, made[e] + 1>> \in Failures
         /\ <<e, starts[e]>> \in TaskIds
<1>1. made[e] \in Nat /\ stalls[e] \in Nat /\ starts[e] \in Nat
  BY DEF AttemptInv, TypeInv, TypeOK, QueueTypeOK
<1>2. /\ starts[e] = made[e] + stalls[e] + 1
      /\ stalls[e] <= MaxStalls
      /\ made[e] < Attempts
  BY DEF AttemptInv, AttemptsCounted, Pending
<1>3. <<e, made[e] + 1>> \in Failures
  BY <1>1, <1>2, AttemptsAssumption DEF Failures
<1>4. <<e, starts[e]>> \in TaskIds
  BY <1>1, <1>2, AttemptsAssumption, BoundsAssumption DEF TaskIds
<1>5. QED
  BY <1>1, <1>2, <1>3, <1>4

LEMMA CountedFrame ==
  ASSUME Counted, UNCHANGED <<queue, made, starts, stalls, proc, handler, task>>
  PROVE  Counted'
BY DEF Counted, AttemptsCounted, ListenersCounted, TasksCounted

\* An entry is added to the queue, or its backoff is over.
LEMMA AddedCounted ==
  ASSUME AttemptInv, NEW e \in Entries, Add(e) \/ Promote(e), UNCHANGED <<proc, handler, task>>
  PROVE  Counted'
<1> USE DEF AttemptInv
<1>1. queue[e] \in {"none", "delayed"} /\ queue' = [queue EXCEPT ![e] = "waiting"]
  BY DEF Add, Promote, Move
<1>2. \A g \in Entries : IF g = e THEN queue'[g] = "waiting" ELSE queue'[g] = queue[g]
  BY <1>1 DEF TypeInv, TypeOK, QueueTypeOK
<1>3. UNCHANGED <<made, starts, stalls>>
  BY DEF Add, Promote
<1>4. AttemptsCounted'
  BY <1>1, <1>2, <1>3, AttemptsAssumption DEF AttemptsCounted, Pending
<1>5. ListenersCounted'
  BY <1>3 DEF ListenersCounted
<1>6. TasksCounted'
  BY <1>1, <1>2, <1>3, EntriesShape DEF TasksCounted
<1>7. QED
  BY <1>4, <1>5, <1>6 DEF Counted

LEMMA TakenCounted ==
  ASSUME AttemptInv, NEW w \in Workers, NEW e \in Entries, TakeJob(w, e)
  PROVE  Counted'
<1> USE DEF AttemptInv
<1>1. /\ queue[e] = "waiting" /\ proc[e] = "idle"
      /\ \A g \in Entries : IF g = e THEN queue'[g] = "active" /\ proc'[g] = "taken"
                                          /\ starts'[g] = starts[g] + 1
                                     ELSE queue'[g] = queue[g] /\ proc'[g] = proc[g]
                                          /\ starts'[g] = starts[g]
  BY DEF TakeJob, Take, Move, Proceed, TypeInv, TypeOK, QueueTypeOK, WorkerTypeOK
<1>2. UNCHANGED <<made, stalls, handler, task>>
  BY DEF TakeJob, Take, taskVars
<1>3. \A g \in Entries : made[g] \in Nat /\ stalls[g] \in Nat /\ starts[g] \in Nat
  BY DEF TypeInv, TypeOK, QueueTypeOK
<1>4. AttemptsCounted'
  BY <1>1, <1>2, <1>3 DEF AttemptsCounted, Pending
<1>5. ListenersCounted'
  BY <1>2 DEF ListenersCounted
<1>6. \A a \in TaskIds : a[1] \in Entries /\ a[2] \in Nat
  BY AttemptsAssumption, BoundsAssumption DEF TaskIds
<1>7. TasksCounted'
  BY <1>1, <1>2, <1>3, <1>6 DEF TasksCounted
<1>8. QED
  BY <1>4, <1>5, <1>7 DEF Counted

\* A step of the processor that launches nothing and leaves the entry active.
LEMMA ProceedCounted ==
  ASSUME AttemptInv, NEW e \in Entries, NEW from, NEW to \in ProcStates \ {"idle"},
         Proceed(e, from, to), from # "idle", UNCHANGED <<queueVars, handler, task>>,
         \/ to = "running"
         \/ from = "running" /\ to = "executed" /\ Backend = "local"
         \/ /\ from \in {"executed", "recorded", "charged"}
            /\ to \in {"recorded", "charged", "released"}
         \/ from = "launched" /\ to = "dispatched",
         to = "running" => from = "taken"
  PROVE  Counted'
<1> USE EntriesShape DEF AttemptInv
<1>1. /\ proc[e] = from /\ proc'[e] = to
      /\ \A g \in Entries : g # e => proc'[g] = proc[g]
  BY DEF Proceed, TypeInv, TypeOK, WorkerTypeOK
<1>2. UNCHANGED <<queue, made, starts, stalls>>
  BY DEF queueVars
<1>3. AttemptsCounted'
  BY <1>1, <1>2 DEF AttemptsCounted
<1>4. ListenersCounted'
  BY <1>2 DEF ListenersCounted
<1>5. queue[e] = "active"
  BY <1>1 DEF AttemptsCounted
<1>6. TasksCounted'
  BY <1>1, <1>2, <1>5 DEF TasksCounted
<1>7. QED
  BY <1>3, <1>4, <1>6 DEF Counted

LEMMA DispatchCounted ==
  ASSUME AttemptInv, NEW e \in Entries, DispatchEcsRunner(e)
  PROVE  Counted'
<1> USE EntriesShape DEF AttemptInv
<1>1. /\ proc[e] = "running" /\ Backend = "ecs"
      /\ \A g \in Entries : IF g = e THEN proc'[g] = "launched" ELSE proc'[g] = proc[g]
  BY DEF DispatchEcsRunner, Proceed, TypeInv, TypeOK, WorkerTypeOK
<1>2. UNCHANGED <<queue, made, starts, stalls, handler>>
  BY DEF DispatchEcsRunner, queueVars
<1>3. queue[e] = "active" /\ <<e, starts[e]>> \in TaskIds
  BY <1>1, StartHasTask DEF AttemptsCounted
<1>4. \A a \in TaskIds : IF a = <<e, starts[e]>> THEN task'[a] = "executing" ELSE task'[a] = task[a]
  BY DEF DispatchEcsRunner, Launch, Advance, TypeInv, TypeOK, TaskTypeOK
<1>5. AttemptsCounted'
  BY <1>1, <1>2, <1>3 DEF AttemptsCounted
<1>6. ListenersCounted'
  BY <1>2 DEF ListenersCounted
<1>7. \A g \in Entries : proc'[g] \in {"launched", "dispatched"} \/ queue[g] = "completed" =>
        /\ <<g, starts[g]>> \in TaskIds
        /\ Backend = "ecs" => g = e \/ task[<<g, starts[g]>>] # "none"
  BY <1>1, <1>3, StartHasTask DEF AttemptsCounted, TasksCounted
<1>8. \A g \in Entries : starts[g] \in Nat
  BY DEF TypeInv, TypeOK, QueueTypeOK
<1>9. TasksCounted'
  <2>1. ASSUME NEW a \in TaskIds, task'[a] # "none"
        PROVE  /\ a[2] <= starts'[a[1]]
               /\ a[2] = starts'[a[1]] /\ queue'[a[1]] = "active" => proc'[a[1]] \in {"launched", "dispatched"}
    <3>1. CASE a = <<e, starts[e]>>
      BY <1>1, <1>2, <1>8, <3>1
    <3>2. CASE a # <<e, starts[e]>>
      BY <1>1, <1>2, <1>4, <2>1, <3>2 DEF TasksCounted
    <3>3. QED
      BY <3>1, <3>2
  <2>2. ASSUME NEW g \in Entries,
               proc'[g] \in {"launched", "dispatched"} \/ queue'[g] = "completed"
        PROVE  task'[<<g, starts'[g]>>] # "none"
    <3>1. /\ <<g, starts[g]>> \in TaskIds
          /\ g = e \/ task[<<g, starts[g]>>] # "none"
      BY <1>1, <1>2, <1>7, <2>2
    <3>2. QED
      BY <1>2, <1>4, <3>1
  <2>3. QED
    BY <1>1, <1>2, <2>1, <2>2 DEF TasksCounted
<1>10. QED
  BY <1>5, <1>6, <1>9 DEF Counted

LEMMA FinishCounted ==
  ASSUME AttemptInv, NEW e \in Entries, FinishAttempt(e)
  PROVE  Counted'
<1> USE EntriesShape DEF AttemptInv
<1>1. /\ proc[e] \in {"released", "dispatched"} /\ queue[e] = "active"
      /\ \A g \in Entries : IF g = e THEN proc'[g] = "idle" /\ queue'[g] = "completed"
                                     ELSE proc'[g] = proc[g] /\ queue'[g] = queue[g]
  BY DEF FinishAttempt, Proceed, MoveToCompleted, Move, TypeInv, TypeOK, WorkerTypeOK, QueueTypeOK
<1>2. UNCHANGED <<made, starts, stalls, handler, task>>
  BY DEF FinishAttempt, MoveToCompleted, taskVars
<1>3. AttemptsCounted'
  BY <1>1, <1>2 DEF AttemptsCounted, Pending
<1>4. ListenersCounted'
  BY <1>2 DEF ListenersCounted
<1>5. TasksCounted'
  BY <1>1, <1>2 DEF TasksCounted
<1>6. QED
  BY <1>3, <1>4, <1>5 DEF Counted

\* A failed attempt: the entry goes on or is exhausted, and its listener is called.
LEMMA FailureCounted ==
  ASSUME AttemptInv, NEW e \in Entries, NotifyFailure(e), proc' = [proc EXCEPT ![e] = "idle"]
  PROVE  /\ AttemptsCounted' /\ ListenersCounted'
         /\ UNCHANGED starts
         /\ \A g \in Entries : IF g = e THEN proc'[g] = "idle" /\ queue'[g] \in {"delayed", "failed"}
                                        ELSE proc'[g] = proc[g] /\ queue'[g] = queue[g]
<1> USE EntriesShape DEF AttemptInv
<1>1. /\ queue[e] = "active" /\ queue' = [queue EXCEPT ![e] = AfterFailure(e)]
      /\ made' = [made EXCEPT ![e] = @ + 1]
      /\ UNCHANGED <<starts, stalls>>
      /\ handler' = [handler EXCEPT ![<<e, made[e] + 1>>] = "notified"]
  BY DEF NotifyFailure, MoveToFailed, Move
<1>2. \A g \in Entries : made[g] \in Nat /\ stalls[g] \in Nat /\ starts[g] \in Nat
  BY DEF TypeInv, TypeOK, QueueTypeOK
<1>3. \A g \in Entries : IF g = e THEN /\ proc'[g] = "idle" /\ queue'[g] = AfterFailure(g)
                                       /\ made'[g] = made[g] + 1
                                  ELSE /\ proc'[g] = proc[g] /\ queue'[g] = queue[g]
                                       /\ made'[g] = made[g]
  BY <1>1 DEF TypeInv, TypeOK, WorkerTypeOK, QueueTypeOK
<1>4. made[e] < Attempts /\ <<e, made[e] + 1>> \in Failures
  BY <1>1, StartHasTask
<1>5. AfterFailure(e) = IF made[e] + 1 < Attempts THEN "delayed" ELSE "failed"
  BY DEF AfterFailure
<1>6. AttemptsCounted'
  BY <1>1, <1>2, <1>3, <1>4, <1>5, AttemptsAssumption DEF AttemptsCounted, Pending
<1>7. \A f \in Failures : IF f = <<e, made[e] + 1>> THEN handler'[f] = "notified"
                                                      ELSE handler'[f] = handler[f]
  BY <1>1 DEF TypeInv, TypeOK, WorkerTypeOK
<1>8. \A f \in Failures : f[2] \in Nat /\ (f[1] = e /\ f[2] = made[e] + 1 => f = <<e, made[e] + 1>>)
  BY AttemptsAssumption DEF Failures
<1>9. ListenersCounted'
  BY <1>2, <1>3, <1>4, <1>7, <1>8 DEF ListenersCounted
<1>10. QED
  BY <1>1, <1>3, <1>5, <1>6, <1>9

LEMMA ThrowsCounted ==
  ASSUME AttemptInv, NEW e \in Entries, AttemptThrows(e)
  PROVE  Counted'
<1>1. NotifyFailure(e) /\ proc' = [proc EXCEPT ![e] = "idle"] /\ UNCHANGED task
  BY DEF AttemptThrows, Proceed, taskVars
<1>2. /\ AttemptsCounted' /\ ListenersCounted' /\ UNCHANGED starts
      /\ \A g \in Entries : IF g = e THEN proc'[g] = "idle" /\ queue'[g] \in {"delayed", "failed"}
                                     ELSE proc'[g] = proc[g] /\ queue'[g] = queue[g]
  BY <1>1, FailureCounted
<1>3. TasksCounted'
  BY <1>1, <1>2, EntriesShape DEF AttemptInv, TasksCounted
<1>4. QED
  BY <1>2, <1>3 DEF Counted

LEMMA LostAnswerCounted ==
  ASSUME AttemptInv, NEW e \in Entries, DispatchAnswerLost(e)
  PROVE  Counted'
<1> USE EntriesShape DEF AttemptInv
<1>1. /\ NotifyFailure(e) /\ proc' = [proc EXCEPT ![e] = "idle"]
      /\ Backend = "ecs" /\ proc[e] = "running"
  BY DEF DispatchAnswerLost, Proceed
<1>0. /\ AttemptsCounted' /\ ListenersCounted' /\ UNCHANGED starts
      /\ \A g \in Entries : IF g = e THEN proc'[g] = "idle" /\ queue'[g] \in {"delayed", "failed"}
                                     ELSE proc'[g] = proc[g] /\ queue'[g] = queue[g]
  BY <1>1, FailureCounted
<1>2. task' = [task EXCEPT ![<<e, starts[e]>>] = "executing"]
  BY DEF DispatchAnswerLost, Launch, Advance
<1>3. \A a \in TaskIds : a # <<e, starts[e]>> => task'[a] = task[a]
  BY <1>2 DEF TypeInv, TypeOK, TaskTypeOK
<1>4. \A g \in Entries : starts[g] \in Nat
  BY DEF TypeInv, TypeOK, QueueTypeOK
<1>5. \A g \in Entries : proc'[g] \in {"launched", "dispatched"} \/ queue'[g] = "completed" =>
        /\ <<g, starts[g]>> \in TaskIds /\ g # e
        /\ proc[g] \in {"launched", "dispatched"} \/ queue[g] = "completed"
  BY <1>1, <1>0, StartHasTask DEF AttemptsCounted
<1>6. TasksCounted'
  <2>1. ASSUME NEW a \in TaskIds, task'[a] # "none"
        PROVE  /\ a[2] <= starts'[a[1]]
               /\ a[2] = starts'[a[1]] /\ queue'[a[1]] = "active" => proc'[a[1]] \in {"launched", "dispatched"}
    <3>1. CASE a = <<e, starts[e]>>
      BY <1>4, <1>0, <3>1
    <3>2. CASE a # <<e, starts[e]>>
      BY <1>3, <2>1, <1>0, <3>2 DEF TasksCounted
    <3>3. QED
      BY <3>1, <3>2
  <2>2. ASSUME NEW g \in Entries, proc'[g] \in {"launched", "dispatched"} \/ queue'[g] = "completed"
        PROVE  Backend = "ecs" => task'[<<g, starts'[g]>>] # "none"
    <3>1. task[<<g, starts[g]>>] # "none" /\ <<g, starts[g]>> # <<e, starts[e]>>
      BY <1>1, <1>5, <2>2 DEF TasksCounted
    <3>2. QED
      BY <1>1, <1>3, <1>0, <1>5, <2>2, <3>1
  <2>3. QED
    BY <1>1, <2>1, <2>2, <1>0 DEF TasksCounted
<1>7. QED
  BY <1>0, <1>6 DEF Counted

LEMMA ProcessorCounted ==
  ASSUME AttemptInv, NEW e \in Entries, ProcessorStep(e)
  PROVE  Counted'
<1>1. CASE MarkRunning(e)
  BY <1>1, ProceedCounted DEF MarkRunning, ProcStates, taskVars
<1>2. CASE ExecuteLocalRunner(e)
  BY <1>2, ProceedCounted DEF ExecuteLocalRunner, ProcStates, taskVars
<1>3. CASE RecordResult(e) \/ IncrementDailyCost(e) \/ DecrementActiveQuota(e)
  BY <1>3, ProceedCounted DEF RecordResult, IncrementDailyCost, DecrementActiveQuota, ProcStates, taskVars
<1>4. CASE MarkDispatched(e)
  BY <1>4, ProceedCounted DEF MarkDispatched, ProcStates, taskVars
<1>5. QED
  BY <1>1, <1>2, <1>3, <1>4, DispatchCounted, FinishCounted, ThrowsCounted, LostAnswerCounted
     DEF ProcessorStep

\* A listener's next command: only the last attempt's goes beyond the first.
LEMMA ListenerCounted ==
  ASSUME AttemptInv, NEW f \in Failures, HandlerStep(f)
  PROVE  Counted'
<1> USE EntriesShape DEF AttemptInv
<1>1. PICK to \in {"recorded", "released", "copied", "done"} :
        /\ handler' = [handler EXCEPT ![f] = to]
        /\ handler[f] # "none"
        /\ to # "done" => ~HasAttemptsLeft(f[2]) \/ handler[f] \in {"recorded", "released", "copied"}
  BY DEF HandlerStep, MarkRetrying, MarkFailed, ReleaseFailed, CopyToDlq, MarkDeadLettered, Handle
<1>2. \A g \in Failures : IF g = f THEN handler'[g] = to ELSE handler'[g] = handler[g]
  BY <1>1 DEF TypeInv, TypeOK, WorkerTypeOK
<1>3. UNCHANGED <<queue, made, starts, stalls, proc, task>>
  BY DEF HandlerStep, MarkRetrying, MarkFailed, ReleaseFailed, CopyToDlq, MarkDeadLettered,
         queueVars, taskVars
<1>4. to # "done" => f[2] = Attempts
  BY <1>1, AttemptsAssumption DEF HasAttemptsLeft, ListenersCounted
<1>5. ListenersCounted'
  BY <1>1, <1>2, <1>3, <1>4 DEF ListenersCounted
<1>6. QED
  BY <1>3, <1>5 DEF Counted, AttemptsCounted, TasksCounted

LEMMA RunnerCounted ==
  ASSUME AttemptInv, NEW a \in TaskIds, RunTask(a) \/ BreakTask(a), UNCHANGED workerVars
  PROVE  Counted'
<1> USE EntriesShape DEF AttemptInv
<1>1. PICK to \in TaskStates \ {"none"} : task' = [task EXCEPT ![a] = to] /\ task[a] # "none"
  BY DEF RunTask, BreakTask, ExecuteUserCode, RecordTaskResult, ChargeTask, ReleaseTaskSlot,
         ExitTask, EnterFallback, FallbackThrows, KillTask, Advance, TaskStates
<1>2. \A b \in TaskIds : IF b = a THEN task'[b] = to ELSE task'[b] = task[b]
  BY <1>1 DEF TypeInv, TypeOK, TaskTypeOK
<1>3. UNCHANGED <<queue, made, starts, stalls, proc, handler>>
  BY DEF RunTask, BreakTask, ExecuteUserCode, RecordTaskResult, ChargeTask, ReleaseTaskSlot,
         ExitTask, EnterFallback, FallbackThrows, KillTask, queueVars, workerVars
<1>4. \A e \in Entries : queue[e] \in {"active", "completed"} => <<e, starts[e]>> \in TaskIds
  BY StartHasTask
<1>5. \A e \in Entries : proc[e] # "idle" => queue[e] = "active"
  BY DEF AttemptsCounted
<1>6. TasksCounted'
  BY <1>1, <1>2, <1>3, <1>4, <1>5 DEF TasksCounted
<1>7. QED
  BY <1>3, <1>6 DEF Counted, AttemptsCounted, ListenersCounted

\* A worker's death: its active entries are redelivered, its listeners lost.
LEMMA CrashCounted ==
  ASSUME AttemptInv, NEW w \in Workers, WorkerCrash(w)
  PROVE  Counted'
<1> USE EntriesShape DEF AttemptInv
<1> DEFINE D == ActiveAt(w)
<1>1. /\ D \subseteq Entries
      /\ \A e \in D : queue[e] = "active" /\ stalls[e] < MaxStalls
  BY DEF WorkerCrash, Redeliver, ActiveAt
<1>2. \A e \in Entries :
        IF e \in D THEN queue'[e] = "waiting" /\ stalls'[e] = stalls[e] + 1 /\ proc'[e] = "idle"
        ELSE queue'[e] = queue[e] /\ stalls'[e] = stalls[e] /\ proc'[e] = proc[e]
  BY DEF WorkerCrash, Redeliver
<1>3. \A f \in Failures : handler'[f] = handler[f] \/ (handler'[f] = "lost" /\ handler[f] # "none")
  <2>1. handler' = [f \in Failures |-> IF f \in ListeningAt(w) THEN "lost" ELSE handler[f]]
    BY DEF WorkerCrash
  <2>2. \A f \in ListeningAt(w) : handler[f] # "none"
    BY DEF ListeningAt
  <2>3. QED
    BY <2>1, <2>2
<1>4. UNCHANGED <<made, starts, task>>
  BY DEF WorkerCrash, Redeliver, taskVars
<1>5. \A e \in Entries : made[e] \in Nat /\ stalls[e] \in Nat /\ starts[e] \in Nat
  BY DEF TypeInv, TypeOK, QueueTypeOK
<1>6. AttemptsCounted'
  BY <1>1, <1>2, <1>4, <1>5, BoundsAssumption DEF AttemptsCounted, Pending
<1>7. ListenersCounted'
  BY <1>3, <1>4 DEF ListenersCounted
<1>8. TasksCounted'
  BY <1>1, <1>2, <1>4 DEF TasksCounted
<1>9. QED
  BY <1>6, <1>7, <1>8 DEF Counted

LEMMA SubmissionCounted ==
  ASSUME AttemptInv, NEW j \in Jobs, SubmissionStep(j), UNCHANGED <<taskVars, workerVars>>
  PROVE  Counted'
<1> USE EntriesShape DEF AttemptInv
<1>1. UNCHANGED <<proc, handler, task>>
  BY DEF taskVars, workerVars
<1>2. CASE EnqueueJob(j)
  BY <1>1, <1>2, AddedCounted DEF EnqueueJob
<1>3. CASE ~EnqueueJob(j)
  <2>1. UNCHANGED queueVars
    BY <1>3
       DEF SubmissionStep, RejectSubmission, ReserveQuota, ContinueSubmission, WriteJobHash,
           AppendHistoryItem, AcceptSubmission, RollbackReservedQuota, DeleteJobHash,
           DropHistoryItem, FailSubmission, SubmissionThrows, HandlerThrows, ApiCrash
  <2>2. QED
    BY <1>1, <2>1, CountedFrame DEF queueVars, Counted
<1>4. QED
  BY <1>2, <1>3

LEMMA ReplayCounted ==
  ASSUME AttemptInv, NEW p \in Replayers, ReplayStep(p)
  PROVE  Counted'
<1> USE EntriesShape DEF AttemptInv
<1>1. UNCHANGED <<proc, handler, task>>
  BY DEF ReplayStep, FetchJobs, AddReplay, RemoveDeadLetter, SkipDeadLetter, FinishReplay,
         ReplayCrash, taskVars, workerVars
<1>2. CASE AddReplay(p)
  <2>1. PICK e \in todo[p], r \in 1 .. MaxReplays : Add(<<JobOf(e), r>>)
    BY <1>2 DEF AddReplay
  <2>2. e \in Entries
    BY DEF TypeInv, TypeOK, ReplayTypeOK
  <2>3. <<JobOf(e), r>> \in Entries
    BY <2>2, BoundsAssumption DEF Entries
  <2>4. QED
    BY <1>1, <2>1, <2>3, AddedCounted
<1>3. CASE ~AddReplay(p)
  <2>1. UNCHANGED <<queue, made, starts, stalls>>
    BY <1>3
       DEF ReplayStep, FetchJobs, RemoveDeadLetter, SkipDeadLetter, FinishReplay, ReplayCrash, queueVars
  <2>2. QED
    BY <1>1, <2>1, CountedFrame DEF Counted
<1>4. QED
  BY <1>2, <1>3

LEMMA AttemptInit == Init => AttemptInv
BY CountedInit, InitType DEF Init, WorkerInit, TaskInit, TypeInv, ResultsKnown, AttemptInv, Counted

LEMMA AttemptStep == AttemptInv /\ [Next]_vars => AttemptInv'
<1> SUFFICES ASSUME AttemptInv, [Next]_vars PROVE AttemptInv'
  OBVIOUS
<1>1. TypeInv'
  BY StepType DEF AttemptInv
<1>2. Counted
  BY DEF AttemptInv, Counted
<1>3. ASSUME Midnight, UNCHANGED <<taskVars, workerVars, replayVars>> PROVE Counted'
  <2>1. UNCHANGED <<queue, made, starts, stalls, proc, handler, task>>
    BY <1>3 DEF Midnight, queueVars, taskVars, workerVars
  <2>2. QED
    BY <1>2, <2>1, CountedFrame
<1>4. ASSUME UNCHANGED vars PROVE Counted'
  <2>1. UNCHANGED <<queue, made, starts, stalls, proc, handler, task>>
    BY <1>4 DEF vars, queueVars, taskVars, workerVars
  <2>2. QED
    BY <1>2, <2>1, CountedFrame
<1>5. Counted'
  <2>1. ASSUME NEW e \in Entries, PromoteDelayed(e) PROVE Counted'
    BY <2>1, AddedCounted DEF PromoteDelayed, taskVars, workerVars
  <2>2. ASSUME NEW a \in TaskIds, RunTask(a) \/ BreakTask(a), UNCHANGED <<workerVars, replayVars>>
        PROVE  Counted'
    BY <2>2, RunnerCounted
  <2>3. ASSUME NEW j \in Jobs, SubmissionStep(j), UNCHANGED <<taskVars, workerVars, replayVars>>
        PROVE  Counted'
    BY <2>3, SubmissionCounted
  <2>4. QED
    BY <1>3, <1>4, <2>1, <2>2, <2>3, TakenCounted, ProcessorCounted, ListenerCounted,
       CrashCounted, ReplayCounted
       DEF Next, Submissions, SubmissionNext, Fetches, Processors, Listeners, Backoffs, Crashes,
           Tasks, BrokenTasks, Replays
<1>6. QED
  BY <1>1, <1>5 DEF AttemptInv, Counted

(***************************************************************************)
(* The dead-letter queue.                                                  *)
(***************************************************************************)

\* An entry that was added stays, and one that ended keeps its end.
LEMMA QueueGrows ==
  ASSUME TypeOK, [Next]_vars
  PROVE  \A e \in Entries :
           /\ queue[e] # "none" => queue'[e] # "none"
           /\ queue[e] \in {"completed", "failed"} => queue'[e] = queue[e]
           /\ queue[e] = "none" /\ queue'[e] # "none" =>
                \/ \E j \in Jobs : EnqueueJob(j) /\ e = <<j, 0>>
                \/ e[2] # 0 /\ \E p \in Replayers : AddReplay(p)
<1> DEFINE Grows == \A e \in Entries :
                      /\ queue[e] # "none" => queue'[e] # "none"
                      /\ queue[e] \in {"completed", "failed"} => queue'[e] = queue[e]
           Stays == \A e \in Entries : queue[e] = "none" => queue'[e] = "none"
<1>1. ASSUME NEW e \in Entries, NEW from, NEW to, Move(e, from, to),
             from \notin {"completed", "failed"}, to # "none"
      PROVE  Grows /\ (from # "none" => Stays) /\ (\A g \in Entries : g # e => queue'[g] = queue[g])
  BY <1>1 DEF Move, TypeOK, QueueTypeOK
<1>2. ASSUME UNCHANGED queue PROVE Grows /\ Stays
  BY <1>2
<1>3. ASSUME NEW j \in Jobs, SubmissionStep(j)
      PROVE  \/ Grows /\ Stays
             \/ /\ Grows /\ EnqueueJob(j)
                /\ \A g \in Entries : g # <<j, 0>> => queue'[g] = queue[g]
  <2>1. CASE EnqueueJob(j)
    BY <1>1, <2>1, EntriesShape DEF EnqueueJob, Add
  <2>2. CASE ~EnqueueJob(j)
    <3>1. UNCHANGED queueVars
      BY <1>3, <2>2
         DEF SubmissionStep, RejectSubmission, ReserveQuota, ContinueSubmission, WriteJobHash,
             AppendHistoryItem, AcceptSubmission, RollbackReservedQuota, DeleteJobHash,
             DropHistoryItem, FailSubmission, SubmissionThrows, HandlerThrows, ApiCrash
    <3>2. QED
      BY <1>2, <3>1 DEF queueVars
  <2>3. QED
    BY <2>1, <2>2
<1>4. ASSUME NEW p \in Replayers, ReplayStep(p)
      PROVE  \/ Grows /\ Stays
             \/ /\ Grows /\ AddReplay(p)
                /\ \A g \in Entries : g[2] = 0 => queue'[g] = queue[g]
  <2>1. CASE AddReplay(p)
    <3>1. PICK e \in todo[p], r \in 1 .. MaxReplays : Add(<<JobOf(e), r>>)
      BY <2>1 DEF AddReplay
    <3>2. <<JobOf(e), r>> \in Entries /\ r # 0
      BY EntriesShape, BoundsAssumption DEF Entries, TypeOK, ReplayTypeOK
    <3>3. Grows /\ \A g \in Entries : g # <<JobOf(e), r>> => queue'[g] = queue[g]
      BY <1>1, <3>1, <3>2 DEF Add
    <3>4. QED
      BY <2>1, <3>2, <3>3
  <2>2. CASE ~AddReplay(p)
    BY <1>2, <1>4, <2>2
       DEF ReplayStep, FetchJobs, RemoveDeadLetter, SkipDeadLetter, FinishReplay, ReplayCrash, queueVars
  <2>3. QED
    BY <2>1, <2>2
<1>5. ASSUME NEW w \in Workers, WorkerCrash(w)
      PROVE  Grows /\ Stays
  BY <1>5 DEF WorkerCrash, Redeliver, ActiveAt
<1>6. ASSUME NEW e \in Entries, ProcessorStep(e)
      PROVE  Grows /\ Stays
  <2>1. CASE FinishAttempt(e)
    BY <1>1, <2>1 DEF FinishAttempt, MoveToCompleted
  <2>2. CASE AttemptThrows(e) \/ DispatchAnswerLost(e)
    BY <1>1, <2>2 DEF AttemptThrows, DispatchAnswerLost, NotifyFailure, MoveToFailed, AfterFailure
  <2>3. CASE ~(FinishAttempt(e) \/ AttemptThrows(e) \/ DispatchAnswerLost(e))
    BY <1>2, <1>6, <2>3
       DEF ProcessorStep, MarkRunning, ExecuteLocalRunner, RecordResult, IncrementDailyCost,
           DecrementActiveQuota, DispatchEcsRunner, MarkDispatched, queueVars
  <2>4. QED
    BY <2>1, <2>2, <2>3
<1>7. ASSUME \/ \E w \in Workers, e \in Entries : TakeJob(w, e)
             \/ \E e \in Entries : PromoteDelayed(e)
      PROVE  Grows /\ Stays
  <2>1. \E e \in Entries : Move(e, "waiting", "active") \/ Move(e, "delayed", "waiting")
    BY <1>7 DEF TakeJob, Take, PromoteDelayed, Promote
  <2>2. QED
    BY <1>1, <2>1
<1>8. ASSUME \/ \E f \in Failures : HandlerStep(f)
             \/ \E a \in TaskIds : RunTask(a) \/ BreakTask(a)
             \/ Midnight
             \/ UNCHANGED vars
      PROVE  Grows /\ Stays
  BY <1>2, <1>8
     DEF HandlerStep, MarkRetrying, MarkFailed, ReleaseFailed, CopyToDlq, MarkDeadLettered,
         RunTask, BreakTask, ExecuteUserCode, RecordTaskResult, ChargeTask, ReleaseTaskSlot,
         ExitTask, EnterFallback, FallbackThrows, KillTask, Midnight, vars, queueVars
<1>9. \/ Grows /\ Stays
      \/ \E j \in Jobs : /\ Grows /\ EnqueueJob(j)
                        /\ \A g \in Entries : g # <<j, 0>> => queue'[g] = queue[g]
      \/ \E p \in Replayers : /\ Grows /\ AddReplay(p)
                              /\ \A g \in Entries : g[2] = 0 => queue'[g] = queue[g]
  <2> HIDE DEF Grows, Stays
  <2>1. CASE Submissions
    BY <1>3, <1>8, <2>1 DEF Submissions, SubmissionNext
  <2>2. CASE Replays
    BY <1>4, <2>2 DEF Replays
  <2>3. CASE Processors \/ Crashes
    BY <1>5, <1>6, <2>3 DEF Processors, Crashes
  <2>4. CASE Fetches \/ Backoffs
    BY <1>7, <2>4 DEF Fetches, Backoffs
  <2>5. CASE Listeners \/ Tasks \/ BrokenTasks \/ UNCHANGED vars
    BY <1>8, <2>5 DEF Listeners, Tasks, BrokenTasks
  <2>6. QED
    BY <2>1, <2>2, <2>3, <2>4, <2>5 DEF Next
<1>10. CASE Grows /\ Stays
  BY <1>10
<1>11. CASE \E j \in Jobs : /\ Grows /\ EnqueueJob(j)
                          /\ \A g \in Entries : g # <<j, 0>> => queue'[g] = queue[g]
  BY <1>11
<1>12. CASE \E p \in Replayers : /\ Grows /\ AddReplay(p)
                                /\ \A g \in Entries : g[2] = 0 => queue'[g] = queue[g]
  BY <1>12
<1>13. QED
  BY <1>9, <1>10, <1>11, <1>12

\* A later replay of the entry's job is on the main queue, or was.
Replayed(e) == \E r \in 1 .. MaxReplays : r > e[2] /\ queue[<<JobOf(e), r>>] # "none"

\* The replays of a job are numbered without gaps after the API's own entry, and
\* start from dead letters, which exhausted entries left.
Lineage ==
  /\ \A j \in Jobs : \A r \in 0 .. MaxReplays : \A k \in 0 .. r :
       queue[<<j, r>>] # "none" => queue[<<j, k>>] # "none"
  /\ \A e \in dlq : queue[e] = "failed"
  /\ \A p \in Replayers : \A e \in todo[p] : queue[e] = "failed"
  /\ \A p \in Replayers : \A e \in current[p] : Replayed(e)

LineageInv == AttemptInv /\ Lineage

LEMMA LineageInit == Init => LineageInv
BY AttemptInit, BoundsAssumption
   DEF LineageInv, Lineage, Init, QueueInit, ReplayInit, Entries

LEMMA NumberedWithoutGaps ==
  ASSUME LineageInv, [Next]_vars,
         NEW j \in Jobs, NEW r \in 0 .. MaxReplays, NEW k \in 0 .. r, queue'[<<j, r>>] # "none"
  PROVE  queue'[<<j, k>>] # "none"
<1>1. TypeOK /\ <<j, r>> \in Entries /\ <<j, k>> \in Entries
  BY BoundsAssumption DEF LineageInv, AttemptInv, TypeInv, Entries
<1>2. CASE queue[<<j, r>>] # "none"
  BY <1>1, <1>2, QueueGrows DEF LineageInv, Lineage
<1>3. CASE queue[<<j, r>>] = "none" /\ r = k
  BY <1>3
<1>4. ASSUME queue[<<j, r>>] = "none", r # k, NEW p \in Replayers, AddReplay(p)
      PROVE  queue'[<<j, k>>] # "none"
  <2>1. PICK e \in todo[p], n \in 1 .. MaxReplays :
          NextReplay(JobOf(e), n) /\ Add(<<JobOf(e), n>>)
    BY <1>4 DEF AddReplay
  <2>2. queue' = [queue EXCEPT ![<<JobOf(e), n>>] = "waiting"]
    BY <2>1 DEF Add, Move
  <2>3. <<j, r>> = <<JobOf(e), n>>
    BY <1>1, <1>4, <2>2 DEF TypeOK, QueueTypeOK
  <2>4. e \in Entries /\ e = <<JobOf(e), e[2]>> /\ e[2] \in 0 .. MaxReplays
    BY <1>1 DEF TypeOK, ReplayTypeOK, Entries, JobOf
  <2>5. queue[e] # "none"
    BY <2>1 DEF LineageInv, Lineage
  <2>6. queue[<<j, 0>>] # "none"
    BY <2>3, <2>4, <2>5 DEF LineageInv, Lineage
  <2>7. queue[<<j, k>>] # "none"
    BY <1>4, <2>1, <2>3, <2>6 DEF NextReplay
  <2>8. QED
    BY <1>1, <2>7, QueueGrows
<1>5. QED
  BY <1>1, <1>2, <1>3, <1>4, QueueGrows

LEMMA LineageStep == LineageInv /\ [Next]_vars => LineageInv'
<1> SUFFICES ASSUME LineageInv, [Next]_vars PROVE LineageInv'
  OBVIOUS
<1>1. AttemptInv' /\ TypeOK /\ TypeOK'
  BY AttemptStep DEF LineageInv, AttemptInv, TypeInv
<1>2. \A e \in Entries : /\ queue[e] # "none" => queue'[e] # "none"
                         /\ queue[e] = "failed" => queue'[e] = "failed"
  BY <1>1, QueueGrows
<1>3. \A e \in Entries : Replayed(e) => Replayed(e)'
  <2>1. \A e \in Entries, r \in 1 .. MaxReplays : <<JobOf(e), r>> \in Entries
    BY EntriesShape, BoundsAssumption DEF Entries
  <2>2. QED
    BY <1>2, <2>1 DEF Replayed
<1>4. /\ dlq \subseteq Entries
      /\ \A p \in Replayers : todo[p] \subseteq Entries /\ current[p] \subseteq Entries
  BY <1>1 DEF TypeOK, QueueTypeOK, ReplayTypeOK
<1> DEFINE Kept == /\ \A e \in dlq' : queue'[e] = "failed"
                   /\ \A p \in Replayers : \A e \in todo'[p] : queue'[e] = "failed"
                   /\ \A p \in Replayers : \A e \in current'[p] : Replayed(e)'
<1>5. ASSUME UNCHANGED replayVars,
             dlq' = dlq \/ \E e \in Entries : dlq' = dlq \cup {e} /\ queue[e] = "failed"
      PROVE  Kept
  BY <1>2, <1>3, <1>4, <1>5 DEF replayVars, LineageInv, Lineage
<1>6. ASSUME NEW f \in Failures, CopyToDlq(f)
      PROVE  dlq' = dlq \cup {f[1]} /\ f[1] \in Entries /\ queue[f[1]] = "failed"
  <2>1. handler[f] = "released" /\ dlq' = dlq \cup {f[1]}
    BY <1>6 DEF CopyToDlq, Handle
  <2>2. f[1] \in Entries /\ f[2] = Attempts /\ f[2] <= made[f[1]]
    BY <2>1, EntriesShape DEF LineageInv, AttemptInv, ListenersCounted
  <2>3. made[f[1]] \in Nat /\ queue[f[1]] \in QueueStates
    BY <1>1, <2>2 DEF TypeOK, QueueTypeOK
  <2>4. queue[f[1]] = "failed"
    BY <2>2, <2>3, AttemptsAssumption
       DEF LineageInv, AttemptInv, AttemptsCounted, QueueStates, Pending
  <2>5. QED
    BY <2>1, <2>2, <2>4
<1>7. ASSUME NEW p \in Replayers, ReplayStep(p)
      PROVE  Kept
  <2>1. CASE FetchJobs(p)
    <3>1. /\ \A q \in Replayers : todo'[q] \subseteq todo[q] \cup dlq
          /\ UNCHANGED <<dlq, current>>
      BY <1>1, <2>1 DEF FetchJobs, queueVars, TypeOK, ReplayTypeOK
    <3>2. QED
      BY <1>2, <1>3, <1>4, <3>1 DEF LineageInv, Lineage
  <2>2. CASE AddReplay(p)
    <3>1. PICK e \in todo[p], r \in 1 .. MaxReplays :
            /\ NextReplay(JobOf(e), r)
            /\ Add(<<JobOf(e), r>>)
            /\ current' = [current EXCEPT ![p] = {e}]
            /\ todo' = [todo EXCEPT ![p] = @ \ {e}]
      BY <2>2 DEF AddReplay
    <3>2. dlq' = dlq
      BY <3>1 DEF Add
    <3>3. e \in Entries /\ e = <<JobOf(e), e[2]>> /\ JobOf(e) \in Jobs /\ e[2] \in 0 .. MaxReplays
      BY <1>4 DEF Entries, JobOf
    <3>4. queue[e] # "none"
      BY <3>1 DEF LineageInv, Lineage
    <3>5. r > e[2]
      <4>1. r \in 0 .. e[2] => queue[<<JobOf(e), r>>] # "none"
        BY <3>3, <3>4 DEF LineageInv, Lineage
      <4>2. QED
        BY <3>1, <3>3, <4>1, BoundsAssumption DEF NextReplay
    <3>6. Replayed(e)'
      <4>1. <<JobOf(e), r>> \in Entries
        BY <3>3, BoundsAssumption DEF Entries
      <4>2. queue'[<<JobOf(e), r>>] # "none"
        BY <1>1, <3>1, <4>1 DEF Add, Move, TypeOK, QueueTypeOK
      <4>3. QED
        BY <3>5, <4>2 DEF Replayed
    <3>7. \A q \in Replayers : todo'[q] \subseteq todo[q] /\ current'[q] \subseteq current[q] \cup {e}
      BY <1>1, <3>1 DEF TypeOK, ReplayTypeOK
    <3>8. QED
      BY <1>2, <1>3, <1>4, <3>2, <3>6, <3>7 DEF LineageInv, Lineage
  <2>3. CASE ~FetchJobs(p) /\ ~AddReplay(p)
    <3>1. /\ dlq' \subseteq dlq
          /\ \A q \in Replayers : todo'[q] \subseteq todo[q] /\ current'[q] \subseteq current[q]
      BY <1>1, <1>7, <2>3
         DEF ReplayStep, RemoveDeadLetter, SkipDeadLetter, FinishReplay, ReplayCrash, queueVars,
             TypeOK, ReplayTypeOK
    <3>2. QED
      BY <1>2, <1>3, <1>4, <3>1 DEF LineageInv, Lineage
  <2>4. QED
    BY <2>1, <2>2, <2>3
<1>8. Kept
  <2>1. ASSUME NEW f \in Failures, HandlerStep(f), UNCHANGED replayVars PROVE Kept
    <3>1. CASE CopyToDlq(f)
      BY <1>5, <1>6, <2>1, <3>1
    <3>2. CASE ~CopyToDlq(f)
      BY <1>5, <2>1, <3>2
         DEF HandlerStep, MarkRetrying, MarkFailed, ReleaseFailed, MarkDeadLettered, queueVars
    <3>3. QED
      BY <3>1, <3>2
  <2>2. ASSUME NEW j \in Jobs, SubmissionStep(j) PROVE dlq' = dlq
    BY <2>2
       DEF SubmissionStep, RejectSubmission, ReserveQuota, ContinueSubmission, WriteJobHash,
           AppendHistoryItem, EnqueueJob, Add, AcceptSubmission, RollbackReservedQuota,
           DeleteJobHash, DropHistoryItem, FailSubmission, SubmissionThrows, HandlerThrows,
           ApiCrash, queueVars
  <2>3. ASSUME NEW e \in Entries, ProcessorStep(e) PROVE dlq' = dlq
    BY <2>3
       DEF ProcessorStep, MarkRunning, ExecuteLocalRunner, RecordResult, IncrementDailyCost,
           DecrementActiveQuota, DispatchEcsRunner, MarkDispatched, FinishAttempt, AttemptThrows,
           DispatchAnswerLost, MoveToCompleted, NotifyFailure, MoveToFailed, queueVars
  <2>4. ASSUME NEW a \in TaskIds, RunTask(a) \/ BreakTask(a) PROVE dlq' = dlq
    BY <2>4
       DEF RunTask, BreakTask, ExecuteUserCode, RecordTaskResult, ChargeTask, ReleaseTaskSlot,
           ExitTask, EnterFallback, FallbackThrows, KillTask, queueVars
  <2>5. ASSUME \/ \E w \in Workers, e \in Entries : TakeJob(w, e)
               \/ \E e \in Entries : PromoteDelayed(e)
               \/ \E w \in Workers : WorkerCrash(w)
               \/ Midnight
        PROVE  dlq' = dlq
    BY <2>5
       DEF TakeJob, Take, PromoteDelayed, Promote, WorkerCrash, Redeliver, Midnight, queueVars
  <2>6. CASE UNCHANGED vars
    BY <1>5, <2>6 DEF vars, queueVars
  <2>7. QED
    BY <1>5, <1>7, <2>1, <2>2, <2>3, <2>4, <2>5, <2>6
       DEF Next, Submissions, SubmissionNext, Fetches, Processors, Listeners, Backoffs, Crashes,
           Tasks, BrokenTasks, Replays
<1>9. Lineage'
  BY <1>8, NumberedWithoutGaps DEF Lineage
<1>10. QED
  BY <1>1, <1>9 DEF LineageInv

\* Without worker crashes a listener runs to its end, and what it copied is only
\* removed by a run of the replay script that added the job again.
CopiesKept ==
  \A f \in Failures :
    /\ handler[f] # "lost"
    /\ handler[f] = "copied" \/ (handler[f] = "done" /\ f[2] = Attempts) =>
         f[1] \in dlq \/ Replayed(f[1])

DlqInv == LineageInv /\ CopiesKept

LEMMA DlqInit == Init => DlqInv
BY LineageInit DEF DlqInv, CopiesKept, Init, WorkerInit

LEMMA DlqStep ==
  ASSUME "workerCrash" \notin Faults, DlqInv, [Next]_vars
  PROVE  DlqInv'
<1>1. LineageInv' /\ TypeOK /\ TypeOK'
  BY LineageStep DEF DlqInv, LineageInv, AttemptInv, TypeInv
<1>2. \A e \in Entries : Replayed(e) => Replayed(e)'
  <2>1. \A e \in Entries, r \in 1 .. MaxReplays : <<JobOf(e), r>> \in Entries
    BY EntriesShape, BoundsAssumption DEF Entries
  <2>2. QED
    BY <1>1, <2>1, QueueGrows DEF Replayed
<1>3. ASSUME \A f \in Failures : handler'[f] \in {handler[f], "notified"},
             dlq \subseteq dlq'
      PROVE  CopiesKept'
  BY <1>2, <1>3, EntriesShape DEF DlqInv, CopiesKept
<1>4. ASSUME NEW e \in Entries, ProcessorStep(e)
      PROVE  CopiesKept'
  <2>1. UNCHANGED <<handler, dlq>> \/ (NotifyFailure(e) /\ dlq' = dlq)
    BY <1>4
       DEF ProcessorStep, MarkRunning, ExecuteLocalRunner, RecordResult, IncrementDailyCost,
           DecrementActiveQuota, DispatchEcsRunner, MarkDispatched, FinishAttempt, AttemptThrows,
           DispatchAnswerLost, MoveToCompleted, NotifyFailure, MoveToFailed, queueVars
  <2>2. \A f \in Failures : handler'[f] \in {handler[f], "notified"}
    BY <1>1, <2>1 DEF NotifyFailure, TypeOK, WorkerTypeOK
  <2>3. QED
    BY <1>3, <2>1, <2>2
<1>5. ASSUME NEW f \in Failures, HandlerStep(f)
      PROVE  CopiesKept'
  <2>1. PICK to \in HandlerStates : handler' = [handler EXCEPT ![f] = to] /\ to # "lost"
    BY <1>5 DEF HandlerStep, MarkRetrying, MarkFailed, ReleaseFailed, CopyToDlq,
                MarkDeadLettered, Handle, HandlerStates
  <2>2. \A g \in Failures : IF g = f THEN handler'[g] = to ELSE handler'[g] = handler[g]
    BY <1>1, <2>1 DEF TypeOK, WorkerTypeOK
  <2>3. UNCHANGED queue
    BY <1>5 DEF HandlerStep, MarkRetrying, MarkFailed, ReleaseFailed, CopyToDlq,
                MarkDeadLettered, queueVars
  <2>4. CASE CopyToDlq(f)
    <3>1. dlq' = dlq \cup {f[1]}
      BY <2>4 DEF CopyToDlq
    <3>2. QED
      BY <2>1, <2>2, <2>3, <3>1 DEF DlqInv, CopiesKept, Replayed
  <2>5. CASE ~CopyToDlq(f)
    <3>1. dlq' = dlq
      BY <1>5, <2>5 DEF HandlerStep, MarkRetrying, MarkFailed, ReleaseFailed, MarkDeadLettered, queueVars
    <3>2. to = "copied" \/ (to = "done" /\ f[2] = Attempts) => handler[f] = "copied"
      BY <1>1, <1>5, <2>1, <2>2, <2>5, AttemptsAssumption
         DEF HandlerStep, MarkRetrying, MarkFailed, ReleaseFailed, MarkDeadLettered, Handle,
             HasAttemptsLeft, TypeOK, WorkerTypeOK
    <3>3. QED
      BY <2>1, <2>2, <2>3, <3>1, <3>2 DEF DlqInv, CopiesKept, Replayed
  <2>6. QED
    BY <2>4, <2>5
<1>6. ASSUME NEW p \in Replayers, ReplayStep(p)
      PROVE  CopiesKept'
  <2>1. UNCHANGED handler
    BY <1>6 DEF ReplayStep, FetchJobs, AddReplay, RemoveDeadLetter, SkipDeadLetter, FinishReplay,
                ReplayCrash, workerVars
  <2>2. CASE RemoveDeadLetter(p)
    <3>1. dlq' = dlq \ current[p] /\ \A e \in current[p] : Replayed(e)
      BY <2>2 DEF RemoveDeadLetter, DlqInv, LineageInv, Lineage
    <3>2. QED
      BY <1>2, <2>1, <3>1, EntriesShape DEF DlqInv, CopiesKept
  <2>3. CASE ~RemoveDeadLetter(p)
    <3>1. dlq' = dlq
      BY <1>6, <2>3
         DEF ReplayStep, FetchJobs, AddReplay, Add, SkipDeadLetter, FinishReplay, ReplayCrash, queueVars
    <3>2. QED
      BY <1>3, <2>1, <3>1
  <2>4. QED
    BY <2>2, <2>3
<1>7. ASSUME \/ \E j \in Jobs : SubmissionStep(j) /\ UNCHANGED workerVars
             \/ \E a \in TaskIds : (RunTask(a) \/ BreakTask(a)) /\ UNCHANGED workerVars
             \/ \E w \in Workers, e \in Entries : TakeJob(w, e)
             \/ \E e \in Entries : PromoteDelayed(e)
             \/ Midnight /\ UNCHANGED workerVars
             \/ UNCHANGED vars
      PROVE  UNCHANGED <<handler, dlq>>
  BY <1>7
     DEF SubmissionStep, RejectSubmission, ReserveQuota, ContinueSubmission, WriteJobHash,
         AppendHistoryItem, EnqueueJob, Add, AcceptSubmission, RollbackReservedQuota,
         DeleteJobHash, DropHistoryItem, FailSubmission, SubmissionThrows, HandlerThrows,
         ApiCrash, RunTask, BreakTask, ExecuteUserCode, RecordTaskResult, ChargeTask,
         ReleaseTaskSlot, ExitTask, EnterFallback, FallbackThrows, KillTask, TakeJob, Take,
         PromoteDelayed, Promote, Midnight, vars, queueVars, workerVars
<1>8. ~\E w \in Workers : WorkerCrash(w)
  BY DEF WorkerCrash
<1>9. CopiesKept'
  BY <1>3, <1>4, <1>5, <1>6, <1>7, <1>8
     DEF Next, Submissions, SubmissionNext, Fetches, Processors, Listeners, Backoffs, Crashes,
         Tasks, BrokenTasks, Replays
<1>10. QED
  BY <1>1, <1>9 DEF DlqInv

\* As long as no worker dies, every entry whose attempts are exhausted is in the
\* dead-letter queue, on its way there, or on the main queue again, whatever else
\* fails and however many runs of the replay script overlap.
THEOREM DeadLettersKept ==
  ASSUME "workerCrash" \notin Faults
  PROVE  Spec => []ExhaustedIsDeadLettered
<1>1. DlqInv /\ [Next]_vars => DlqInv'
  BY DlqStep
<1>2. DlqInv => ExhaustedIsDeadLettered
  <2> SUFFICES ASSUME DlqInv, NEW e \in Entries, queue[e] = "failed"
               PROVE  e \in dlq \/ Listening(e) \/ Replayed(e)
    BY DEF ExhaustedIsDeadLettered, Replayed
  <2>1. <<e, Attempts>> \in Failures
    BY AttemptsAssumption DEF Failures
  <2>2. made[e] = Attempts /\ handler[<<e, Attempts>>] # "none"
    BY <2>1, AttemptsAssumption
       DEF DlqInv, LineageInv, AttemptInv, AttemptsCounted, ListenersCounted
  <2>3. handler[<<e, Attempts>>] \in HandlerStates \ {"none", "lost"}
    BY <2>1, <2>2 DEF DlqInv, LineageInv, AttemptInv, TypeInv, TypeOK, WorkerTypeOK, CopiesKept
  <2>4. CASE handler[<<e, Attempts>>] \in {"copied", "done"}
    BY <2>1, <2>4 DEF DlqInv, CopiesKept
  <2>5. CASE handler[<<e, Attempts>>] \in {"notified", "recorded", "released"}
    BY <2>5, AttemptsAssumption DEF Listening, HasAttemptsLeft
  <2>6. QED
    BY <2>3, <2>4, <2>5 DEF HandlerStates
<1>3. QED
  BY <1>1, <1>2, DlqInit, PTL DEF Spec

(***************************************************************************)
(* The cost of the runner tasks.                                           *)
(***************************************************************************)

\* The task charged its job, or was about to and went into the catch block.
MayHaveCharged(a) ==
  a \in Launched(TaskJob(a)) /\
  (task[a] \notin {"executing", "computed", "recorded"} \/ a \in fallback)

\* The task may have charged its job a second time, in the catch block.
MayHaveRecharged(a) ==
  a \in Launched(TaskJob(a)) \cap fallback /\ task[a] \notin {"executing", "computed", "recorded"}

Charging(j)   == {a \in TaskIds : TaskJob(a) = j /\ MayHaveCharged(a)}
Recharging(j) == {a \in TaskIds : TaskJob(a) = j /\ MayHaveRecharged(a)}

RunnerChargeInv ==
  /\ AttemptInv
  /\ \A j \in Jobs : charges[j] <= Cardinality(Charging(j)) + Cardinality(Recharging(j))

LEMMA TasksOfJobFinite ==
  ASSUME NEW j \in Jobs
  PROVE  IsFiniteSet({a \in TaskIds : TaskJob(a) = j})
<1> DEFINE E == {j} \X (0 .. MaxReplays)
           T == E \X (1 .. Attempts + MaxStalls)
<1>1. IsFiniteSet(0 .. MaxReplays) /\ IsFiniteSet(1 .. Attempts + MaxStalls)
  BY AttemptsAssumption, BoundsAssumption, FS_Interval
<1>2. IsFiniteSet({j})
  BY FS_Singleton
<1>3. IsFiniteSet(E)
  BY <1>1, <1>2, FS_Product
<1>4. IsFiniteSet(T)
  <2> HIDE DEF E
  <2> QED
    BY <1>1, <1>3, FS_Product
<1>5. {a \in TaskIds : TaskJob(a) = j} \subseteq T
  BY DEF TaskIds, TaskJob, JobOf, Entries
<1>6. QED
  BY <1>4, <1>5, FS_Subset

LEMMA ChargingFinite ==
  ASSUME NEW j \in Jobs
  PROVE  /\ IsFiniteSet(Charging(j)) /\ Cardinality(Charging(j)) \in Nat
         /\ IsFiniteSet(Recharging(j)) /\ Cardinality(Recharging(j)) \in Nat
<1>1. /\ Charging(j) \subseteq {a \in TaskIds : TaskJob(a) = j}
      /\ Recharging(j) \subseteq {a \in TaskIds : TaskJob(a) = j}
  BY DEF Charging, Recharging
<1>2. QED
  BY <1>1, TasksOfJobFinite, FS_Subset, FS_CardinalityType

\* What a task may have charged it may have charged for good.
TasksStayCharged ==
  \A b \in TaskIds : /\ MayHaveCharged(b) => MayHaveCharged(b)'
                     /\ MayHaveRecharged(b) => MayHaveRecharged(b)'

\* With runner tasks, only ChargeTask charges, and a task does it once before
\* the catch block and once in it.
LEMMA StepsOnCharges ==
  ASSUME Backend = "ecs", AttemptInv, [Next]_vars
  PROVE  /\ TasksStayCharged
         /\ \/ UNCHANGED charges
            \/ \E a \in TaskIds :
                 /\ charges' = [charges EXCEPT ![TaskJob(a)] = @ + 1]
                 /\ \/ ~MayHaveCharged(a) /\ MayHaveCharged(a)'
                    \/ ~MayHaveRecharged(a) /\ MayHaveRecharged(a)'
<1> USE EntriesShape DEF AttemptInv, TypeInv
<1>1. ASSUME UNCHANGED <<task, fallback>> PROVE TasksStayCharged
  BY <1>1 DEF TasksStayCharged, MayHaveCharged, MayHaveRecharged, Launched
<1>2. ASSUME NEW a \in TaskIds, NEW from, NEW to \in TaskStates \ {"none"}, Advance(a, from, to)
      PROVE  /\ task[a] = from /\ task'[a] = to
             /\ \A b \in TaskIds : b # a => task'[b] = task[b]
  BY <1>2 DEF Advance, TypeOK, TaskTypeOK
<1>3. ASSUME NEW a \in TaskIds, Launch(a) PROVE TasksStayCharged
  <2>1. task[a] = "none" /\ UNCHANGED fallback /\ \A b \in TaskIds : b # a => task'[b] = task[b]
    BY <1>2, <1>3 DEF Launch, Advance, TaskStates
  <2>2. QED
    BY <2>1 DEF TasksStayCharged, MayHaveCharged, MayHaveRecharged, Launched
<1>4. ASSUME NEW a \in TaskIds, ChargeTask(a)
      PROVE  /\ TasksStayCharged
             /\ charges' = [charges EXCEPT ![TaskJob(a)] = @ + 1]
             /\ \/ ~MayHaveCharged(a) /\ MayHaveCharged(a)'
                \/ ~MayHaveRecharged(a) /\ MayHaveRecharged(a)'
  <2>1. /\ task[a] = "recorded" /\ task'[a] = "charged" /\ UNCHANGED fallback
        /\ \A b \in TaskIds : b # a => task'[b] = task[b]
    BY <1>2, <1>4 DEF ChargeTask, Advance, TaskStates
  <2>2. charges' = [charges EXCEPT ![TaskJob(a)] = @ + 1]
    BY <1>4 DEF ChargeTask, ChargeCost
  <2>3. TasksStayCharged
    BY <2>1 DEF TasksStayCharged, MayHaveCharged, MayHaveRecharged, Launched
  <2>4. CASE a \in fallback
    BY <2>1, <2>2, <2>3, <2>4 DEF MayHaveRecharged, Launched
  <2>5. CASE a \notin fallback
    BY <2>1, <2>2, <2>3, <2>5 DEF MayHaveCharged, Launched
  <2>6. QED
    BY <2>4, <2>5
<1>5. ASSUME NEW a \in TaskIds, EnterFallback(a) PROVE TasksStayCharged /\ UNCHANGED charges
  <2>1. /\ a \notin fallback /\ fallback' = fallback \cup {a} /\ UNCHANGED charges
        /\ task[a] # "none" /\ task'[a] = "computed"
        /\ \A b \in TaskIds : b # a => task'[b] = task[b]
    BY <1>2, <1>5 DEF EnterFallback, Advance, TaskStates, storeVars
  <2>2. QED
    BY <2>1 DEF TasksStayCharged, MayHaveCharged, MayHaveRecharged, Launched
<1>6. ASSUME NEW a \in TaskIds, NEW from, NEW to, Advance(a, from, to), UNCHANGED fallback,
             \/ from = "executing" /\ to = "computed"
             \/ from = "computed" /\ to = "recorded"
             \/ from = "charged" /\ to = "released"
             \/ from = "released" /\ to = "done"
             \/ from # "none" /\ to = "dead"
      PROVE  TasksStayCharged
  <2>1. /\ task[a] = from /\ task'[a] = to /\ from # "none"
        /\ \A b \in TaskIds : b # a => task'[b] = task[b]
    BY <1>2, <1>6 DEF TaskStates
  <2>2. QED
    BY <1>6, <2>1 DEF TasksStayCharged, MayHaveCharged, MayHaveRecharged, Launched
<1>7. ASSUME NEW a \in TaskIds, RunTask(a) \/ BreakTask(a), ~ChargeTask(a), ~EnterFallback(a)
      PROVE  TasksStayCharged /\ UNCHANGED charges
  BY <1>6, <1>7
     DEF RunTask, BreakTask, ExecuteUserCode, RecordTaskResult, ReleaseTaskSlot, ExitTask,
         FallbackThrows, KillTask, storeVars
<1>8. ASSUME NEW e \in Entries, ProcessorStep(e) PROVE TasksStayCharged /\ UNCHANGED charges
  <2>1. ~IncrementDailyCost(e)
    BY DEF IncrementDailyCost, Proceed, TasksCounted
  <2>2. CASE DispatchEcsRunner(e) \/ DispatchAnswerLost(e)
    <3>1. proc[e] = "running" /\ Launch(<<e, starts[e]>>) /\ UNCHANGED charges
      BY <2>2 DEF DispatchEcsRunner, DispatchAnswerLost, Proceed, storeVars
    <3>2. <<e, starts[e]>> \in TaskIds
      BY <3>1, StartHasTask DEF AttemptsCounted
    <3>3. QED
      BY <1>3, <3>1, <3>2
  <2>3. CASE ~(DispatchEcsRunner(e) \/ DispatchAnswerLost(e))
    BY <1>1, <1>8, <2>1, <2>3
       DEF ProcessorStep, MarkRunning, ExecuteLocalRunner, RecordResult, DecrementActiveQuota,
           MarkDispatched, FinishAttempt, AttemptThrows, storeVars, taskVars
  <2>4. QED
    BY <2>2, <2>3
<1>9. ASSUME NEW j \in Jobs, SubmissionStep(j), UNCHANGED taskVars
      PROVE  TasksStayCharged /\ UNCHANGED charges
  BY <1>1, <1>9
     DEF SubmissionStep, RejectSubmission, ReserveQuota, ContinueSubmission, WriteJobHash,
         AppendHistoryItem, EnqueueJob, AcceptSubmission, RollbackReservedQuota, DeleteJobHash,
         DropHistoryItem, FailSubmission, SubmissionThrows, HandlerThrows, ApiCrash, storeVars, taskVars
<1>10. ASSUME NEW f \in Failures, HandlerStep(f) PROVE TasksStayCharged /\ UNCHANGED charges
  BY <1>1, <1>10
     DEF HandlerStep, MarkRetrying, MarkFailed, ReleaseFailed, CopyToDlq, MarkDeadLettered,
         storeVars, taskVars
<1>11. ASSUME NEW p \in Replayers, ReplayStep(p) PROVE TasksStayCharged /\ UNCHANGED charges
  BY <1>1, <1>11
     DEF ReplayStep, FetchJobs, AddReplay, RemoveDeadLetter, SkipDeadLetter, FinishReplay,
         ReplayCrash, storeVars, taskVars
<1>12. ASSUME \/ \E w \in Workers, e \in Entries : TakeJob(w, e)
              \/ \E e \in Entries : PromoteDelayed(e)
              \/ \E w \in Workers : WorkerCrash(w)
              \/ Midnight /\ UNCHANGED taskVars
              \/ UNCHANGED vars
       PROVE  TasksStayCharged /\ UNCHANGED charges
  BY <1>1, <1>12 DEF TakeJob, PromoteDelayed, WorkerCrash, Midnight, vars, storeVars, taskVars
<1>13. CASE \E a \in TaskIds : ChargeTask(a)
  BY <1>4, <1>13
<1>14. CASE ~\E a \in TaskIds : ChargeTask(a)
  BY <1>5, <1>7, <1>8, <1>9, <1>10, <1>11, <1>12, <1>14
     DEF Next, Submissions, SubmissionNext, Fetches, Processors, Listeners, Backoffs, Crashes,
         Tasks, BrokenTasks, Replays
<1>15. QED
  BY <1>13, <1>14

LEMMA RunnerChargeInit == Init => RunnerChargeInv
<1> SUFFICES ASSUME Init PROVE RunnerChargeInv
  OBVIOUS
<1>1. \A j \in Jobs : charges[j] = 0
  BY DEF Init, StoreInit
<1>2. QED
  BY <1>1, AttemptInit, ChargingFinite DEF RunnerChargeInv

LEMMA RunnerChargeStep ==
  ASSUME Backend = "ecs", RunnerChargeInv, [Next]_vars
  PROVE  RunnerChargeInv'
<1>1. AttemptInv' /\ TasksStayCharged
  BY AttemptStep, StepsOnCharges DEF RunnerChargeInv
<1>2. ASSUME NEW j \in Jobs
      PROVE  charges'[j] <= Cardinality(Charging(j)') + Cardinality(Recharging(j)')
  <2> DEFINE J  == {a \in TaskIds : TaskJob(a) = j}
             C  == Charging(j)   R  == Recharging(j)
             C2 == Charging(j)'  R2 == Recharging(j)'
  <2> SUFFICES charges'[j] <= Cardinality(C2) + Cardinality(R2)
    OBVIOUS
  <2>1. C \subseteq C2 /\ C2 \subseteq J /\ R \subseteq R2 /\ R2 \subseteq J
    BY <1>1 DEF TasksStayCharged, Charging, Recharging
  <2>2. /\ IsFiniteSet(C) /\ IsFiniteSet(R) /\ IsFiniteSet(C2) /\ IsFiniteSet(R2)
        /\ Cardinality(C) \in Nat /\ Cardinality(R) \in Nat
        /\ Cardinality(C2) \in Nat /\ Cardinality(R2) \in Nat
    <3>1. IsFiniteSet(C) /\ IsFiniteSet(R) /\ IsFiniteSet(C2) /\ IsFiniteSet(R2)
      <4> HIDE DEF C, R, C2, R2, J
      <4>1. IsFiniteSet(J)
        BY TasksOfJobFinite DEF J
      <4>2. IsFiniteSet(C2) /\ IsFiniteSet(R2)
        BY <2>1, <4>1, FS_Subset
      <4>3. QED
        BY <2>1, <4>2, FS_Subset
    <3>2. QED
      BY <3>1, FS_CardinalityType
  <2>3. Cardinality(C) <= Cardinality(C2) /\ Cardinality(R) <= Cardinality(R2)
    BY <2>1, <2>2, FS_Subset
  <2>4. charges[j] \in Nat /\ charges[j] <= Cardinality(C) + Cardinality(R)
    BY DEF RunnerChargeInv, AttemptInv, TypeInv, TypeOK, StoreTypeOK
  <2>5. CASE charges'[j] = charges[j]
    <3> HIDE DEF C, R, C2, R2
    <3> QED
      BY <2>2, <2>3, <2>4, <2>5
  <2>6. CASE charges'[j] # charges[j]
    <3>1. PICK a \in TaskIds :
            /\ charges' = [charges EXCEPT ![TaskJob(a)] = @ + 1]
            /\ \/ ~MayHaveCharged(a) /\ MayHaveCharged(a)'
               \/ ~MayHaveRecharged(a) /\ MayHaveRecharged(a)'
      BY <2>6, StepsOnCharges DEF RunnerChargeInv
    <3>2. TaskJob(a) = j /\ charges'[j] = charges[j] + 1
      BY <2>6, <3>1 DEF RunnerChargeInv, AttemptInv, TypeInv, TypeOK, StoreTypeOK
    <3>3. (a \notin C /\ a \in C2) \/ (a \notin R /\ a \in R2)
      BY <3>1, <3>2 DEF Charging, Recharging, TaskJob
    <3> HIDE DEF C, R, C2, R2
    <3>4. ASSUME NEW S, NEW T, IsFiniteSet(S), IsFiniteSet(T), S \subseteq T, a \in T, a \notin S
          PROVE  Cardinality(S) + 1 <= Cardinality(T)
      <4>1. S \cup {a} \subseteq T
        BY <3>4
      <4>2. Cardinality(S \cup {a}) = Cardinality(S) + 1
        BY <3>4, FS_AddElement
      <4>3. QED
        BY <3>4, <4>1, <4>2, FS_Subset
    <3>5. Cardinality(C) + 1 <= Cardinality(C2) \/ Cardinality(R) + 1 <= Cardinality(R2)
      BY <2>1, <2>2, <3>3, <3>4
    <3>6. QED
      BY <2>2, <2>3, <2>4, <3>2, <3>5
  <2>7. QED
    BY <2>5, <2>6
<1>3. QED
  BY <1>1, <1>2 DEF RunnerChargeInv

\* On the "ecs" backend, whatever fails, a runner task charges its job once and
\* once more in the catch block of run(): a job costs at most as much as its
\* launched tasks allow.
THEOREM RunnerCharges ==
  ASSUME Backend = "ecs"
  PROVE  Spec => []ChargesPerRunner
<1>1. RunnerChargeInv /\ [Next]_vars => RunnerChargeInv'
  BY RunnerChargeStep
<1>2. RunnerChargeInv => ChargesPerRunner
  <2> SUFFICES ASSUME RunnerChargeInv, NEW j \in Jobs
               PROVE  charges[j] <= Cardinality(Launched(j)) + Cardinality(Launched(j) \cap fallback)
    BY DEF ChargesPerRunner
  <2>1. /\ Charging(j) \subseteq Launched(j)
        /\ Recharging(j) \subseteq Launched(j) \cap fallback
        /\ Launched(j) \subseteq {a \in TaskIds : TaskJob(a) = j}
        /\ Launched(j) \cap fallback \subseteq {a \in TaskIds : TaskJob(a) = j}
    BY DEF Charging, Recharging, MayHaveCharged, MayHaveRecharged, Launched
  <2>2. IsFiniteSet(Launched(j)) /\ IsFiniteSet(Launched(j) \cap fallback)
    BY <2>1, TasksOfJobFinite, FS_Subset
  <2>3. /\ Cardinality(Charging(j)) <= Cardinality(Launched(j))
        /\ Cardinality(Recharging(j)) <= Cardinality(Launched(j) \cap fallback)
        /\ Cardinality(Launched(j)) \in Nat /\ Cardinality(Launched(j) \cap fallback) \in Nat
    BY <2>1, <2>2, FS_Subset, FS_CardinalityType
  <2>4. /\ Cardinality(Charging(j)) \in Nat /\ Cardinality(Recharging(j)) \in Nat
        /\ charges[j] \in Nat
        /\ charges[j] <= Cardinality(Charging(j)) + Cardinality(Recharging(j))
    BY ChargingFinite DEF RunnerChargeInv, AttemptInv, TypeInv, TypeOK, StoreTypeOK
  <2>5. QED
    BY <2>3, <2>4
<1>3. QED
  BY <1>1, <1>2, RunnerChargeInit, PTL DEF Spec
=============================================================================
