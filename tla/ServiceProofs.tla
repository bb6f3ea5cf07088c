--------------------------- MODULE ServiceProofs ---------------------------
(***************************************************************************)
(* The "local" engine with one worker process gives its tenants the        *)
(* service that ExecutionService promises, whatever the API's handlers and *)
(* commands do: verdicts are never revised, results are charged once, no   *)
(* accepted job is lost, and the limits are those of the policy.  The      *)
(* argument: the worker's one connection keeps a listener's HSET ahead of  *)
(* the next attempt's, so the hash follows the queue entry.                *)
(***************************************************************************)
EXTENDS CustodyProofs

\* What is assumed of the environment, beside Faults \subseteq HarmlessFaults.
LocalEngine == Backend = "local" /\ MaxReplays = 0
OneWorker   == \A v, w \in Workers : v = w

\* Only the listener of the last failed attempt is still to write the hash, and
\* it does so before the next attempt.
ListenerInOrder(e) ==
  \A m \in 1 .. Attempts : handler[<<e, m>>] = "notified" =>
    m = made[e] /\ (queue[e] \in {"waiting", "delayed", "failed"} \/ proc[e] = "taken")

\* The hash of a job says what its entry came to.
StatusFollows(e) ==
  LET s == status[JobOf(e)] IN
  /\ queue[e] = "none" => s \in {"absent", "queued"}
  /\ queue[e] \in {"waiting", "delayed"} \/ proc[e] = "taken" => s \notin Terminal
  /\ proc[e] \in {"running", "executed"} => s = "running"
  /\ proc[e] \in {"recorded", "charged", "released"} \/ queue[e] = "completed" => s \in Terminal
  /\ queue[e] = "failed" => s = IF handler[<<e, Attempts>>] = "notified" THEN "running" ELSE "failed"

\* The cost of a job is added once, after its result was recorded.
ChargesFollow(e) ==
  charges[JobOf(e)] =
    IF proc[e] \in {"charged", "released"} \/ queue[e] = "completed" THEN 1 ELSE 0

\* Nothing that belongs to entry e changes.
Quiet(e) ==
  /\ queue'[e] = queue[e] /\ made'[e] = made[e] /\ proc'[e] = proc[e]
  /\ \A m \in 1 .. Attempts : handler'[<<e, m>>] = handler[<<e, m>>]

LEMMA QuietEntry ==
  ASSUME NEW e \in Entries, Quiet(e)
  PROVE  /\ ListenerInOrder(e) => ListenerInOrder(e)'
         /\ StatusFollows(e) /\ status'[JobOf(e)] = status[JobOf(e)] => StatusFollows(e)'
         /\ ChargesFollow(e) /\ charges'[JobOf(e)] = charges[JobOf(e)] => ChargesFollow(e)'
<1>1. ListenerInOrder(e) => ListenerInOrder(e)'
  BY DEF Quiet, ListenerInOrder
<1>2. Attempts \in 1 .. Attempts
  BY AttemptsAssumption
<1>3. StatusFollows(e) /\ status'[JobOf(e)] = status[JobOf(e)] => StatusFollows(e)'
  BY <1>2 DEF Quiet, StatusFollows
<1>4. ChargesFollow(e) /\ charges'[JobOf(e)] = charges[JobOf(e)] => ChargesFollow(e)'
  BY DEF Quiet, ChargesFollow
<1>5. QED
  BY <1>1, <1>3, <1>4

\* What a step does to the function it updates.
LEMMA ProcUpdate ==
  ASSUME TypeOK, NEW e \in Entries, NEW x, proc' = [proc EXCEPT ![e] = x]
  PROVE  proc'[e] = x /\ \A g \in Entries : g # e => proc'[g] = proc[g]
BY DEF TypeOK, WorkerTypeOK

LEMMA QueueUpdate ==
  ASSUME TypeOK, NEW e \in Entries, NEW x, queue' = [queue EXCEPT ![e] = x]
  PROVE  queue'[e] = x /\ \A g \in Entries : g # e => queue'[g] = queue[g]
BY DEF TypeOK, QueueTypeOK

LEMMA HandlerUpdate ==
  ASSUME TypeOK, NEW f \in Failures, NEW x, handler' = [handler EXCEPT ![f] = x]
  PROVE  handler'[f] = x /\ \A g \in Failures : g # f => handler'[g] = handler[g]
BY DEF TypeOK, WorkerTypeOK

LEMMA StatusUpdate ==
  ASSUME TypeOK, NEW j \in Jobs, NEW x, status' = [status EXCEPT ![j] = x]
  PROVE  status'[j] = x /\ \A k \in Jobs : k # j => status'[k] = status[k]
BY DEF TypeOK, StoreTypeOK

LEMMA ChargesUpdate ==
  ASSUME TypeOK, NEW j \in Jobs, charges' = [charges EXCEPT ![j] = @ + 1]
  PROVE  charges'[j] = charges[j] + 1 /\ \A k \in Jobs : k # j => charges'[k] = charges[k]
BY DEF TypeOK, StoreTypeOK

(***************************************************************************)
(* The steps of the "local" engine, entry by entry.                        *)
(***************************************************************************)

KeepsHash(e)      == status'[JobOf(e)] = status[JobOf(e)]
KeepsCost(e)      == charges'[JobOf(e)] = charges[JobOf(e)]
KeepsListeners(e) == \A m \in 1 .. Attempts : handler'[<<e, m>>] = handler[<<e, m>>]

\* The entry's processor moves on and the entry stays active.
Processing(e, from, to) ==
  /\ proc[e] = from /\ proc'[e] = to
  /\ queue[e] = "active" /\ queue'[e] = "active" /\ made'[e] = made[e]
  /\ KeepsListeners(e)

\* The entry moves in the queue without a processor.
Queueing(e, from, to) ==
  /\ queue[e] = from /\ queue'[e] = to /\ made'[e] = made[e]
  /\ proc[e] = "idle" /\ proc'[e] = "idle"
  /\ KeepsListeners(e) /\ KeepsHash(e) /\ KeepsCost(e)

\* The m-th listener of the entry moves on.
ListenerMoves(e, m, from, to) ==
  /\ handler[<<e, m>>] = from /\ handler'[<<e, m>>] = to
  /\ \A n \in 1 .. Attempts : n # m => handler'[<<e, n>>] = handler[<<e, n>>]
  /\ queue'[e] = queue[e] /\ made'[e] = made[e] /\ proc'[e] = proc[e]
  /\ KeepsCost(e)

HashWritten(e) ==
  /\ Quiet(e) /\ queue[e] = "none" /\ KeepsCost(e)
  /\ status'[JobOf(e)] \in {"absent", "queued"}
Taken(e) ==
  /\ queue[e] = "waiting" /\ queue'[e] = "active" /\ made'[e] = made[e]
  /\ proc[e] = "idle" /\ proc'[e] = "taken"
  /\ KeepsListeners(e) /\ KeepsHash(e) /\ KeepsCost(e)
Started(e)  == /\ Processing(e, "taken", "running") /\ ~SentEarlier(e)
               /\ status'[JobOf(e)] = "running" /\ KeepsCost(e)
Ran(e)      == Processing(e, "running", "executed") /\ KeepsHash(e) /\ KeepsCost(e)
Recorded(e) == /\ Processing(e, "executed", "recorded")
               /\ status'[JobOf(e)] \in Terminal /\ KeepsCost(e)
Charged(e)  == /\ Processing(e, "recorded", "charged")
               /\ KeepsHash(e) /\ charges'[JobOf(e)] = charges[JobOf(e)] + 1
Released(e) == Processing(e, "charged", "released") /\ KeepsHash(e) /\ KeepsCost(e)
Finished(e) ==
  /\ proc[e] = "released" /\ proc'[e] = "idle"
  /\ queue[e] = "active" /\ queue'[e] = "completed" /\ made'[e] = made[e]
  /\ KeepsListeners(e) /\ KeepsHash(e) /\ KeepsCost(e)
Threw(e) ==
  /\ proc[e] = "running" /\ proc'[e] = "idle"
  /\ queue[e] = "active" /\ queue'[e] = AfterFailure(e) /\ made'[e] = made[e] + 1
  /\ \A m \in 1 .. Attempts :
       handler'[<<e, m>>] = IF m = made[e] + 1 THEN "notified" ELSE handler[<<e, m>>]
  /\ KeepsHash(e) /\ KeepsCost(e)
Retrying(e) == \E m \in 1 .. Attempts :
  m < Attempts /\ ListenerMoves(e, m, "notified", "done") /\ status'[JobOf(e)] = "retrying"
Exhausted(e) == 
  ListenerMoves(e, Attempts, "notified", "recorded") /\ status'[JobOf(e)] = "failed"
Cleared(e) == \E to \in {"released", "copied", "done"}, from \in {"recorded", "released", "copied"} :
  ListenerMoves(e, Attempts, from, to) /\ KeepsHash(e)

EntryMove(e) ==
  \/ HashWritten(e)
  \/ Queueing(e, "none", "waiting")
  \/ Queueing(e, "delayed", "waiting")
  \/ Taken(e)
  \/ Started(e)
  \/ Ran(e)
  \/ Recorded(e)
  \/ Charged(e)
  \/ Released(e)
  \/ Finished(e)
  \/ Threw(e)
  \/ Retrying(e)
  \/ Exhausted(e)
  \/ Cleared(e)

Undisturbed(e) == Quiet(e) /\ KeepsHash(e) /\ KeepsCost(e)

EntryStep ==
  \/ \A e \in Entries : Undisturbed(e)
  \/ \E e \in Entries : EntryMove(e) /\ \A g \in Entries : g # e => Undisturbed(g)

EngineInv == AdmissionInv /\ OneCustodian

LEMMA EngineInvStep ==
  ASSUME MaxReplays = 0, Faults \subseteq HarmlessFaults, EngineInv, [Next]_vars
  PROVE  EngineInv'
BY AdmissionStep, CustodyStep
   DEF EngineInv, CustodyInv, AdmissionInv, LineageInv, AttemptInv

\* What the earlier invariants say of an entry.
LEMMA EngineFacts ==
  ASSUME EngineInv
  PROVE  /\ TypeOK
         /\ \A e \in Entries : /\ queue[e] = "active" <=> proc[e] # "idle"
                               /\ queue[e] \in QueueStates
                               /\ proc[e] = "executed" => result[e] \in Outcomes
                               /\ made[e] \in Nat
                               /\ JobOf(e) \in Jobs
                               /\ \A m \in 1 .. Attempts : <<e, m>> \in Failures
         /\ \A f \in Failures : f = <<f[1], f[2]>> /\ f[1] \in Entries /\ f[2] \in 1 .. Attempts
<1> USE DEF EngineInv, AdmissionInv, LineageInv, AttemptInv, TypeInv
<1>1. \A e \in Entries : /\ queue[e] = "active" <=> proc[e] # "idle"
                         /\ queue[e] \in QueueStates
                         /\ proc[e] = "executed" => result[e] \in Outcomes
                         /\ made[e] \in Nat
  BY DEF AttemptsCounted, ResultsKnown, TypeOK, QueueTypeOK
<1>2. \A e \in Entries : JobOf(e) \in Jobs /\ \A m \in 1 .. Attempts : <<e, m>> \in Failures
  BY EntriesShape DEF Failures
<1>3. \A f \in Failures : f = <<f[1], f[2]>> /\ f[1] \in Entries /\ f[2] \in 1 .. Attempts
  BY DEF Failures
<1>4. QED
  BY <1>1, <1>2, <1>3

LEMMA SubmissionMove ==
  ASSUME MaxReplays = 0, EngineInv, NEW j \in Jobs, SubmissionStep(j), UNCHANGED workerVars
  PROVE  EntryStep
<1>0. /\ TypeOK
      /\ \A g \in Entries : (queue[g] = "active" <=> proc[g] # "idle") /\ JobOf(g) \in Jobs
  BY EngineFacts
<1>1. UNCHANGED <<proc, handler>>
  BY DEF workerVars
<1>2. /\ <<j, 0>> \in Entries /\ JobOf(<<j, 0>>) = j
      /\ \A g \in Entries : g # <<j, 0>> => JobOf(g) # j
  BY OneEntry
<1>3. CASE WriteJobHash(j) \/ DeleteJobHash(j)
  <2>1. /\ api[j] \in {"reserved", "rolledBack"}
        /\ \E s \in {"queued", "absent"} : status' = [status EXCEPT ![j] = s]
        /\ UNCHANGED <<queue, made, charges>>
    BY <1>3 DEF WriteJobHash, DeleteJobHash, Goto, WriteStatus, DeleteHash, queueVars
  <2>2. queue[<<j, 0>>] = "none"
    BY <2>1 DEF EngineInv, AdmissionInv, Admission, Admitted
  <2>3. status'[j] \in {"absent", "queued"} /\ \A k \in Jobs : k # j => status'[k] = status[k]
    BY <1>0, <2>1, StatusUpdate
  <2>4. HashWritten(<<j, 0>>) /\ \A g \in Entries : g # <<j, 0>> => Undisturbed(g)
    BY <1>0, <1>1, <1>2, <2>1, <2>2, <2>3 DEF HashWritten, Undisturbed, Quiet, KeepsHash, KeepsCost
  <2>5. QED
    BY <1>2, <2>4 DEF EntryStep, EntryMove
<1>4. CASE EnqueueJob(j)
  <2>1. /\ queue[<<j, 0>>] = "none" /\ queue' = [queue EXCEPT ![<<j, 0>>] = "waiting"]
        /\ UNCHANGED <<made, status, charges>>
    BY <1>4 DEF EnqueueJob, Add, Move, storeVars
  <2>2. queue'[<<j, 0>>] = "waiting" /\ \A g \in Entries : g # <<j, 0>> => queue'[g] = queue[g]
    BY <1>0, <1>2, <2>1, QueueUpdate
  <2>3. proc[<<j, 0>>] = "idle"
    BY <1>0, <1>2, <2>1
  <2>4. /\ Queueing(<<j, 0>>, "none", "waiting")
        /\ \A g \in Entries : g # <<j, 0>> => Undisturbed(g)
    BY <1>1, <2>1, <2>2, <2>3
       DEF Queueing, Undisturbed, Quiet, KeepsHash, KeepsCost, KeepsListeners
  <2>5. QED
    BY <1>2, <2>4 DEF EntryStep, EntryMove
<1>5. CASE ~(WriteJobHash(j) \/ DeleteJobHash(j) \/ EnqueueJob(j))
  <2>1. UNCHANGED <<queue, made, status, charges>>
    BY <1>5
       DEF SubmissionStep, RejectSubmission, ReserveQuota, ContinueSubmission, AppendHistoryItem,
           AcceptSubmission, RollbackReservedQuota, DropHistoryItem, FailSubmission,
           SubmissionThrows, HandlerThrows, ApiCrash, storeVars, queueVars
  <2>2. QED
    BY <1>1, <2>1 DEF EntryStep, Undisturbed, Quiet, KeepsHash, KeepsCost
<1>6. QED
  BY <1>3, <1>4, <1>5

LEMMA ProcessorMove ==
  ASSUME LocalEngine, Faults \subseteq HarmlessFaults, EngineInv,
         NEW e \in Entries, ProcessorStep(e)
  PROVE  EntryMove(e) /\ \A g \in Entries : g # e => Undisturbed(g)
<1>0. /\ TypeOK
      /\ queue[e] = "active" <=> proc[e] # "idle"
      /\ proc[e] = "executed" => result[e] \in Outcomes
      /\ \A g \in Entries : JobOf(g) \in Jobs
      /\ \A g \in Entries, m \in 1 .. Attempts : <<g, m>> \in Failures
  BY EngineFacts
<1>1. \A g \in Entries : g # e => JobOf(g) # JobOf(e)
  BY OneEntry DEF LocalEngine
<1>2. JobOf(e) \in Jobs
  BY <1>0
<1>3. ASSUME NEW from \in ProcStates \ {"idle"}, NEW to \in ProcStates \ {"idle"},
             Proceed(e, from, to), UNCHANGED <<queueVars, handler>>
      PROVE  Processing(e, from, to) /\ \A g \in Entries : g # e => Quiet(g)
  <2>1. proc[e] = from /\ proc'[e] = to /\ \A g \in Entries : g # e => proc'[g] = proc[g]
    BY <1>0, <1>3, ProcUpdate DEF Proceed
  <2>2. QED
    BY <1>0, <1>3, <2>1 DEF Processing, Quiet, KeepsListeners, queueVars
<1>4. ASSUME NEW s, WriteStatus(JobOf(e), s), UNCHANGED charges
      PROVE  /\ status'[JobOf(e)] = s /\ KeepsCost(e)
             /\ \A g \in Entries : g # e => KeepsHash(g) /\ KeepsCost(g)
  BY <1>0, <1>1, <1>4, StatusUpdate DEF WriteStatus, KeepsHash, KeepsCost
<1>5. ASSUME UNCHANGED <<status, charges>>
      PROVE  \A g \in Entries : KeepsHash(g) /\ KeepsCost(g)
  BY <1>5 DEF KeepsHash, KeepsCost
<1>6. CASE MarkRunning(e)
  <2>1. Processing(e, "taken", "running") /\ \A g \in Entries : g # e => Quiet(g)
    BY <1>3, <1>6 DEF MarkRunning, ProcStates
  <2>2. /\ status'[JobOf(e)] = "running" /\ KeepsCost(e)
        /\ \A g \in Entries : g # e => KeepsHash(g) /\ KeepsCost(g)
    BY <1>4, <1>6 DEF MarkRunning
  <2>3. Started(e)
    BY <1>6, <2>1, <2>2 DEF MarkRunning, Started
  <2>4. QED
    BY <2>1, <2>2, <2>3 DEF EntryMove, Undisturbed
<1>7. CASE ExecuteLocalRunner(e)
  <2>1. Processing(e, "running", "executed") /\ \A g \in Entries : g # e => Quiet(g)
    BY <1>3, <1>7 DEF ExecuteLocalRunner, ProcStates
  <2>2. QED
    BY <1>5, <1>7, <2>1 DEF ExecuteLocalRunner, storeVars, Ran, EntryMove, Undisturbed
<1>8. CASE RecordResult(e)
  <2>1. Processing(e, "executed", "recorded") /\ \A g \in Entries : g # e => Quiet(g)
    BY <1>3, <1>8 DEF RecordResult, ProcStates
  <2>2. /\ status'[JobOf(e)] = result[e] /\ KeepsCost(e)
        /\ \A g \in Entries : g # e => KeepsHash(g) /\ KeepsCost(g)
    BY <1>4, <1>8 DEF RecordResult
  <2>3. result[e] \in Terminal
    BY <1>0, <2>1 DEF Processing, Outcomes, Terminal
  <2>4. QED
    BY <2>1, <2>2, <2>3 DEF Recorded, EntryMove, Undisturbed
<1>9. CASE IncrementDailyCost(e)
  <2>1. Processing(e, "recorded", "charged") /\ \A g \in Entries : g # e => Quiet(g)
    BY <1>3, <1>9 DEF IncrementDailyCost, ProcStates
  <2>2. /\ charges'[JobOf(e)] = charges[JobOf(e)] + 1 /\ UNCHANGED status
        /\ \A k \in Jobs : k # JobOf(e) => charges'[k] = charges[k]
    BY <1>0, <1>9, ChargesUpdate DEF IncrementDailyCost, ChargeCost
  <2>3. QED
    BY <1>0, <1>1, <2>1, <2>2 DEF Charged, EntryMove, Undisturbed, KeepsHash, KeepsCost
<1>10. CASE DecrementActiveQuota(e)
  <2>1. Processing(e, "charged", "released") /\ \A g \in Entries : g # e => Quiet(g)
    BY <1>3, <1>10 DEF DecrementActiveQuota, ProcStates
  <2>2. QED
    BY <1>5, <1>10, <2>1 DEF DecrementActiveQuota, Released, EntryMove, Undisturbed
<1>11. CASE FinishAttempt(e)
  <2>1. /\ proc[e] \in {"released", "dispatched"} /\ proc' = [proc EXCEPT ![e] = "idle"]
        /\ queue[e] = "active" /\ queue' = [queue EXCEPT ![e] = "completed"]
        /\ UNCHANGED <<made, handler, status, charges>>
    BY <1>11 DEF FinishAttempt, Proceed, MoveToCompleted, Move, storeVars
  <2>2. /\ proc'[e] = "idle" /\ queue'[e] = "completed"
        /\ \A g \in Entries : g # e => proc'[g] = proc[g] /\ queue'[g] = queue[g]
    <3>1. proc'[e] = "idle" /\ \A g \in Entries : g # e => proc'[g] = proc[g]
      BY <1>0, <2>1, ProcUpdate
    <3>2. queue'[e] = "completed" /\ \A g \in Entries : g # e => queue'[g] = queue[g]
      BY <1>0, <2>1, QueueUpdate
    <3>3. QED
      BY <3>1, <3>2
  <2>3. proc[e] = "released"
    BY <2>1 DEF LocalEngine, EngineInv, AdmissionInv, LineageInv, AttemptInv, TasksCounted
  <2>4. QED
    BY <1>5, <2>1, <2>2, <2>3 DEF Finished, EntryMove, Undisturbed, Quiet, KeepsListeners
<1>12. CASE AttemptThrows(e)
  <2>1. /\ proc[e] = "running" /\ proc' = [proc EXCEPT ![e] = "idle"]
        /\ queue[e] = "active" /\ queue' = [queue EXCEPT ![e] = AfterFailure(e)]
        /\ made' = [made EXCEPT ![e] = @ + 1]
        /\ handler' = [handler EXCEPT ![<<e, made[e] + 1>>] = "notified"]
        /\ UNCHANGED <<status, charges>>
    BY <1>12
       DEF AttemptThrows, Proceed, NotifyFailure, MoveToFailed, Move, HarmlessFaults, storeVars
  <2>2. /\ proc'[e] = "idle" /\ queue'[e] = AfterFailure(e) /\ made'[e] = made[e] + 1
        /\ \A g \in Entries : g # e =>
             proc'[g] = proc[g] /\ queue'[g] = queue[g] /\ made'[g] = made[g]
    <3>1. \A g \in Entries : IF g = e THEN proc'[g] = "idle" ELSE proc'[g] = proc[g]
      BY <1>0, <2>1, ProcUpdate
    <3>2. \A g \in Entries : IF g = e THEN queue'[g] = AfterFailure(e) ELSE queue'[g] = queue[g]
      BY <1>0, <2>1, QueueUpdate
    <3>3. \A g \in Entries : IF g = e THEN made'[g] = made[g] + 1 ELSE made'[g] = made[g]
      BY <1>0, <2>1 DEF TypeOK, QueueTypeOK
    <3>4. QED
      BY <3>1, <3>2, <3>3
  <2>3. <<e, made[e] + 1>> \in Failures
    BY <2>1, StartHasTask DEF EngineInv, AdmissionInv, LineageInv
  <2>4. /\ handler'[<<e, made[e] + 1>>] = "notified"
        /\ \A g \in Failures : g # <<e, made[e] + 1>> => handler'[g] = handler[g]
    BY <1>0, <2>1, <2>3, HandlerUpdate
  <2>5. Threw(e)
    BY <1>0, <1>5, <2>1, <2>2, <2>4 DEF Threw
  <2>6. QED
    BY <1>0, <1>5, <2>1, <2>2, <2>4, <2>5 DEF EntryMove, Undisturbed, Quiet
<1>13. ~(DispatchEcsRunner(e) \/ MarkDispatched(e) \/ DispatchAnswerLost(e))
  BY DEF DispatchEcsRunner, MarkDispatched, DispatchAnswerLost, Proceed, LocalEngine, EngineInv,
         AdmissionInv, LineageInv, AttemptInv, TasksCounted
<1>14. QED
  BY <1>6, <1>7, <1>8, <1>9, <1>10, <1>11, <1>12, <1>13 DEF ProcessorStep

LEMMA ListenerMove ==
  ASSUME LocalEngine, EngineInv, NEW f \in Failures, HandlerStep(f)
  PROVE  EntryMove(f[1]) /\ \A g \in Entries : g # f[1] => Undisturbed(g)
<1> DEFINE e == f[1]
           m == f[2]
<1>0. /\ TypeOK /\ e \in Entries /\ m \in 1 .. Attempts /\ f = <<e, m>>
      /\ \A g \in Entries : JobOf(g) \in Jobs
      /\ \A g \in Entries, n \in 1 .. Attempts : <<g, n>> \in Failures
  BY EngineFacts
<1>1. \A g \in Entries : g # e => JobOf(g) # JobOf(e)
  BY <1>0, OneEntry DEF LocalEngine
<1>2. UNCHANGED <<queue, made, proc, charges>>
  BY DEF HandlerStep, MarkRetrying, MarkFailed, ReleaseFailed, CopyToDlq, MarkDeadLettered,
         queueVars, storeVars
<1> HIDE DEF e, m
<1>3. ASSUME NEW from, NEW to, Handle(f, from, to)
      PROVE  ListenerMoves(e, m, from, to) /\ \A g \in Entries : g # e => Quiet(g)
  <2>1. /\ handler[f] = from /\ handler'[f] = to
        /\ \A g \in Failures : g # f => handler'[g] = handler[g]
    BY <1>0, <1>3, HandlerUpdate DEF Handle
  <2>2. \A n \in 1 .. Attempts : n # m => handler'[<<e, n>>] = handler[<<e, n>>]
    BY <1>0, <2>1
  <2>3. \A g \in Entries, n \in 1 .. Attempts : g # e => handler'[<<g, n>>] = handler[<<g, n>>]
    BY <1>0, <2>1
  <2>4. QED
    BY <1>0, <1>2, <2>1, <2>2, <2>3 DEF ListenerMoves, Quiet, KeepsCost
<1>4. ASSUME NEW s, WriteStatus(JobOf(e), s)
      PROVE  status'[JobOf(e)] = s /\ \A g \in Entries : g # e => KeepsHash(g)
  BY <1>0, <1>1, <1>4, StatusUpdate DEF WriteStatus, KeepsHash
<1>5. \A g \in Entries : KeepsCost(g)
  BY <1>2 DEF KeepsCost
<1>6. CASE MarkRetrying(f)
  <2>1. /\ m < Attempts /\ Handle(f, "notified", "done") /\ WriteStatus(JobOf(e), "retrying")
    BY <1>6 DEF MarkRetrying, HasAttemptsLeft, e, m
  <2>2. Retrying(e)
    BY <1>0, <1>3, <1>4, <2>1 DEF Retrying
  <2>3. QED
    BY <1>3, <1>4, <1>5, <2>1, <2>2 DEF EntryMove, Undisturbed, e
<1>7. CASE MarkFailed(f)
  <2>1. ~(m < Attempts) /\ Handle(f, "notified", "recorded") /\ WriteStatus(JobOf(e), "failed")
    BY <1>7 DEF MarkFailed, HasAttemptsLeft, e, m
  <2>2. m = Attempts
    BY <1>0, <2>1, AttemptsAssumption
  <2>3. Exhausted(e)
    BY <1>3, <1>4, <2>1, <2>2 DEF Exhausted
  <2>4. QED
    BY <1>3, <1>4, <1>5, <2>1, <2>3 DEF EntryMove, Undisturbed, e
<1>8. CASE ReleaseFailed(f) \/ CopyToDlq(f) \/ MarkDeadLettered(f)
  <2>1. /\ \E from \in {"recorded", "released", "copied"}, to \in {"released", "copied", "done"} :
             Handle(f, from, to)
        /\ UNCHANGED status
    BY <1>8 DEF ReleaseFailed, CopyToDlq, MarkDeadLettered, storeVars
  <2>2. m = Attempts
    BY <2>1 DEF Handle, EngineInv, AdmissionInv, LineageInv, AttemptInv, ListenersCounted, m
  <2>3. Cleared(e)
    BY <1>3, <2>1, <2>2 DEF Cleared, KeepsHash
  <2>4. QED
    BY <1>3, <1>5, <2>1, <2>3 DEF EntryMove, Undisturbed, KeepsHash, e
<1>9. QED
  BY <1>6, <1>7, <1>8 DEF HandlerStep

LEMMA PoolMove ==
  ASSUME EngineInv, NEW e \in Entries,
         (\E w \in Workers : TakeJob(w, e)) \/ PromoteDelayed(e)
  PROVE  EntryMove(e) /\ \A g \in Entries : g # e => Undisturbed(g)
<1>0. TypeOK /\ (queue[e] = "active" <=> proc[e] # "idle")
  BY EngineFacts
<1>1. CASE \E w \in Workers : TakeJob(w, e)
  <2>1. /\ queue[e] = "waiting" /\ queue' = [queue EXCEPT ![e] = "active"]
        /\ proc[e] = "idle" /\ proc' = [proc EXCEPT ![e] = "taken"]
        /\ UNCHANGED <<made, handler, status, charges>>
    BY <1>1 DEF TakeJob, Take, Move, Proceed, storeVars
  <2>2. queue'[e] = "active" /\ \A g \in Entries : g # e => queue'[g] = queue[g]
    BY <1>0, <2>1, QueueUpdate
  <2>3. proc'[e] = "taken" /\ \A g \in Entries : g # e => proc'[g] = proc[g]
    BY <1>0, <2>1, ProcUpdate
  <2>4. Taken(e)
    BY <2>1, <2>2, <2>3 DEF Taken, KeepsListeners, KeepsHash, KeepsCost
  <2>5. QED
    BY <2>1, <2>2, <2>3, <2>4 DEF EntryMove, Undisturbed, Quiet, KeepsHash, KeepsCost
<1>2. CASE PromoteDelayed(e)
  <2>1. /\ queue[e] = "delayed" /\ queue' = [queue EXCEPT ![e] = "waiting"]
        /\ UNCHANGED <<made, proc, handler, status, charges>>
    BY <1>2 DEF PromoteDelayed, Promote, Move, storeVars, workerVars
  <2>2. queue'[e] = "waiting" /\ \A g \in Entries : g # e => queue'[g] = queue[g]
    BY <1>0, <2>1, QueueUpdate
  <2>3. Queueing(e, "delayed", "waiting")
    BY <1>0, <2>1, <2>2 DEF Queueing, KeepsListeners, KeepsHash, KeepsCost
  <2>4. QED
    BY <2>1, <2>2, <2>3 DEF EntryMove, Undisturbed, Quiet, KeepsHash, KeepsCost
<1>3. QED
  BY <1>1, <1>2

LEMMA StepsOfEntries ==
  ASSUME LocalEngine, Faults \subseteq HarmlessFaults, EngineInv, [Next]_vars
  PROVE  EntryStep
<1>1. ASSUME NEW e \in Entries, ProcessorStep(e) PROVE EntryStep
  BY <1>1, ProcessorMove DEF EntryStep
<1>2. ASSUME NEW f \in Failures, HandlerStep(f) PROVE EntryStep
  <2>1. f[1] \in Entries
    BY EngineFacts
  <2>2. QED
    BY <1>2, <2>1, ListenerMove DEF EntryStep
<1>3. ASSUME NEW e \in Entries, (\E w \in Workers : TakeJob(w, e)) \/ PromoteDelayed(e)
      PROVE  EntryStep
  BY <1>3, PoolMove DEF EntryStep
<1>4. ASSUME NEW j \in Jobs, SubmissionStep(j), UNCHANGED <<taskVars, workerVars, replayVars>>
      PROVE  EntryStep
  BY <1>4, SubmissionMove DEF LocalEngine
<1>5. ASSUME NEW a \in TaskIds PROVE ~(RunTask(a) \/ BreakTask(a))
  <2>1. task[a] = "none"
    BY DEF LocalEngine, EngineInv, AdmissionInv, LineageInv, AttemptInv, TasksCounted
  <2>2. QED
    BY <2>1
       DEF RunTask, BreakTask, ExecuteUserCode, RecordTaskResult, ChargeTask, ReleaseTaskSlot,
           ExitTask, EnterFallback, FallbackThrows, KillTask, Advance
<1>6. \A w \in Workers : ~WorkerCrash(w)
  BY DEF WorkerCrash, HarmlessFaults
<1>7. ASSUME UNCHANGED <<queue, made, proc, handler, status, charges>>
      PROVE  EntryStep
  BY <1>7 DEF EntryStep, Undisturbed, Quiet, KeepsHash, KeepsCost
<1>8. ASSUME NEW p \in Replayers, ReplayStep(p) PROVE EntryStep
  <2>1. ~AddReplay(p)
    BY DEF AddReplay, LocalEngine
  <2>2. UNCHANGED <<queue, made, proc, handler, status, charges>>
    BY <1>8, <2>1
       DEF ReplayStep, FetchJobs, RemoveDeadLetter, SkipDeadLetter, FinishReplay, ReplayCrash,
           storeVars, queueVars, workerVars
  <2>3. QED
    BY <1>7, <2>2
<1>9. ASSUME UNCHANGED vars PROVE EntryStep
  <2>1. UNCHANGED <<queue, made, proc, handler, status, charges>>
    BY <1>9 DEF vars, storeVars, queueVars, workerVars
  <2>2. QED
    BY <1>7, <2>1
<1>10. ASSUME Midnight, UNCHANGED workerVars PROVE EntryStep
  <2>1. UNCHANGED <<queue, made, proc, handler, status, charges>>
    BY <1>10 DEF Midnight, storeVars, queueVars, workerVars
  <2>2. QED
    BY <1>7, <2>1
<1>11. QED
  BY <1>1, <1>2, <1>3, <1>4, <1>5, <1>6, <1>8, <1>9, <1>10
     DEF Next, Submissions, SubmissionNext, Fetches, Processors, Listeners, Backoffs, Crashes,
         Tasks, BrokenTasks, Replays

(***************************************************************************)
(* The cost, with any number of workers.                                   *)
(***************************************************************************)

CostInv == EngineInv /\ \A e \in Entries : ChargesFollow(e)

LEMMA CostStep ==
  ASSUME LocalEngine, Faults \subseteq HarmlessFaults, CostInv, [Next]_vars
  PROVE  CostInv'
<1>1. EngineInv'
  BY EngineInvStep DEF LocalEngine, CostInv
<1>2. ASSUME NEW e \in Entries, Undisturbed(e) PROVE ChargesFollow(e)'
  BY <1>2, QuietEntry DEF Undisturbed, KeepsCost, CostInv
<1>3. ASSUME NEW e \in Entries, EntryMove(e) PROVE ChargesFollow(e)'
  <2>1. /\ ChargesFollow(e)
        /\ queue[e] = "active" <=> proc[e] # "idle"
    BY EngineFacts DEF CostInv
  <2>2. CASE HashWritten(e) \/ Retrying(e) \/ Exhausted(e) \/ Cleared(e)
    BY <2>1, <2>2
       DEF HashWritten, Retrying, Exhausted, Cleared, ListenerMoves, Quiet, KeepsCost, ChargesFollow
  <2>3. CASE Queueing(e, "none", "waiting") \/ Queueing(e, "delayed", "waiting") \/ Taken(e)
    BY <2>1, <2>3 DEF Queueing, Taken, KeepsCost, ChargesFollow
  <2>4. CASE Started(e) \/ Ran(e) \/ Recorded(e) \/ Charged(e) \/ Released(e)
    BY <2>1, <2>4
       DEF Started, Ran, Recorded, Charged, Released, Processing, KeepsCost, ChargesFollow
  <2>5. CASE Finished(e) \/ Threw(e)
    BY <2>1, <2>5 DEF Finished, Threw, AfterFailure, KeepsCost, ChargesFollow
  <2>6. QED
    BY <1>3, <2>2, <2>3, <2>4, <2>5 DEF EntryMove
<1>4. \A e \in Entries : ChargesFollow(e)'
  BY <1>2, <1>3, StepsOfEntries DEF EntryStep, CostInv
<1>5. QED
  BY <1>1, <1>4 DEF CostInv

LEMMA EngineInit == Init => EngineInv
BY AdmissionInit, CustodyInit DEF EngineInv

LEMMA CostInit == Init => CostInv
<1> SUFFICES ASSUME Init PROVE CostInv
  OBVIOUS
<1>1. \A e \in Entries : queue[e] = "none" /\ proc[e] = "idle" /\ charges[JobOf(e)] = 0
  BY EntriesShape DEF Init, QueueInit, WorkerInit, StoreInit
<1>2. QED
  BY <1>1, EngineInit DEF CostInv, ChargesFollow

\* On the "local" backend a completed job was charged once and an exhausted one
\* never, however many workers and attempts there are.
THEOREM ResultsChargedOnce ==
  ASSUME Backend = "local", MaxReplays = 0, Faults \subseteq HarmlessFaults
  PROVE  Spec => []ChargedForResult
<1>1. CostInv /\ [Next]_vars => CostInv'
  BY CostStep DEF LocalEngine
<1>2. CostInv => ChargedForResult
  <2> SUFFICES ASSUME CostInv, NEW e \in Entries
               PROVE  /\ queue[e] = "completed" => charges[JobOf(e)] = 1
                      /\ queue[e] = "failed" => charges[JobOf(e)] = 0
    BY DEF ChargedForResult
  <2>1. queue[e] = "failed" => proc[e] = "idle"
    BY EngineFacts DEF CostInv
  <2>2. QED
    BY <2>1 DEF CostInv, ChargesFollow
<1>3. QED
  BY <1>1, <1>2, CostInit, PTL DEF Spec

(***************************************************************************)
(* The job hash, with one worker.                                          *)
(***************************************************************************)

HashInv ==
  /\ EngineInv
  /\ \A e \in Entries : ListenerInOrder(e) /\ StatusFollows(e)

LEMMA HashInit == Init => HashInv
<1> SUFFICES ASSUME Init PROVE HashInv
  OBVIOUS
<1>1. \A e \in Entries : /\ queue[e] = "none" /\ proc[e] = "idle" /\ status[JobOf(e)] = "absent"
                         /\ \A m \in 1 .. Attempts : handler[<<e, m>>] = "none"
  BY EntriesShape DEF Init, QueueInit, WorkerInit, StoreInit, Failures
<1>2. QED
  BY <1>1, EngineInit DEF HashInv, ListenerInOrder, StatusFollows

\* The worker's connection: its listener's HSET is done before an attempt writes.
LEMMA ListenerFirst ==
  ASSUME OneWorker, EngineInv, NEW e \in Entries, ~SentEarlier(e), NEW m \in 1 .. Attempts
  PROVE  handler[<<e, m>>] # "notified"
<1>1. heardBy[<<e, m>>] \in Workers /\ runBy[e] \in Workers
  BY EngineFacts DEF TypeOK, WorkerTypeOK
<1>2. QED
  BY <1>1 DEF OneWorker, SentEarlier

\* The attempts of an entry, as its listeners number them.
LEMMA AttemptFacts ==
  ASSUME EngineInv, NEW e \in Entries
  PROVE  /\ made[e] \in Nat /\ queue[e] \in QueueStates
         /\ queue[e] = "active" <=> proc[e] # "idle"
         /\ queue[e] = "none" => made[e] = 0
         /\ queue[e] \in {"waiting", "active", "delayed", "completed"} => made[e] < Attempts
         /\ queue[e] = "failed" => made[e] = Attempts
         /\ \A m \in 1 .. Attempts : handler[<<e, m>>] # "none" => m <= made[e]
         /\ Attempts \in Nat /\ Attempts \in 1 .. Attempts
<1>1. AttemptsCounted /\ ListenersCounted
  BY DEF EngineInv, AdmissionInv, LineageInv, AttemptInv
<1>2. made[e] \in Nat /\ queue[e] \in QueueStates
  BY EngineFacts
<1>3. \A m \in 1 .. Attempts : <<e, m>> \in Failures
  BY EngineFacts
<1>4. \A m \in 1 .. Attempts : handler[<<e, m>>] # "none" => m <= made[e]
  BY <1>1, <1>3 DEF ListenersCounted
<1>5. QED
  BY <1>1, <1>2, <1>4, AttemptsAssumption DEF AttemptsCounted, Pending

LEMMA ListenerOrderKept ==
  ASSUME OneWorker, HashInv, NEW e \in Entries, EntryMove(e)
  PROVE  ListenerInOrder(e)'
<1>1. ListenerInOrder(e) /\ EngineInv
  BY DEF HashInv
<1>2. /\ made[e] \in Nat
      /\ queue[e] = "active" <=> proc[e] # "idle"
      /\ \A m \in 1 .. Attempts : handler[<<e, m>>] # "none" => m <= made[e]
  BY <1>1, AttemptFacts
<1>3. CASE HashWritten(e)
  BY <1>1, <1>3 DEF HashWritten, Quiet, ListenerInOrder
<1>4. CASE Queueing(e, "none", "waiting") \/ Queueing(e, "delayed", "waiting") \/ Taken(e)
  BY <1>1, <1>2, <1>4 DEF Queueing, Taken, KeepsListeners, ListenerInOrder
<1>5. CASE Started(e)
  <2>1. \A m \in 1 .. Attempts : handler'[<<e, m>>] # "notified"
    BY <1>1, <1>5, ListenerFirst DEF Started, Processing, KeepsListeners
  <2>2. QED
    BY <2>1 DEF ListenerInOrder
<1>6. CASE Ran(e) \/ Recorded(e) \/ Charged(e) \/ Released(e) \/ Finished(e)
  <2>1. \A m \in 1 .. Attempts : handler'[<<e, m>>] # "notified"
    BY <1>1, <1>6
       DEF Ran, Recorded, Charged, Released, Finished, Processing, KeepsListeners, ListenerInOrder
  <2>2. QED
    BY <2>1 DEF ListenerInOrder
<1>7. CASE Threw(e)
  <2>1. \A m \in 1 .. Attempts : handler'[<<e, m>>] = "notified" => m = made[e] + 1
    BY <1>1, <1>7 DEF Threw, ListenerInOrder
  <2>2. queue'[e] \in {"delayed", "failed"} /\ made'[e] = made[e] + 1
    BY <1>7 DEF Threw, AfterFailure
  <2>3. QED
    BY <2>1, <2>2 DEF ListenerInOrder
<1>8. CASE Retrying(e) \/ Exhausted(e) \/ Cleared(e)
  BY <1>1, <1>8 DEF Retrying, Exhausted, Cleared, ListenerMoves, ListenerInOrder
<1>9. QED
  BY <1>3, <1>4, <1>5, <1>6, <1>7, <1>8 DEF EntryMove

LEMMA StatusKept ==
  ASSUME HashInv, NEW e \in Entries, EntryMove(e)
  PROVE  StatusFollows(e)'
<1>1. ListenerInOrder(e) /\ StatusFollows(e) /\ EngineInv
  BY DEF HashInv
<1>2. /\ made[e] \in Nat /\ queue[e] \in QueueStates /\ Attempts \in 1 .. Attempts
      /\ queue[e] = "active" <=> proc[e] # "idle"
      /\ queue[e] = "none" => made[e] = 0
      /\ queue[e] \in {"waiting", "active", "delayed", "completed"} => made[e] < Attempts
      /\ queue[e] = "failed" => made[e] = Attempts
      /\ \A m \in 1 .. Attempts : handler[<<e, m>>] # "none" => m <= made[e]
  BY <1>1, AttemptFacts
<1>3. CASE HashWritten(e)
  BY <1>1, <1>2, <1>3 DEF HashWritten, Quiet, StatusFollows
<1>4. CASE Queueing(e, "none", "waiting") \/ Queueing(e, "delayed", "waiting") \/ Taken(e)
  BY <1>1, <1>2, <1>4 DEF Queueing, Taken, KeepsHash, StatusFollows, Terminal
<1>5. CASE Started(e) \/ Ran(e) \/ Recorded(e) \/ Charged(e) \/ Released(e)
  BY <1>1, <1>2, <1>5
     DEF Started, Ran, Recorded, Charged, Released, Processing, KeepsHash, StatusFollows
<1>6. CASE Finished(e)
  BY <1>1, <1>2, <1>6 DEF Finished, KeepsHash, StatusFollows
<1>7. CASE Threw(e)
  <2>1. status'[JobOf(e)] = "running" /\ proc'[e] = "idle"
    BY <1>1, <1>7 DEF Threw, KeepsHash, StatusFollows
  <2>2. queue'[e] = AfterFailure(e) /\ made[e] < Attempts
    BY <1>2, <1>7 DEF Threw
  <2>3. CASE made[e] + 1 < Attempts
    <3>1. queue'[e] = "delayed"
      BY <2>2, <2>3 DEF AfterFailure
    <3>2. QED
      BY <2>1, <3>1 DEF StatusFollows, Terminal
  <2>4. CASE ~(made[e] + 1 < Attempts)
    <3>1. queue'[e] = "failed" /\ made[e] + 1 = Attempts
      BY <1>2, <2>2, <2>4, AttemptsAssumption DEF AfterFailure
    <3>2. handler'[<<e, Attempts>>] = "notified"
      BY <1>2, <1>7, <3>1 DEF Threw
    <3>3. QED
      BY <2>1, <3>1, <3>2 DEF StatusFollows
  <2>5. QED
    BY <2>3, <2>4
<1>8. CASE Retrying(e)
  <2>1. PICK m \in 1 .. Attempts : /\ m < Attempts /\ handler[<<e, m>>] = "notified"
                                   /\ queue'[e] = queue[e] /\ proc'[e] = proc[e]
                                   /\ status'[JobOf(e)] = "retrying"
    BY <1>8 DEF Retrying, ListenerMoves
  <2>2. m = made[e] /\ (queue[e] \in {"waiting", "delayed", "failed"} \/ proc[e] = "taken")
    BY <1>1, <2>1 DEF ListenerInOrder
  <2>3. queue[e] \in {"waiting", "delayed"} \/ proc[e] = "taken"
    BY <1>2, <2>1, <2>2
  <2>4. QED
    BY <1>2, <2>1, <2>3 DEF StatusFollows, Terminal
<1>9. CASE Exhausted(e)
  <2>1. /\ handler[<<e, Attempts>>] = "notified" /\ handler'[<<e, Attempts>>] = "recorded"
        /\ queue'[e] = queue[e] /\ proc'[e] = proc[e] /\ status'[JobOf(e)] = "failed"
    BY <1>9 DEF Exhausted, ListenerMoves
  <2>2. Attempts = made[e]
    BY <1>1, <1>2, <2>1 DEF ListenerInOrder
  <2>3. queue[e] = "failed" /\ proc[e] = "idle"
    BY <1>2, <2>2, AttemptsAssumption DEF QueueStates
  <2>4. QED
    BY <2>1, <2>3 DEF StatusFollows
<1>10. CASE Cleared(e)
  BY <1>1, <1>2, <1>10 DEF Cleared, ListenerMoves, KeepsHash, StatusFollows
<1>11. QED
  BY <1>3, <1>4, <1>5, <1>6, <1>7, <1>8, <1>9, <1>10 DEF EntryMove

LEMMA HashStep ==
  ASSUME LocalEngine, OneWorker, Faults \subseteq HarmlessFaults, HashInv, [Next]_vars
  PROVE  HashInv'
<1>1. EngineInv'
  BY EngineInvStep DEF LocalEngine, HashInv
<1>2. ASSUME NEW e \in Entries, Undisturbed(e) PROVE ListenerInOrder(e)' /\ StatusFollows(e)'
  BY <1>2, QuietEntry DEF Undisturbed, KeepsHash, HashInv
<1>3. \A e \in Entries : ListenerInOrder(e)' /\ StatusFollows(e)'
  BY <1>2, ListenerOrderKept, StatusKept, StepsOfEntries DEF EntryStep, HashInv
<1>4. QED
  BY <1>1, <1>3 DEF HashInv

\* Only a move of an entry writes a hash, and it finds no verdict there.
LEMMA VerdictsKept ==
  ASSUME LocalEngine, OneWorker, Faults \subseteq HarmlessFaults, HashInv, [Next]_vars,
         NEW j \in Jobs, status[j] \in Terminal
  PROVE  status'[j] = status[j]
<1> DEFINE e == <<j, 0>>
<1>1. e \in Entries /\ JobOf(e) = j
  BY OneEntry DEF LocalEngine
<1>2. CASE KeepsHash(e)
  BY <1>1, <1>2 DEF KeepsHash
<1> HIDE DEF e
<1>3. CASE ~KeepsHash(e)
  <2>1. HashWritten(e) \/ Started(e) \/ Recorded(e) \/ Retrying(e) \/ Exhausted(e)
    <3>1. EntryMove(e)
      BY <1>1, <1>3, StepsOfEntries DEF EntryStep, Undisturbed, HashInv
    <3>2. QED
      BY <1>3, <3>1 DEF EntryMove, Queueing, Taken, Ran, Charged, Released, Finished, Threw, Cleared
  <2>2. ListenerInOrder(e) /\ StatusFollows(e) /\ EngineInv
    BY <1>1 DEF HashInv
  <2>3. CASE HashWritten(e) \/ Started(e) \/ Recorded(e)
    BY <1>1, <2>2, <2>3 DEF HashWritten, Started, Recorded, Processing, StatusFollows, Terminal
  <2>4. CASE Retrying(e) \/ Exhausted(e)
    <3> Attempts \in 1 .. Attempts
      BY AttemptsAssumption
    <3>1. PICK m \in 1 .. Attempts : handler[<<e, m>>] = "notified"
      BY <2>4 DEF Retrying, Exhausted, ListenerMoves
    <3>2. m = made[e] /\ (queue[e] \in {"waiting", "delayed", "failed"} \/ proc[e] = "taken")
      BY <2>2, <3>1 DEF ListenerInOrder
    <3>3. queue[e] = "failed"
      BY <1>1, <2>2, <3>2 DEF StatusFollows
    <3>4. handler[<<e, Attempts>>] = "notified"
      BY <1>1, <2>2, <3>1, <3>2, <3>3, AttemptFacts
    <3>5. QED
      BY <1>1, <2>2, <3>3, <3>4 DEF StatusFollows, Terminal
  <2>5. QED
    BY <2>1, <2>3, <2>4
<1>4. QED
  BY <1>2, <1>3

\* With one worker process a job's verdict is never revised: what a client once
\* read as succeeded or failed it reads for good.
THEOREM VerdictsAreFinal ==
  ASSUME Backend = "local", MaxReplays = 0, Faults \subseteq HarmlessFaults, OneWorker
  PROVE  Spec => TerminalIsFinal
<1>1. HashInv /\ [Next]_vars => HashInv'
  BY HashStep DEF LocalEngine
<1>2. HashInv /\ [Next]_vars
        => [\A j \in Jobs : status[j] \in Terminal => status'[j] = status[j]]_vars
  BY VerdictsKept DEF LocalEngine
<1>3. QED
  BY <1>1, <1>2, HashInit, PTL DEF Spec, TerminalIsFinal

\* With one worker process a job that is shown as retrying has an attempt to come
\* or under way.
THEOREM RetriesArePending ==
  ASSUME Backend = "local", MaxReplays = 0, Faults \subseteq HarmlessFaults, OneWorker
  PROVE  Spec => []RetryingIsPending
<1>1. HashInv /\ [Next]_vars => HashInv'
  BY HashStep DEF LocalEngine
<1>2. HashInv => RetryingIsPending
  <2> SUFFICES ASSUME HashInv, NEW j \in Jobs, status[j] = "retrying"
               PROVE  \E e \in Entries : JobOf(e) = j /\ queue[e] \in Pending
    BY DEF RetryingIsPending
  <2> DEFINE e == <<j, 0>>
  <2>1. e \in Entries /\ JobOf(e) = j
    BY OneEntry
  <2> HIDE DEF e
  <2>2. queue[e] \in Pending
    BY <2>1, AttemptFacts DEF HashInv, StatusFollows, Terminal, Pending, QueueStates
  <2>3. QED
    BY <2>1, <2>2
<1>3. QED
  BY <1>1, <1>2, HashInit, PTL DEF Spec

\* With one worker process a job the API answered 202 for is in the queue, with
\* the listener of its last attempt, or has its verdict.
THEOREM AcceptedJobsKept ==
  ASSUME Backend = "local", MaxReplays = 0, Faults \subseteq HarmlessFaults, OneWorker
  PROVE  Spec => []NoAcceptedJobLost
<1>1. HashInv /\ [Next]_vars => HashInv'
  BY HashStep DEF LocalEngine
<1>2. HashInv => NoAcceptedJobLost
  <2> SUFFICES ASSUME HashInv, NEW j \in Jobs, api[j] = "accepted", status[j] \notin Terminal
               PROVE  \E e \in Entries : JobOf(e) = j /\ (queue[e] \in Pending \/ Listening(e))
    BY DEF NoAcceptedJobLost
  <2> DEFINE e == <<j, 0>>
  <2>1. e \in Entries /\ JobOf(e) = j
    BY OneEntry
  <2>2. queue[e] # "none"
    BY DEF HashInv, EngineInv, AdmissionInv, Admission, Admitted
  <2> HIDE DEF e
  <2>3. queue[e] \in Pending \/ queue[e] = "failed"
    BY <2>1, <2>2, AttemptFacts DEF HashInv, StatusFollows, Pending, QueueStates
  <2>4. CASE queue[e] = "failed"
    <3>1. handler[<<e, Attempts>>] = "notified"
      BY <2>1, <2>4 DEF HashInv, StatusFollows, Terminal
    <3>2. Listening(e)
      BY <3>1, AttemptsAssumption DEF Listening, HasAttemptsLeft
    <3>3. QED
      BY <2>1, <3>2
  <2>5. QED
    BY <2>1, <2>3, <2>4
<1>3. QED
  BY <1>1, <1>2, HashInit, PTL DEF Spec

(***************************************************************************)
(* The refinement of ExecutionService.                                     *)
(***************************************************************************)

Verdict(j) == IF status[j] \in Terminal THEN status[j] ELSE "none"

\* The same job is new, refused, holding or settled before and after.
SamePhase(j) ==
  /\ (j \in holders') <=> (j \in holders)
  /\ (api'[j] = "idle") <=> (api[j] = "idle")
  /\ j \notin holders => ((queue'[<<j, 0>>] = "none") <=> (queue[<<j, 0>>] = "none"))

LEMMA PhaseOf ==
  ASSUME NEW j \in Jobs
  PROVE  /\ ServicePhase(j) = "holding" <=> j \in holders
         /\ ServicePhase(j) = "new" <=> j \notin holders /\ api[j] = "idle"
         /\ ServicePhase(j) = "refused" <=>
              j \notin holders /\ api[j] # "idle" /\ queue[<<j, 0>>] = "none"
         /\ ServicePhase(j) = "settled" <=>
              j \notin holders /\ api[j] # "idle" /\ queue[<<j, 0>>] # "none"
BY DEF ServicePhase

LEMMA SamePhaseKept ==
  ASSUME NEW j \in Jobs, SamePhase(j)
  PROVE  ServicePhase(j)' = ServicePhase(j)
BY DEF SamePhase, ServicePhase

LEMMA Stutters ==
  ASSUME \A j \in Jobs : SamePhase(j) /\ Verdict(j)' = Verdict(j), UNCHANGED <<reservedOn, day>>
  PROVE  UNCHANGED Service!serviceVars
<1>1. \A j \in Jobs : ServicePhase(j)' = ServicePhase(j)
  BY SamePhaseKept
<1>2. [j \in Jobs |-> ServicePhase(j)]' = [j \in Jobs |-> ServicePhase(j)]
  BY <1>1
<1>3. [j \in Jobs |-> Verdict(j)]' = [j \in Jobs |-> Verdict(j)]
  OBVIOUS
<1>4. QED
  BY <1>2, <1>3 DEF Service!serviceVars, Verdict

\* One job changes its phase.
LEMMA PhaseChange ==
  ASSUME NEW j \in Jobs, NEW p, ServicePhase(j)' = p, \A k \in Jobs : k # j => SamePhase(k)
  PROVE  [k \in Jobs |-> ServicePhase(k)]' = [[k \in Jobs |-> ServicePhase(k)] EXCEPT ![j] = p]
<1>1. \A k \in Jobs : k # j => ServicePhase(k)' = ServicePhase(k)
  BY SamePhaseKept
<1>2. QED
  BY <1>1

\* The service counts with the Cardinality of its own instance of FiniteSets.
LEMMA SameCardinality ==
  ASSUME NEW S
  PROVE  Service!Cardinality(S) = Cardinality(S)
BY DEF Service!Cardinality, Cardinality

\* The service's limits are the quota script's.
LEMMA LimitsAgree ==
  ASSUME ExactInv, DailyInv, NEW t \in Tenants
  PROVE  Service!AtLimit(t) <=> ~HasQuota(t, day)
<1>1. TypeOK /\ AdmissionInv
  BY DEF DailyInv, AdmissionInv, LineageInv, AttemptInv, TypeInv
<1>2. active[t] = Cardinality(HoldersOf(t)) /\ daily[t][day] = Cardinality(CountedOn(t, day))
  BY <1>1 DEF ExactInv, QuotaExact, DailyInv, DailyExact, CountedOn, TypeOK, ApiTypeOK
<1>3. active[t] \in Nat /\ daily[t][day] \in Nat
  BY <1>1 DEF TypeOK, StoreTypeOK, ApiTypeOK
<1>4. Service!Holding(t) = HoldersOf(t)
  BY <1>1, PhaseOf DEF Service!Holding, HoldersOf, TypeOK, StoreTypeOK
<1>5. Service!AdmittedOn(t, day) = CountedOn(t, day)
  <2>1. \A j \in Jobs : queue[<<j, 0>>] # "none" => api[j] # "idle"
    BY <1>1 DEF AdmissionInv, Admission, Admitted
  <2>2. QED
    BY <2>1, PhaseOf DEF Service!AdmittedOn, CountedOn, CountsFor
<1>6. MaxConcurrentJobs[t] \in Nat /\ MaxDailyJobs[t] \in Nat
  BY PolicyAssumption
<1>7. QED
  BY <1>2, <1>3, <1>4, <1>5, <1>6, SameCardinality DEF Service!AtLimit, HasQuota

ServiceInv == HashInv /\ ExactInv /\ DailyInv

LEMMA ServiceInvInit == Init => ServiceInv
BY HashInit, ExactInit, DailyInit DEF ServiceInv

LEMMA ServiceInvStep ==
  ASSUME LocalEngine, OneWorker, Faults \subseteq HarmlessFaults, ServiceInv, [Next]_vars
  PROVE  ServiceInv'
BY HashStep, ExactStep, DailyStep DEF ServiceInv, LocalEngine

\* A verdict is passed by the processor that records a result or by the listener
\* of the last attempt, while the job holds its slot.
LEMMA VerdictPassed ==
  ASSUME LocalEngine, OneWorker, Faults \subseteq HarmlessFaults, ServiceInv, [Next]_vars,
         NEW j \in Jobs, Verdict(j)' # Verdict(j)
  PROVE  /\ Verdict(j) = "none" /\ Verdict(j)' \in Terminal /\ j \in holders
         /\ \A k \in Jobs : k # j => Verdict(k)' = Verdict(k)
         /\ ~UNCHANGED status
<1> DEFINE e == <<j, 0>>
<1>1. e \in Entries /\ JobOf(e) = j
  BY OneEntry DEF LocalEngine
<1>2. status[j] \notin Terminal /\ status'[j] \in Terminal
  BY VerdictsKept DEF Verdict, ServiceInv
<1>3. Verdict(j) = "none" /\ Verdict(j)' \in Terminal
  BY <1>2 DEF Verdict
<1> HIDE DEF e
<1>4. ~KeepsHash(e)
  BY <1>1, <1>2 DEF KeepsHash
<1>5. EntryMove(e) /\ \A g \in Entries : g # e => Undisturbed(g)
  BY <1>1, <1>4, StepsOfEntries DEF EntryStep, Undisturbed, ServiceInv, HashInv
<1>6. Recorded(e) \/ Exhausted(e)
  BY <1>1, <1>2, <1>4, <1>5
     DEF EntryMove, HashWritten, Queueing, Taken, Started, Ran, Charged, Released, Finished,
         Threw, Retrying, Cleared, Terminal
<1>7. ASSUME NEW k \in Jobs, k # j PROVE Verdict(k)' = Verdict(k)
  <2>1. <<k, 0>> \in Entries /\ JobOf(<<k, 0>>) = k /\ <<k, 0>> # e
    BY <1>7, OneEntry DEF LocalEngine, e
  <2>2. status'[k] = status[k]
    BY <1>5, <2>1 DEF Undisturbed, KeepsHash
  <2>3. QED
    BY <2>2 DEF Verdict
<1>8. j \in holders
  <2>1. SlotsInCustody
    BY DEF ServiceInv, HashInv, EngineInv, OneCustodian
  <2>2. CASE Recorded(e)
    BY <1>1, <2>1, <2>2 DEF Recorded, Processing, SlotsInCustody, ProcessorHasSlot
  <2>3. CASE Exhausted(e)
    <3>1. <<e, Attempts>> \in Failures /\ handler[<<e, Attempts>>] = "notified"
      BY <1>1, <2>3, AttemptsAssumption DEF Exhausted, ListenerMoves, Failures
    <3>2. ListenerHasSlot(<<e, Attempts>>)
      BY <3>1 DEF ListenerHasSlot
    <3>3. QED
      BY <1>1, <2>1, <3>1, <3>2 DEF SlotsInCustody
  <2>4. QED
    BY <1>6, <2>2, <2>3
<1>9. QED
  BY <1>2, <1>3, <1>7, <1>8

\* Whoever ends a job releases its slot after the verdict.
LEMMA ReleasedAfterVerdict ==
  ASSUME LocalEngine, ServiceInv, NEW j \in Jobs, AboutToRelease(j)
  PROVE  Verdict(j) # "none" /\ j \in holders /\ queue[<<j, 0>>] # "none"
<1>1. HashInv /\ EngineInv /\ AdmissionInv /\ LineageInv /\ AttemptInv /\ SlotsInCustody
  BY DEF ServiceInv, HashInv, EngineInv, OneCustodian, AdmissionInv, LineageInv
<1>2. queue[<<j, 0>>] # "none"
  BY <1>1, ReleasedWasQueued
<1>3. \A a \in TaskIds : task[a] = "none"
  BY <1>1 DEF LocalEngine, AttemptInv, TasksCounted
<1>4. CASE \E e \in Entries : JobOf(e) = j /\ proc[e] = "charged"
  BY <1>1, <1>2, <1>4
     DEF HashInv, StatusFollows, Verdict, Terminal, SlotsInCustody, ProcessorHasSlot
<1>5. ASSUME NEW f \in Failures, JobOf(f[1]) = j, handler[f] = "recorded"
      PROVE  Verdict(j) # "none" /\ j \in holders
  <2> DEFINE e == f[1]
  <2>1. e \in Entries /\ f[2] = Attempts /\ f = <<e, Attempts>>
    BY <1>1, <1>5, EngineFacts DEF AttemptInv, ListenersCounted
  <2> HIDE DEF e
  <2>2. Attempts <= made[e] /\ Attempts \in 1 .. Attempts
    BY <1>1, <1>5, <2>1, AttemptFacts
  <2>3. queue[e] = "failed"
    BY <1>1, <2>1, <2>2, AttemptFacts DEF QueueStates
  <2>4. status[j] = "failed"
    BY <1>1, <1>5, <2>1, <2>3 DEF HashInv, StatusFollows, e
  <2>5. j \in holders
    BY <1>1, <1>5, <2>1 DEF SlotsInCustody, ListenerHasSlot, e
  <2>6. QED
    BY <2>4, <2>5 DEF Verdict, Terminal
<1>6. QED
  BY <1>2, <1>3, <1>4, <1>5 DEF AboutToRelease

\* No step outside the handlers writes a hash and releases a slot, and at midnight
\* neither happens.
LEMMA HashOrSlot ==
  ASSUME [Next]_vars, ~\E j \in Jobs : SubmissionStep(j)
  PROVE  /\ UNCHANGED holders \/ UNCHANGED status
         /\ UNCHANGED day \/ (Midnight /\ UNCHANGED <<holders, status>>)
<1>1. ASSUME NEW e \in Entries, ProcessorStep(e)
      PROVE  UNCHANGED day /\ (UNCHANGED holders \/ UNCHANGED status)
  BY <1>1
     DEF ProcessorStep, MarkRunning, ExecuteLocalRunner, RecordResult, IncrementDailyCost,
         DecrementActiveQuota, DispatchEcsRunner, MarkDispatched, FinishAttempt, AttemptThrows,
         DispatchAnswerLost, storeVars, apiVars
<1>2. ASSUME NEW f \in Failures, HandlerStep(f)
      PROVE  UNCHANGED day /\ (UNCHANGED holders \/ UNCHANGED status)
  BY <1>2
     DEF HandlerStep, MarkRetrying, MarkFailed, ReleaseFailed, CopyToDlq, MarkDeadLettered,
         storeVars, apiVars
<1>3. ASSUME NEW a \in TaskIds, RunTask(a) \/ BreakTask(a)
      PROVE  UNCHANGED day /\ (UNCHANGED holders \/ UNCHANGED status)
  BY <1>3
     DEF RunTask, BreakTask, ExecuteUserCode, RecordTaskResult, ChargeTask, ReleaseTaskSlot,
         ExitTask, EnterFallback, FallbackThrows, KillTask, storeVars, apiVars
<1>4. ASSUME \/ \E p \in Replayers : ReplayStep(p)
             \/ \E w \in Workers, e \in Entries : TakeJob(w, e)
             \/ \E e \in Entries : PromoteDelayed(e)
             \/ \E w \in Workers : WorkerCrash(w)
             \/ UNCHANGED vars
      PROVE  UNCHANGED <<day, holders>>
  BY <1>4
     DEF ReplayStep, FetchJobs, AddReplay, RemoveDeadLetter, SkipDeadLetter, FinishReplay,
         ReplayCrash, TakeJob, PromoteDelayed, WorkerCrash, vars, storeVars, apiVars
<1>5. ASSUME Midnight PROVE UNCHANGED <<holders, status>>
  BY <1>5 DEF Midnight, storeVars
<1>6. QED
  BY <1>1, <1>2, <1>3, <1>4, <1>5
     DEF Next, Submissions, SubmissionNext, Fetches, Processors, Listeners, Backoffs, Crashes,
         Tasks, BrokenTasks, Replays

\* The handler refuses, admits, gives up, or does something the service does not see.
LEMMA HandlerRefines ==
  ASSUME LocalEngine, OneWorker, Faults \subseteq HarmlessFaults, ServiceInv, [Next]_vars,
         NEW j \in Jobs, SubmissionStep(j)
  PROVE  [Service!Next]_(Service!serviceVars)
<1>1. TypeOK /\ ExactInv /\ DailyInv /\ HashInv /\ AdmissionInv /\ Owner[j] \in Tenants
  BY OwnerAssumption
     DEF ServiceInv, DailyInv, AdmissionInv, LineageInv, AttemptInv, TypeInv
<1>2. \A k \in Jobs : Verdict(k)' = Verdict(k)
  <2>1. CASE WriteJobHash(j) \/ DeleteJobHash(j)
    <3>1. /\ api[j] \in {"reserved", "rolledBack"}
          /\ \E s \in {"queued", "absent"} : status' = [status EXCEPT ![j] = s]
      BY <2>1 DEF WriteJobHash, DeleteJobHash, Goto, WriteStatus, DeleteHash
    <3>2. /\ status'[j] \in {"queued", "absent"}
          /\ \A k \in Jobs : k # j => status'[k] = status[k]
      BY <1>1, <3>1, StatusUpdate
    <3>3. <<j, 0>> \in Entries /\ JobOf(<<j, 0>>) = j
      BY OneEntry DEF LocalEngine
    <3>4. status[j] \in {"queued", "absent"}
      BY <1>1, <3>1, <3>3 DEF AdmissionInv, Admission, Admitted, HashInv, StatusFollows
    <3>5. QED
      BY <3>2, <3>4 DEF Verdict, Terminal
  <2>2. CASE ~(WriteJobHash(j) \/ DeleteJobHash(j))
    BY <2>2
       DEF SubmissionStep, RejectSubmission, ReserveQuota, ContinueSubmission, AppendHistoryItem,
           EnqueueJob, AcceptSubmission, RollbackReservedQuota, DropHistoryItem, FailSubmission,
           SubmissionThrows, HandlerThrows, ApiCrash, storeVars, Verdict
  <2>3. QED
    BY <2>1, <2>2
<1>3. [k \in Jobs |-> Verdict(k)]' = [k \in Jobs |-> Verdict(k)]
  BY <1>2
<1>4. \A k \in Jobs : k # j => api'[k] = api[k]
  BY <1>1, HandlerMoves
<1>5. UNCHANGED day
  BY DEF SubmissionStep, RejectSubmission, ReserveQuota, ContinueSubmission, WriteJobHash,
         AppendHistoryItem, EnqueueJob, AcceptSubmission, RollbackReservedQuota, DeleteJobHash,
         DropHistoryItem, FailSubmission, SubmissionThrows, HandlerThrows, ApiCrash
<1>6. \A k \in Jobs : api[k] = "idle" => k \notin holders /\ queue[<<k, 0>>] = "none"
  BY <1>1 DEF AdmissionInv, Admission, Admitted
<1>7. CASE ReserveQuota(j)
  <2>1. /\ api[j] = "idle" /\ holders' = holders \cup {j} /\ UNCHANGED queue
        /\ HasQuota(Owner[j], day) /\ reservedOn' = [reservedOn EXCEPT ![j] = day]
    BY <1>7 DEF ReserveQuota, Goto, ReserveSlot, queueVars
  <2>2. \A k \in Jobs : k # j => SamePhase(k)
    BY <1>4, <2>1 DEF SamePhase
  <2>3. ServicePhase(j) = "new" /\ ServicePhase(j)' = "holding"
    BY <1>6, <2>1 DEF ServicePhase
  <2>4. [k \in Jobs |-> ServicePhase(k)]' = [[k \in Jobs |-> ServicePhase(k)] EXCEPT ![j] = "holding"]
    BY <2>2, <2>3, PhaseChange
  <2>5. ~Service!AtLimit(Owner[j])
    BY <1>1, <2>1, LimitsAgree
  <2>6. Service!Admit(j)
    BY <1>3, <1>5, <2>1, <2>3, <2>4, <2>5 DEF Service!Admit, Verdict
  <2>7. QED
    BY <2>6 DEF Service!Next
<1>8. CASE RejectSubmission(j)
  <2>1. /\ api[j] = "idle" /\ api'[j] = "rejected" /\ UNCHANGED <<holders, queue, reservedOn>>
        /\ ~HasQuota(Owner[j], day)
    BY <1>1, <1>8 DEF RejectSubmission, Goto, storeVars, queueVars, TypeOK, ApiTypeOK
  <2>2. \A k \in Jobs : k # j => SamePhase(k)
    BY <1>4, <2>1 DEF SamePhase
  <2>3. ServicePhase(j) = "new" /\ ServicePhase(j)' = "refused"
    BY <1>6, <2>1 DEF ServicePhase
  <2>4. [k \in Jobs |-> ServicePhase(k)]' = [[k \in Jobs |-> ServicePhase(k)] EXCEPT ![j] = "refused"]
    BY <2>2, <2>3, PhaseChange
  <2>5. Service!AtLimit(Owner[j])
    BY <1>1, <2>1, LimitsAgree
  <2>6. Service!Refuse(j)
    BY <1>3, <1>5, <2>1, <2>3, <2>4, <2>5 DEF Service!Refuse, Verdict
  <2>7. QED
    BY <2>6 DEF Service!Next
<1>9. CASE RollbackReservedQuota(j)
  <2>1. /\ api[j] = "failing" /\ api'[j] = "rolledBack" /\ holders' = holders \ {j}
        /\ UNCHANGED <<queue, reservedOn>>
    BY <1>1, <1>9
       DEF RollbackReservedQuota, Goto, RollbackSlot, queueVars, TypeOK, ApiTypeOK
  <2>2. j \in holders /\ queue[<<j, 0>>] = "none"
    BY <1>1, <2>1 DEF AdmissionInv, Admission, Admitted, HandlerHasSlot
  <2>3. \A k \in Jobs : k # j => SamePhase(k)
    BY <1>4, <2>1 DEF SamePhase
  <2>4. ServicePhase(j) = "holding" /\ ServicePhase(j)' = "refused"
    BY <2>1, <2>2 DEF ServicePhase
  <2>5. [k \in Jobs |-> ServicePhase(k)]' = [[k \in Jobs |-> ServicePhase(k)] EXCEPT ![j] = "refused"]
    BY <2>3, <2>4, PhaseChange
  <2>6. Verdict(j) = "none"
    <3>1. <<j, 0>> \in Entries /\ JobOf(<<j, 0>>) = j
      BY OneEntry DEF LocalEngine
    <3>2. status[j] \in {"absent", "queued"}
      BY <1>1, <2>2, <3>1 DEF HashInv, StatusFollows
    <3>3. QED
      BY <3>2 DEF Verdict, Terminal
  <2>7. Service!GiveUp(j)
    BY <1>3, <1>5, <2>1, <2>4, <2>5, <2>6 DEF Service!GiveUp, Verdict
  <2>8. QED
    BY <2>7 DEF Service!Next
<1>10. CASE EnqueueJob(j)
  <2>1. /\ api[j] = "listed" /\ api'[j] = "enqueued" /\ UNCHANGED <<holders, reservedOn>>
        /\ queue' = [queue EXCEPT ![<<j, 0>>] = "waiting"]
    BY <1>1, <1>10 DEF EnqueueJob, Goto, Add, Move, storeVars, TypeOK, ApiTypeOK
  <2>2. j \in holders
    BY <1>1, <2>1 DEF AdmissionInv, Admission, Admitted, HandlerHasSlot
  <2>3. \A k \in Jobs : k # j => queue'[<<k, 0>>] = queue[<<k, 0>>]
    <3>1. MaxReplays = 0
      BY DEF LocalEngine
    <3>2. \A k \in Jobs : <<k, 0>> \in Entries
      BY <3>1, OneEntry
    <3>3. QED
      BY <1>1, <2>1, <3>2, QueueUpdate
  <2>4. \A k \in Jobs : SamePhase(k)
    BY <1>4, <2>1, <2>2, <2>3 DEF SamePhase
  <2>5. QED
    BY <1>2, <1>5, <2>1, <2>4, Stutters
<1>11. CASE ~(ReserveQuota(j) \/ RejectSubmission(j) \/ RollbackReservedQuota(j) \/ EnqueueJob(j))
  <2>1. UNCHANGED <<queue, holders, reservedOn>>
    BY <1>11
       DEF SubmissionStep, ContinueSubmission, WriteJobHash, AppendHistoryItem, AcceptSubmission,
           DeleteJobHash, DropHistoryItem, FailSubmission, SubmissionThrows, HandlerThrows,
           ApiCrash, queueVars, storeVars
  <2>2. api[j] # "idle" /\ api'[j] # "idle"
    <3>1. \E from, to \in ApiStates \ {"idle"} : Goto(j, from, to)
      BY <1>11
         DEF SubmissionStep, ContinueSubmission, WriteJobHash, AppendHistoryItem, AcceptSubmission,
             DeleteJobHash, DropHistoryItem, FailSubmission, SubmissionThrows, HandlerThrows,
             ApiCrash, ApiStates
    <3>2. QED
      BY <1>1, <3>1 DEF Goto, TypeOK, ApiTypeOK
  <2>3. \A k \in Jobs : SamePhase(k)
    BY <1>4, <2>1, <2>2 DEF SamePhase
  <2>4. QED
    BY <1>2, <1>5, <2>1, <2>3, Stutters
<1>12. QED
  BY <1>7, <1>8, <1>9, <1>10, <1>11

LEMMA StepRefines ==
  ASSUME LocalEngine, OneWorker, Faults \subseteq HarmlessFaults, ServiceInv, [Next]_vars
  PROVE  [Service!Next]_(Service!serviceVars)
<1>1. CASE \E j \in Jobs : SubmissionStep(j)
  BY <1>1, HandlerRefines
<1>2. CASE ~\E j \in Jobs : SubmissionStep(j)
  <2>1. UNCHANGED <<api, reservedOn>>
    BY <1>2, OthersKeepApi
  <2>2. TypeOK /\ \A j \in Jobs : <<j, 0>> \in Entries /\ <<j, 0>>[2] = 0
    BY OneEntry
       DEF LocalEngine, ServiceInv, HashInv, EngineInv, AdmissionInv, LineageInv, AttemptInv, TypeInv
  <2>3. \A j \in Jobs : (queue'[<<j, 0>>] = "none") <=> (queue[<<j, 0>>] = "none")
    <3>1. \A j \in Jobs : ~EnqueueJob(j)
      BY <1>2 DEF SubmissionStep, ContinueSubmission
    <3>2. ASSUME NEW j \in Jobs
          PROVE  (queue'[<<j, 0>>] = "none") <=> (queue[<<j, 0>>] = "none")
      <4>1. <<j, 0>> \in Entries /\ <<j, 0>>[2] = 0
        BY <2>2
      <4>2. QED
        BY <2>2, <3>1, <4>1, QueueGrows
    <3>3. QED
      BY <3>2
  <2>4. /\ UNCHANGED holders \/ UNCHANGED status
        /\ UNCHANGED day \/ (Midnight /\ UNCHANGED <<holders, status>>)
    BY <1>2, HashOrSlot
  <2>5. CASE UNCHANGED holders
    <3>1. \A j \in Jobs : SamePhase(j)
      BY <2>1, <2>3, <2>5 DEF SamePhase
    <3>2. [j \in Jobs |-> ServicePhase(j)]' = [j \in Jobs |-> ServicePhase(j)]
      BY <3>1, SamePhaseKept
    <3>3. CASE \A j \in Jobs : Verdict(j)' = Verdict(j)
      <4>1. CASE UNCHANGED day
        BY <2>1, <3>1, <3>3, <4>1, Stutters
      <4>2. CASE Midnight
        <5>1. day < LastDay /\ day' = day + 1
          BY <4>2 DEF Midnight
        <5>2. [j \in Jobs |-> Verdict(j)]' = [j \in Jobs |-> Verdict(j)]
          BY <3>3
        <5>3. Service!NextDay
          BY <2>1, <3>2, <5>1, <5>2 DEF Service!NextDay, Verdict
        <5>4. QED
          BY <5>3 DEF Service!Next
      <4>3. QED
        BY <2>4, <4>1, <4>2
    <3>4. ASSUME NEW j \in Jobs, Verdict(j)' # Verdict(j)
          PROVE  Service!Next
      <4>1. /\ Verdict(j) = "none" /\ Verdict(j)' \in Terminal /\ j \in holders
            /\ \A k \in Jobs : k # j => Verdict(k)' = Verdict(k)
            /\ ~UNCHANGED status
        BY <3>4, VerdictPassed
      <4>2. UNCHANGED day
        BY <2>4, <4>1
      <4>3. [k \in Jobs |-> Verdict(k)]' = [[k \in Jobs |-> Verdict(k)] EXCEPT ![j] = Verdict(j)']
        BY <4>1
      <4>4. ServicePhase(j) = "holding"
        BY <4>1, PhaseOf
      <4>5. Service!Decide(j)
        BY <2>1, <3>2, <4>1, <4>2, <4>3, <4>4
           DEF Service!Decide, Service!Verdicts, Verdict, Terminal
      <4>6. QED
        BY <4>5 DEF Service!Next
    <3>5. QED
      BY <3>3, <3>4
  <2>6. CASE ~UNCHANGED holders
    <3>1. UNCHANGED <<status, day>>
      BY <2>4, <2>6
    <3>2. PICK j \in Jobs : Releases(j)
      <4>1. \A k \in Jobs : ~Reserves(k)
        BY <2>1 DEF Reserves
      <4>2. QED
        BY <2>2, <2>6, <4>1, StepsOnQuota DEF QuotaStep
    <3>3. holders' = holders \ {j} /\ AboutToRelease(j)
      BY <2>1, <3>2 DEF Releases, ReleaseSlot
    <3>4. Verdict(j) # "none" /\ j \in holders /\ queue[<<j, 0>>] # "none"
      BY <3>3, ReleasedAfterVerdict
    <3>5. api[j] # "idle"
      BY <3>4 DEF ServiceInv, HashInv, EngineInv, AdmissionInv, Admission, Admitted
    <3>6. ServicePhase(j) = "holding" /\ ServicePhase(j)' = "settled"
      BY <2>1, <2>3, <3>3, <3>4, <3>5 DEF ServicePhase
    <3>7. \A k \in Jobs : k # j => SamePhase(k)
      BY <2>1, <2>3, <3>3 DEF SamePhase
    <3>8. [k \in Jobs |-> ServicePhase(k)]' = [[k \in Jobs |-> ServicePhase(k)] EXCEPT ![j] = "settled"]
      BY <3>6, <3>7, PhaseChange
    <3>9. [k \in Jobs |-> Verdict(k)]' = [k \in Jobs |-> Verdict(k)]
      BY <3>1 DEF Verdict
    <3>10. Service!Settle(j)
      BY <2>1, <3>1, <3>4, <3>6, <3>8, <3>9 DEF Service!Settle, Verdict
    <3>11. QED
      BY <3>10 DEF Service!Next
  <2>7. QED
    BY <2>5, <2>6
<1>3. QED
  BY <1>1, <1>2

\* With one worker process the "local" engine implements the service its tenants
\* are promised, whatever the API does: submissions are refused at a limit only,
\* slots are held from admission to verdict, and verdicts are final.
THEOREM EngineImplementsService ==
  ASSUME Backend = "local", MaxReplays = 0, Faults \subseteq HarmlessFaults, OneWorker
  PROVE  Spec => ImplementsService
<1>1. Init => Service!Init
  <2> SUFFICES ASSUME Init PROVE Service!Init
    OBVIOUS
  <2>1. /\ \A j \in Jobs : api[j] = "idle" /\ j \notin holders /\ status[j] = "absent"
        /\ reservedOn = [j \in Jobs |-> 0] /\ day = 0
    BY DEF Init, StoreInit, ApiInit
  <2>2. \A j \in Jobs : ServicePhase(j) = "new" /\ Verdict(j) = "none"
    BY <2>1, PhaseOf DEF Verdict, Terminal
  <2>3. QED
    BY <2>1, <2>2 DEF Service!Init, Verdict
<1>2. ServiceInv /\ [Next]_vars => ServiceInv'
  BY ServiceInvStep DEF LocalEngine
<1>3. ServiceInv /\ [Next]_vars => [Service!Next]_(Service!serviceVars)
  BY StepRefines DEF LocalEngine
<1>4. QED
  BY <1>1, <1>2, <1>3, ServiceInvInit, PTL DEF Spec, ImplementsService, Service!Spec
=============================================================================
