---------------------------- MODULE CustodyProofs ----------------------------
(***************************************************************************)
(* Who answers for a slot.  First what the submission handler admits and   *)
(* takes back, whatever fails around it: a slot that a handler holds is    *)
(* nobody else's, a job is on the queue exactly once its handler put it    *)
(* there, the daily counter counts the submissions of its day, a refusal   *)
(* leaves nothing, and a slot has an owner while those who release it live. *)
(* Then the active-jobs counter: it is exact, and a tenant's concurrent    *)
(* runs stay within its policy, whatever the API and the killed tasks do,  *)
(* as long as the workers' commands succeed and nothing is replayed.  The  *)
(* argument: the duty to release a slot has one bearer (OneCustodian), so  *)
(* every decrement is for a reservation that is outstanding.  Where workers *)
(* crash, what the counter and the charges may be off by is bounded.       *)
(***************************************************************************)
EXTENDS JobLifecycleProofs

(***************************************************************************)
(* Admission.                                                              *)
(***************************************************************************)

\* The handler and its reservation, the handler and the queue.
Admitted(j) ==
  /\ HandlerHasSlot(j) => j \in holders
  /\ api[j] \in {"idle", "rejected", "rolledBack", "deleted", "unavailable"} => j \notin holders
  /\ api[j] \in {"idle", "rejected", "reserved", "hashed", "listed", "failing",
                 "rolledBack", "deleted", "unavailable"} => queue[<<j, 0>>] = "none"
  /\ api[j] \in {"enqueued", "accepted"} => queue[<<j, 0>>] # "none"

Admission == \A j \in Jobs : Admitted(j)

AdmissionInv == LineageInv /\ Admission

LEMMA AdmissionInit == Init => AdmissionInv
<1> SUFFICES ASSUME Init PROVE Admission
  BY LineageInit DEF AdmissionInv
<1>1. \A j \in Jobs : api[j] = "idle" /\ j \notin holders /\ queue[<<j, 0>>] = "none"
  BY EntriesShape DEF Init, StoreInit, ApiInit, QueueInit
<1>2. QED
  BY <1>1 DEF Admission, Admitted, HandlerHasSlot

\* Whatever works on a job works on one that its handler put on the queue.
LEMMA WorkWasQueued ==
  ASSUME LineageInv
  PROVE  /\ \A e \in Entries : queue[e] # "none" \/ proc[e] # "idle" => queue[<<JobOf(e), 0>>] # "none"
         /\ \A f \in Failures : handler[f] # "none" => queue[<<JobOf(f[1]), 0>>] # "none"
         /\ \A a \in TaskIds : task[a] # "none" => queue[<<TaskJob(a), 0>>] # "none"
<1> USE EntriesShape DEF LineageInv, AttemptInv
<1>1. ASSUME NEW e \in Entries, queue[e] # "none"
      PROVE  queue[<<JobOf(e), 0>>] # "none"
  <2>1. e = <<JobOf(e), e[2]>> /\ e[2] \in 0 .. MaxReplays /\ JobOf(e) \in Jobs
    BY <1>1 DEF Entries, JobOf
  <2>2. QED
    BY <1>1, <2>1, BoundsAssumption DEF Lineage
<1>2. \A e \in Entries : proc[e] # "idle" => queue[e] # "none"
  BY DEF AttemptsCounted
<1>3. \A f \in Failures : handler[f] # "none" => queue[f[1]] # "none"
  BY AttemptsAssumption DEF ListenersCounted, AttemptsCounted
<1>4. ASSUME NEW a \in TaskIds, task[a] # "none" PROVE queue[a[1]] # "none"
  <2>1. a[2] <= starts[a[1]] /\ a[2] \in 1 .. Attempts + MaxStalls
    BY <1>4 DEF TasksCounted, TaskIds
  <2>2. QED
    BY <2>1, AttemptsAssumption, BoundsAssumption DEF AttemptsCounted
<1>5. QED
  BY <1>1, <1>2, <1>3, <1>4 DEF TaskJob

\* Only a job that was queued is released by anyone but its handler.
LEMMA ReleasedWasQueued ==
  ASSUME LineageInv, NEW j \in Jobs, AboutToRelease(j)
  PROVE  queue[<<j, 0>>] # "none"
BY WorkWasQueued DEF AboutToRelease

\* The API's handlers are the only ones to change where a submission is.
LEMMA OthersKeepApi ==
  ASSUME [Next]_vars, ~\E j \in Jobs : SubmissionStep(j)
  PROVE  UNCHANGED <<api, reservedOn, daily, history>>
<1>1. ASSUME NEW e \in Entries, ProcessorStep(e) PROVE UNCHANGED <<api, reservedOn, daily, history>>
  BY <1>1
     DEF ProcessorStep, MarkRunning, ExecuteLocalRunner, RecordResult, IncrementDailyCost,
         DecrementActiveQuota, DispatchEcsRunner, MarkDispatched, FinishAttempt, AttemptThrows,
         DispatchAnswerLost, storeVars, apiVars
<1>2. ASSUME NEW f \in Failures, HandlerStep(f) PROVE UNCHANGED <<api, reservedOn, daily, history>>
  BY <1>2
     DEF HandlerStep, MarkRetrying, MarkFailed, ReleaseFailed, CopyToDlq, MarkDeadLettered,
         storeVars, apiVars
<1>3. ASSUME NEW a \in TaskIds, RunTask(a) \/ BreakTask(a)
      PROVE  UNCHANGED <<api, reservedOn, daily, history>>
  BY <1>3
     DEF RunTask, BreakTask, ExecuteUserCode, RecordTaskResult, ChargeTask, ReleaseTaskSlot,
         ExitTask, EnterFallback, FallbackThrows, KillTask, storeVars, apiVars
<1>4. ASSUME NEW p \in Replayers, ReplayStep(p) PROVE UNCHANGED <<api, reservedOn, daily, history>>
  BY <1>4
     DEF ReplayStep, FetchJobs, AddReplay, RemoveDeadLetter, SkipDeadLetter, FinishReplay,
         ReplayCrash, storeVars, apiVars
<1>5. ASSUME \/ \E w \in Workers, e \in Entries : TakeJob(w, e)
             \/ \E e \in Entries : PromoteDelayed(e)
             \/ \E w \in Workers : WorkerCrash(w)
             \/ Midnight
             \/ UNCHANGED vars
      PROVE  UNCHANGED <<api, reservedOn, daily, history>>
  BY <1>5 DEF TakeJob, PromoteDelayed, WorkerCrash, Midnight, vars, storeVars, apiVars
<1>6. QED
  BY <1>1, <1>2, <1>3, <1>4, <1>5
     DEF Next, Submissions, SubmissionNext, Fetches, Processors, Listeners, Backoffs, Crashes,
         Tasks, BrokenTasks, Replays

\* A handler's step, as the quota, the queue and the other submissions see it.
LEMMA HandlerMoves ==
  ASSUME TypeOK, NEW j \in Jobs, SubmissionStep(j)
  PROVE  /\ \A k \in Jobs : k # j => api'[k] = api[k]
         /\ \/ ReserveQuota(j) /\ api[j] = "idle" /\ api'[j] = "reserved"
            \/ EnqueueJob(j) /\ api[j] = "listed" /\ api'[j] = "enqueued"
            \/ RollbackReservedQuota(j) /\ api[j] = "failing" /\ api'[j] = "rolledBack"
            \/ /\ UNCHANGED <<queueVars, holders, active, daily, reservedOn>>
               /\ \/ api[j] = "idle" /\ api'[j] = "rejected"
                  \/ api[j] = "reserved" /\ api'[j] = "hashed"
                  \/ api[j] = "hashed" /\ api'[j] = "listed"
                  \/ api[j] \in {"reserved", "hashed", "listed"} /\ api'[j] = "failing"
                  \/ api[j] = "enqueued" /\ api'[j] = "accepted"
                  \/ api[j] = "rolledBack" /\ api'[j] = "deleted"
                  \/ api[j] = "deleted" /\ api'[j] = "unavailable"
                  \/ api'[j] \in {"error", "crashed"}
<1>1. ASSUME NEW from, NEW to \in ApiStates, Goto(j, from, to)
      PROVE  api[j] = from /\ api'[j] = to /\ \A k \in Jobs : k # j => api'[k] = api[k]
  BY <1>1 DEF Goto, TypeOK, ApiTypeOK
<1>2. CASE ReserveQuota(j)
  BY <1>1, <1>2 DEF ReserveQuota, ApiStates
<1>3. CASE EnqueueJob(j)
  BY <1>1, <1>3 DEF EnqueueJob, ApiStates
<1>4. CASE RollbackReservedQuota(j)
  BY <1>1, <1>4 DEF RollbackReservedQuota, ApiStates
<1>5. CASE RejectSubmission(j) \/ AcceptSubmission(j)
  BY <1>1, <1>5 DEF RejectSubmission, AcceptSubmission, ApiStates, storeVars
<1>6. CASE WriteJobHash(j) \/ AppendHistoryItem(j)
  BY <1>1, <1>6 DEF WriteJobHash, AppendHistoryItem, ApiStates
<1>7. CASE DeleteJobHash(j) \/ DropHistoryItem(j)
  BY <1>1, <1>7 DEF DeleteJobHash, DropHistoryItem, ApiStates
<1>8. CASE FailSubmission(j)
  BY <1>1, <1>8 DEF FailSubmission, SubmissionThrows, HandlerThrows, ApiCrash, ApiStates, storeVars
<1>9. QED
  BY <1>2, <1>3, <1>4, <1>5, <1>6, <1>7, <1>8 DEF SubmissionStep, ContinueSubmission

\* No step takes a submission out of this order, whatever is known of the others.
LEMMA AdmittedStep ==
  ASSUME LineageInv, [Next]_vars, NEW i \in Jobs, Admitted(i)
  PROVE  Admitted(i)'
<1>1. TypeOK
  BY DEF LineageInv, AttemptInv, TypeInv
<1>2. \A j \in Jobs : <<j, 0>> \in Entries /\ <<j, 0>>[2] = 0
  BY EntriesShape
<1>3. ASSUME NEW j \in Jobs, SubmissionStep(j)
      PROVE  Admitted(i)'
  <2>1. CASE ReserveQuota(j)
    <3>1. holders' = holders \cup {j} /\ UNCHANGED queue
      BY <2>1 DEF ReserveQuota, ReserveSlot, queueVars
    <3>2. api[j] = "idle" /\ api'[j] = "reserved" /\ \A k \in Jobs : k # j => api'[k] = api[k]
      BY <1>1, <2>1 DEF ReserveQuota, Goto, TypeOK, ApiTypeOK
    <3>3. QED
      BY <3>1, <3>2 DEF Admitted, HandlerHasSlot
  <2>2. CASE EnqueueJob(j)
    <3>1. queue' = [queue EXCEPT ![<<j, 0>>] = "waiting"] /\ UNCHANGED holders
      BY <2>2 DEF EnqueueJob, Add, Move, storeVars
    <3>2. api[j] = "listed" /\ api'[j] = "enqueued" /\ \A k \in Jobs : k # j => api'[k] = api[k]
      BY <1>1, <2>2 DEF EnqueueJob, Goto, TypeOK, ApiTypeOK
    <3>3. \A k \in Jobs : IF k = j THEN queue'[<<k, 0>>] = "waiting"
                                   ELSE queue'[<<k, 0>>] = queue[<<k, 0>>]
      BY <1>1, <1>2, <3>1 DEF TypeOK, QueueTypeOK
    <3>4. QED
      BY <3>1, <3>2, <3>3 DEF Admitted, HandlerHasSlot
  <2>3. CASE RollbackReservedQuota(j)
    <3>1. holders' = holders \ {j} /\ UNCHANGED queue
      BY <2>3 DEF RollbackReservedQuota, RollbackSlot, queueVars
    <3>2. api[j] = "failing" /\ api'[j] = "rolledBack" /\ \A k \in Jobs : k # j => api'[k] = api[k]
      BY <1>1, <2>3 DEF RollbackReservedQuota, Goto, TypeOK, ApiTypeOK
    <3>3. QED
      BY <3>1, <3>2 DEF Admitted, HandlerHasSlot
  <2>4. CASE ~ReserveQuota(j) /\ ~EnqueueJob(j) /\ ~RollbackReservedQuota(j)
    BY <1>1, <1>3, <2>4, HandlerMoves DEF Admitted, HandlerHasSlot, queueVars
  <2>5. QED
    BY <2>1, <2>2, <2>3, <2>4
<1>4. CASE ~\E j \in Jobs : SubmissionStep(j)
  <2>1. UNCHANGED api
    BY <1>4, OthersKeepApi
  <2>2. (queue'[<<i, 0>>] = "none") <=> (queue[<<i, 0>>] = "none")
    <3>1. \A j \in Jobs : ~EnqueueJob(j)
      BY <1>4 DEF SubmissionStep, ContinueSubmission
    <3>2. QED
      BY <1>1, <1>2, <3>1, QueueGrows
  <2>3. /\ holders' \subseteq holders
        /\ i \in holders /\ i \notin holders' => queue[<<i, 0>>] # "none"
    <3>1. QuotaStep
      BY <1>1, StepsOnQuota
    <3>2. \A j \in Jobs : ~Reserves(j)
      BY <2>1 DEF Reserves
    <3>3. CASE UNCHANGED holders
      BY <3>3
    <3>4. ASSUME NEW k \in Jobs, Releases(k)
          PROVE  holders' = holders \ {k} /\ queue[<<k, 0>>] # "none"
      BY <1>1, <2>1, <3>4, ReleasedWasQueued DEF Releases, ReleaseSlot
    <3>5. QED
      BY <3>1, <3>2, <3>3, <3>4 DEF QuotaStep
  <2>4. QED
    BY <2>1, <2>2, <2>3 DEF Admitted, HandlerHasSlot
<1>5. QED
  BY <1>3, <1>4

LEMMA AdmissionStep == AdmissionInv /\ [Next]_vars => AdmissionInv'
<1> SUFFICES ASSUME AdmissionInv, [Next]_vars PROVE AdmissionInv'
  OBVIOUS
<1>1. LineageInv' /\ LineageInv
  BY LineageStep DEF AdmissionInv
<1>2. \A j \in Jobs : Admitted(j)'
  BY <1>1, AdmittedStep DEF AdmissionInv, Admission
<1>3. QED
  BY <1>1, <1>2 DEF AdmissionInv, Admission

(***************************************************************************)
(* The daily counter.                                                      *)
(***************************************************************************)

\* The submission of j counts for some day.
Counts(j) == j \in holders \/ queue[<<j, 0>>] # "none"

CountedOn(t, d) == {j \in Jobs : Owner[j] = t /\ CountsFor(j, d)}

\* A step reserves, takes a reservation back, or changes no submission's day.
LEMMA DaysKept ==
  ASSUME AdmissionInv, [Next]_vars
  PROVE  \/ \E j \in Jobs : ReserveQuota(j) \/ RollbackReservedQuota(j)
         \/ UNCHANGED <<daily, reservedOn>> /\ \A j \in Jobs : Counts(j)' <=> Counts(j)
<1>1. TypeOK /\ LineageInv
  BY DEF AdmissionInv, LineageInv, AttemptInv, TypeInv
<1>2. \A j \in Jobs : <<j, 0>> \in Entries /\ <<j, 0>>[2] = 0
  BY EntriesShape
<1>3. ASSUME NEW j \in Jobs, SubmissionStep(j), ~ReserveQuota(j), ~RollbackReservedQuota(j)
      PROVE  UNCHANGED <<daily, reservedOn>> /\ \A k \in Jobs : Counts(k)' <=> Counts(k)
  <2>1. CASE EnqueueJob(j)
    <3>1. UNCHANGED <<daily, reservedOn, holders>> /\ queue' = [queue EXCEPT ![<<j, 0>>] = "waiting"]
      BY <2>1 DEF EnqueueJob, Add, Move, storeVars
    <3>2. api[j] = "listed"
      BY <2>1 DEF EnqueueJob, Goto
    <3>3. j \in holders
      BY <3>2 DEF AdmissionInv, Admission, Admitted, HandlerHasSlot
    <3>4. \A k \in Jobs : k # j => queue'[<<k, 0>>] = queue[<<k, 0>>]
      BY <1>1, <1>2, <3>1 DEF TypeOK, QueueTypeOK
    <3>5. QED
      BY <3>1, <3>3, <3>4 DEF Counts
  <2>2. CASE ~EnqueueJob(j)
    BY <1>1, <1>3, <2>2, HandlerMoves DEF Counts, queueVars
  <2>3. QED
    BY <2>1, <2>2
<1>4. CASE ~\E j \in Jobs : SubmissionStep(j)
  <2>1. UNCHANGED <<api, daily, reservedOn>>
    BY <1>4, OthersKeepApi
  <2>2. \A j \in Jobs : (queue'[<<j, 0>>] = "none") <=> (queue[<<j, 0>>] = "none")
    <3>1. \A j \in Jobs : ~EnqueueJob(j)
      BY <1>4 DEF SubmissionStep, ContinueSubmission
    <3>2. QED
      BY <1>1, <1>2, <3>1, QueueGrows
  <2>3. ASSUME NEW j \in Jobs PROVE Counts(j)' <=> Counts(j)
    <3>1. QuotaStep /\ ~\E k \in Jobs : Reserves(k)
      BY <1>1, <2>1, StepsOnQuota DEF Reserves
    <3>2. CASE UNCHANGED holders
      BY <2>2, <3>2 DEF Counts
    <3>3. ASSUME NEW k \in Jobs, Releases(k)
          PROVE  holders' = holders \ {k} /\ queue[<<k, 0>>] # "none"
      BY <1>1, <2>1, <3>3, ReleasedWasQueued DEF Releases, ReleaseSlot
    <3>4. CASE \E k \in Jobs : holders' = holders \ {k} /\ queue[<<k, 0>>] # "none"
      BY <2>2, <3>4 DEF Counts
    <3>5. QED
      BY <3>1, <3>2, <3>3, <3>4 DEF QuotaStep
  <2>4. QED
    BY <2>1, <2>3
<1>5. QED
  BY <1>3, <1>4

DailyInv ==
  /\ AdmissionInv
  /\ IsFiniteSet({j \in Jobs : Counts(j)})
  /\ DailyExact

LEMMA CountedOnFinite ==
  ASSUME IsFiniteSet({j \in Jobs : Counts(j)}), NEW t, NEW d
  PROVE  IsFiniteSet(CountedOn(t, d)) /\ Cardinality(CountedOn(t, d)) \in Nat
<1>1. CountedOn(t, d) \subseteq {j \in Jobs : Counts(j)}
  BY DEF CountedOn, CountsFor, Counts
<1>2. QED
  BY <1>1, FS_Subset, FS_CardinalityType

LEMMA DailyInit == Init => DailyInv
<1> SUFFICES ASSUME Init PROVE DailyInv
  OBVIOUS
<1>1. {j \in Jobs : Counts(j)} = {}
  BY EntriesShape DEF Counts, Init, StoreInit, QueueInit
<1>2. \A t \in Tenants, d \in Days : CountedOn(t, d) = {} /\ daily[t][d] = 0
  BY <1>1 DEF CountedOn, CountsFor, Counts, Init, StoreInit
<1>3. QED
  BY <1>1, <1>2, AdmissionInit, FS_EmptySet DEF DailyInv, DailyExact, CountedOn

LEMMA DailyReserved ==
  ASSUME DailyInv, NEW j \in Jobs, ReserveQuota(j)
  PROVE  IsFiniteSet({k \in Jobs : Counts(k)}') /\ DailyExact'
<1>1. TypeOK /\ Owner[j] \in Tenants /\ day \in Days
  BY EntriesShape DEF DailyInv, AdmissionInv, LineageInv, AttemptInv, TypeInv, TypeOK, ApiTypeOK
<1>2. /\ holders' = holders \cup {j}
      /\ daily' = [daily EXCEPT ![Owner[j]][day] = @ + 1]
      /\ reservedOn' = [reservedOn EXCEPT ![j] = day]
      /\ UNCHANGED queue
  BY DEF ReserveQuota, ReserveSlot, queueVars
<1>3. ~Counts(j)
  <2>1. api[j] = "idle"
    BY DEF ReserveQuota, Goto
  <2>2. QED
    BY <2>1 DEF DailyInv, AdmissionInv, Admission, Admitted, Counts
<1>4. Counts(j)' /\ reservedOn'[j] = day
      /\ \A k \in Jobs : k # j => (Counts(k)' <=> Counts(k)) /\ reservedOn'[k] = reservedOn[k]
  BY <1>1, <1>2 DEF Counts, TypeOK, ApiTypeOK
<1>5. IsFiniteSet({k \in Jobs : Counts(k)}')
  <2>1. {k \in Jobs : Counts(k)}' = {k \in Jobs : Counts(k)} \cup {j}
    BY <1>4
  <2>2. QED
    BY <2>1, FS_AddElement DEF DailyInv
<1>6. ASSUME NEW t \in Tenants, NEW d \in Days
      PROVE  daily'[t][d] = Cardinality(CountedOn(t, d)')
  <2>1. daily[t][d] = Cardinality(CountedOn(t, d)) /\ IsFiniteSet(CountedOn(t, d))
    BY CountedOnFinite DEF DailyInv, DailyExact, CountedOn
  <2>2. CASE t = Owner[j] /\ d = day
    <3>1. CountedOn(t, d)' = CountedOn(t, d) \cup {j} /\ j \notin CountedOn(t, d)
      BY <1>3, <1>4, <2>2 DEF CountedOn, CountsFor, Counts
    <3>2. Cardinality(CountedOn(t, d)') = Cardinality(CountedOn(t, d)) + 1
      BY <2>1, <3>1, FS_AddElement
    <3>3. daily'[t][d] = daily[t][d] + 1
      BY <1>1, <1>2, <2>2 DEF TypeOK, StoreTypeOK
    <3>4. QED
      BY <2>1, <3>2, <3>3
  <2>3. CASE ~(t = Owner[j] /\ d = day)
    <3>1. CountedOn(t, d)' = CountedOn(t, d)
      BY <1>3, <1>4, <2>3 DEF CountedOn, CountsFor, Counts
    <3>2. daily'[t][d] = daily[t][d]
      BY <1>1, <1>2, <2>3 DEF TypeOK, StoreTypeOK
    <3>3. QED
      BY <2>1, <3>1, <3>2
  <2>4. QED
    BY <2>2, <2>3
<1>7. QED
  BY <1>5, <1>6 DEF DailyExact, CountedOn

LEMMA DailyRolledBack ==
  ASSUME DailyInv, NEW j \in Jobs, RollbackReservedQuota(j)
  PROVE  IsFiniteSet({k \in Jobs : Counts(k)}') /\ DailyExact'
<1> DEFINE r == reservedOn[j]
<1>1. TypeOK /\ Owner[j] \in Tenants /\ r \in Days
  BY EntriesShape DEF DailyInv, AdmissionInv, LineageInv, AttemptInv, TypeInv, TypeOK, ApiTypeOK
<1>2. /\ holders' = holders \ {j}
      /\ daily' = [daily EXCEPT ![Owner[j]][r] = FlooredDecr(@)]
      /\ UNCHANGED <<queue, reservedOn>>
  BY DEF RollbackReservedQuota, RollbackSlot, queueVars
<1>3. j \in holders /\ queue[<<j, 0>>] = "none"
  <2>1. api[j] = "failing"
    BY DEF RollbackReservedQuota, Goto
  <2>2. QED
    BY <2>1 DEF DailyInv, AdmissionInv, Admission, Admitted, HandlerHasSlot
<1>4. Counts(j) /\ ~Counts(j)' /\ \A k \in Jobs : k # j => (Counts(k)' <=> Counts(k))
  BY <1>2, <1>3 DEF Counts
<1>5. IsFiniteSet({k \in Jobs : Counts(k)}')
  <2>1. {k \in Jobs : Counts(k)}' \subseteq {k \in Jobs : Counts(k)}
    BY <1>4
  <2>2. QED
    BY <2>1, FS_Subset DEF DailyInv
<1>6. ASSUME NEW t \in Tenants, NEW d \in Days
      PROVE  daily'[t][d] = Cardinality(CountedOn(t, d)')
  <2>1. /\ daily[t][d] = Cardinality(CountedOn(t, d)) /\ IsFiniteSet(CountedOn(t, d))
        /\ Cardinality(CountedOn(t, d)) \in Nat
    <3>1. daily[t][d] = Cardinality(CountedOn(t, d))
      BY DEF DailyInv, DailyExact, CountedOn
    <3>2. QED
      BY <3>1, CountedOnFinite DEF DailyInv
  <2>2. CASE t = Owner[j] /\ d = r
    <3>1. CountedOn(t, d)' = CountedOn(t, d) \ {j} /\ j \in CountedOn(t, d)
      BY <1>2, <1>4, <2>2 DEF CountedOn, CountsFor, Counts
    <3>2. Cardinality(CountedOn(t, d)') = Cardinality(CountedOn(t, d)) - 1
      BY <2>1, <3>1, FS_RemoveElement
    <3>3. Cardinality(CountedOn(t, d)) # 0
      BY <2>1, <3>1, FS_EmptySet
    <3>4. daily'[t][d] = FlooredDecr(daily[t][d])
      BY <1>1, <1>2, <2>2 DEF TypeOK, StoreTypeOK
    <3>5. QED
      BY <2>1, <3>2, <3>3, <3>4 DEF FlooredDecr
  <2>3. CASE ~(t = Owner[j] /\ d = r)
    <3>1. CountedOn(t, d)' = CountedOn(t, d)
      BY <1>2, <1>4, <2>3 DEF CountedOn, CountsFor, Counts
    <3>2. daily'[t][d] = daily[t][d]
      BY <1>1, <1>2, <2>3 DEF TypeOK, StoreTypeOK
    <3>3. QED
      BY <2>1, <3>1, <3>2
  <2>4. QED
    BY <2>2, <2>3
<1>7. QED
  BY <1>5, <1>6 DEF DailyExact, CountedOn

LEMMA DailyStep == DailyInv /\ [Next]_vars => DailyInv'
<1> SUFFICES ASSUME DailyInv, [Next]_vars PROVE DailyInv'
  OBVIOUS
<1>1. AdmissionInv'
  BY AdmissionStep DEF DailyInv
<1>2. ASSUME UNCHANGED <<daily, reservedOn>>, \A j \in Jobs : Counts(j)' <=> Counts(j)
      PROVE  IsFiniteSet({k \in Jobs : Counts(k)}') /\ DailyExact'
  <2>1. {k \in Jobs : Counts(k)}' = {k \in Jobs : Counts(k)}
    BY <1>2
  <2>2. \A t \in Tenants, d \in Days : CountedOn(t, d)' = CountedOn(t, d)
    BY <1>2 DEF CountedOn, CountsFor, Counts
  <2>3. QED
    BY <1>2, <2>1, <2>2 DEF DailyInv, DailyExact, CountedOn
<1>3. IsFiniteSet({k \in Jobs : Counts(k)}') /\ DailyExact'
  BY <1>2, DaysKept, DailyReserved, DailyRolledBack DEF DailyInv
<1>4. QED
  BY <1>1, <1>3 DEF DailyInv

\* Under every fault, crash, redelivery and replay a tenant's daily counter is the
\* number of its submissions of that day that were not rolled back: a rollback
\* after midnight is booked on the day of its reservation, and nothing books twice.
THEOREM DailyExactness == Spec => []DailyExact
<1>1. DailyInv => DailyExact
  BY DEF DailyInv
<1>2. QED
  BY <1>1, DailyInit, DailyStep, PTL DEF Spec

(***************************************************************************)
(* The history of a tenant and what a refusal leaves.                      *)
(***************************************************************************)

Occurs(s, j)    == \E i \in 1 .. Len(s) : s[i] = j
NoDuplicates(s) == \A i, k \in 1 .. Len(s) : s[i] = s[k] => i = k

\* Trimming keeps a suffix.
LEMMA TrimmedSuffix ==
  ASSUME NEW s \in Seq(Jobs)
  PROVE  \E n \in Nat : /\ n <= Len(s) /\ Len(Trimmed(s)) = Len(s) - n
                        /\ \A i \in 1 .. Len(s) - n : Trimmed(s)[i] = s[i + n]
<1>1. CASE Len(s) > HistoryMax
  <2> DEFINE n == Len(s) - HistoryMax
  <2>1. n \in Nat /\ n <= Len(s) /\ n + 1 \in 1 .. Len(s) + 1
    BY <1>1, HistoryAssumption
  <2>2. Trimmed(s) = SubSeq(s, n + 1, Len(s))
    BY <1>1 DEF Trimmed
  <2>3. Len(SubSeq(s, n + 1, Len(s))) = Len(s) - n
    BY <2>1
  <2>4. \A i \in 1 .. Len(s) - n : SubSeq(s, n + 1, Len(s))[i] = s[i + n]
    BY <2>1
  <2>5. QED
    BY <2>1, <2>2, <2>3, <2>4
<1>2. CASE ~(Len(s) > HistoryMax)
  <2>1. Trimmed(s) = s
    BY <1>2 DEF Trimmed
  <2>2. QED
    BY <2>1
<1>3. QED
  BY <1>1, <1>2

LEMMA AppendedOnce ==
  ASSUME NEW s \in Seq(Jobs), NEW j \in Jobs, NoDuplicates(s), ~Occurs(s, j)
  PROVE  /\ NoDuplicates(Trimmed(Append(s, j)))
         /\ \A k \in Jobs : Occurs(Trimmed(Append(s, j)), k) => k = j \/ Occurs(s, k)
<1> DEFINE h == Append(s, j)
<1>1. h \in Seq(Jobs) /\ Len(h) = Len(s) + 1
      /\ \A i \in 1 .. Len(h) : h[i] = IF i = Len(s) + 1 THEN j ELSE s[i]
  OBVIOUS
<1>2. NoDuplicates(h) /\ \A k \in Jobs : Occurs(h, k) => k = j \/ Occurs(s, k)
  BY <1>1 DEF NoDuplicates, Occurs
<1> HIDE DEF h
<1>3. PICK n \in Nat : /\ n <= Len(h) /\ Len(Trimmed(h)) = Len(h) - n
                       /\ \A i \in 1 .. Len(h) - n : Trimmed(h)[i] = h[i + n]
  BY <1>1, TrimmedSuffix
<1>4. \A i \in 1 .. Len(Trimmed(h)) : i + n \in 1 .. Len(h) /\ Trimmed(h)[i] = h[i + n]
  BY <1>1, <1>3
<1>5. NoDuplicates(Trimmed(h))
  BY <1>2, <1>4 DEF NoDuplicates
<1>6. \A k \in Jobs : Occurs(Trimmed(h), k) => Occurs(h, k)
  BY <1>4 DEF Occurs
<1>7. QED
  BY <1>2, <1>5, <1>6 DEF h

\* The items before and after the i-th one, joined.
LEMMA JoinedParts ==
  ASSUME NEW h \in Seq(Jobs), NEW g \in Seq(Jobs), NEW i \in Nat, NEW n \in Nat, 1 <= i, i <= n,
         Len(h) = i - 1, Len(g) = n - i
  PROVE  /\ Len(h \o g) = n - 1
         /\ \A k \in 1 .. n - 1 : (h \o g)[k] = IF k < i THEN h[k] ELSE g[k - (i - 1)]
OBVIOUS

LEMMA DroppedItems ==
  ASSUME NEW s \in Seq(Jobs), NEW i \in 1 .. Len(s)
  PROVE  /\ DropItem(s, i) \in Seq(Jobs) /\ Len(DropItem(s, i)) = Len(s) - 1
         /\ \A k \in 1 .. Len(s) - 1 : DropItem(s, i)[k] = IF k < i THEN s[k] ELSE s[k + 1]
<1> DEFINE h == SubSeq(s, 1, i - 1)
           g == SubSeq(s, i + 1, Len(s))
<1>1. Len(s) \in Nat /\ i \in Nat /\ 1 <= i /\ i <= Len(s)
  OBVIOUS
<1>2. h \in Seq(Jobs) /\ Len(h) = i - 1 /\ \A k \in 1 .. i - 1 : h[k] = s[k]
  OBVIOUS
<1>3. g \in Seq(Jobs) /\ Len(g) = Len(s) - i /\ \A k \in 1 .. Len(s) - i : g[k] = s[i + k]
  OBVIOUS
<1>4. /\ Len(h \o g) = Len(s) - 1
      /\ \A k \in 1 .. Len(s) - 1 : (h \o g)[k] = IF k < i THEN h[k] ELSE g[k - (i - 1)]
  BY <1>1, <1>2, <1>3, JoinedParts
<1>5. ASSUME NEW k \in 1 .. Len(s) - 1
      PROVE  (h \o g)[k] = IF k < i THEN s[k] ELSE s[k + 1]
  <2>1. CASE k < i
    <3>1. (h \o g)[k] = h[k]
      BY <1>4, <2>1
    <3>2. k \in 1 .. i - 1
      BY <1>1, <2>1
    <3>3. QED
      BY <1>2, <2>1, <3>1, <3>2
  <2>2. CASE ~(k < i)
    <3>1. k - (i - 1) \in 1 .. Len(s) - i /\ i + (k - (i - 1)) = k + 1
      BY <1>1, <2>2
    <3>2. (h \o g)[k] = g[k - (i - 1)]
      BY <1>4, <2>2
    <3>3. g[k - (i - 1)] = s[i + (k - (i - 1))]
      BY <1>3, <3>1
    <3>4. QED
      BY <2>2, <3>1, <3>2, <3>3
  <2>3. QED
    BY <2>1, <2>2
<1>6. DropItem(s, i) = h \o g
  BY DEF DropItem
<1>7. QED
  BY <1>4, <1>5, <1>6, DropItemType

LEMMA DroppedOnce ==
  ASSUME NEW s \in Seq(Jobs), NEW i \in 1 .. Len(s), NoDuplicates(s)
  PROVE  /\ NoDuplicates(DropItem(s, i))
         /\ ~Occurs(DropItem(s, i), s[i])
         /\ \A k \in Jobs : Occurs(DropItem(s, i), k) => Occurs(s, k)
<1>1. PICK d \in Seq(Jobs) : /\ d = DropItem(s, i) /\ Len(d) = Len(s) - 1
                             /\ \A k \in 1 .. Len(s) - 1 : d[k] = IF k < i THEN s[k] ELSE s[k + 1]
  BY DroppedItems
<1>2. ASSUME NEW k \in 1 .. Len(d)
      PROVE  \E p \in 1 .. Len(s) : d[k] = s[p] /\ p = (IF k < i THEN k ELSE k + 1)
  <2>1. (IF k < i THEN k ELSE k + 1) \in 1 .. Len(s)
    BY <1>1
  <2>2. QED
    BY <1>1, <2>1
<1>3. NoDuplicates(d)
  <2> SUFFICES ASSUME NEW k \in 1 .. Len(d), NEW l \in 1 .. Len(d), d[k] = d[l]
               PROVE  k = l
    BY DEF NoDuplicates
  <2>1. PICK p \in 1 .. Len(s) : d[k] = s[p] /\ p = (IF k < i THEN k ELSE k + 1)
    BY <1>2
  <2>2. PICK q \in 1 .. Len(s) : d[l] = s[q] /\ q = (IF l < i THEN l ELSE l + 1)
    BY <1>2
  <2>3. p = q
    BY <2>1, <2>2 DEF NoDuplicates
  <2>4. QED
    BY <2>1, <2>2, <2>3
<1>4. ASSUME NEW k \in 1 .. Len(d) PROVE \E p \in 1 .. Len(s) : d[k] = s[p] /\ s[p] # s[i]
  <2>1. PICK p \in 1 .. Len(s) : d[k] = s[p] /\ p = (IF k < i THEN k ELSE k + 1)
    BY <1>2
  <2>2. p # i
    BY <2>1
  <2>3. QED
    BY <2>1, <2>2 DEF NoDuplicates
<1>5. ~Occurs(d, s[i]) /\ \A k \in Jobs : Occurs(d, k) => Occurs(s, k)
  BY <1>4 DEF Occurs
<1>6. QED
  BY <1>1, <1>3, <1>5

\* What a submission that is not queued may have left so far.
Refusals ==
  /\ \A j \in Jobs :
       /\ queue[<<j, 0>>] = "none" => status[j] \in {"absent", "queued"}
       /\ api[j] \in {"idle", "rejected", "reserved", "deleted", "unavailable"} => status[j] = "absent"
       /\ api[j] \in {"idle", "rejected", "reserved", "hashed", "unavailable"} => ~InHistory(j)
  /\ \A t \in Tenants : NoDuplicates(history[t])

RefusalInv == AdmissionInv /\ Refusals

LEMMA RefusalInit == Init => RefusalInv
<1> SUFFICES ASSUME Init PROVE Refusals
  BY AdmissionInit DEF RefusalInv
<1>1. \A j \in Jobs : status[j] = "absent" /\ history[Owner[j]] = << >>
  BY EntriesShape DEF Init, StoreInit
<1>2. \A t \in Tenants : history[t] = << >>
  BY DEF Init, StoreInit
<1>3. QED
  BY <1>1, <1>2 DEF Refusals, InHistory, NoDuplicates

\* Processors, listeners and runners write the hash of queued jobs only.
LEMMA WrittenWasQueued ==
  ASSUME LineageInv, [Next]_vars, ~\E j \in Jobs : SubmissionStep(j),
         NEW j \in Jobs, status'[j] # status[j]
  PROVE  queue[<<j, 0>>] # "none"
<1>1. ASSUME NEW k, NEW s, status' = [status EXCEPT ![k] = s]
      PROVE  k = j
  BY <1>1 DEF LineageInv, AttemptInv, TypeInv, TypeOK, StoreTypeOK
<1>2. ASSUME NEW e \in Entries, ProcessorStep(e)
      PROVE  queue[<<j, 0>>] # "none"
  <2>1. proc[e] # "idle" /\ \E s : status' = [status EXCEPT ![JobOf(e)] = s]
    BY <1>2
       DEF ProcessorStep, MarkRunning, ExecuteLocalRunner, RecordResult, IncrementDailyCost,
           DecrementActiveQuota, DispatchEcsRunner, MarkDispatched, FinishAttempt, AttemptThrows,
           DispatchAnswerLost, Proceed, WriteStatus, storeVars
  <2>2. QED
    BY <1>1, <2>1, WorkWasQueued
<1>3. ASSUME NEW f \in Failures, HandlerStep(f)
      PROVE  queue[<<j, 0>>] # "none"
  <2>1. handler[f] # "none" /\ \E s : status' = [status EXCEPT ![JobOf(f[1])] = s]
    BY <1>3
       DEF HandlerStep, MarkRetrying, MarkFailed, ReleaseFailed, CopyToDlq, MarkDeadLettered,
           Handle, WriteStatus, storeVars
  <2>2. QED
    BY <1>1, <2>1, WorkWasQueued
<1>4. ASSUME NEW a \in TaskIds, RunTask(a) \/ BreakTask(a)
      PROVE  queue[<<j, 0>>] # "none"
  <2>1. task[a] # "none" /\ \E s : status' = [status EXCEPT ![TaskJob(a)] = s]
    BY <1>4
       DEF RunTask, BreakTask, ExecuteUserCode, RecordTaskResult, ChargeTask, ReleaseTaskSlot,
           ExitTask, EnterFallback, FallbackThrows, KillTask, Advance, WriteStatus, storeVars
  <2>2. QED
    BY <1>1, <2>1, WorkWasQueued
<1>5. ~ \/ \E w \in Workers, e \in Entries : TakeJob(w, e)
        \/ \E e \in Entries : PromoteDelayed(e)
        \/ \E w \in Workers : WorkerCrash(w)
        \/ \E p \in Replayers : ReplayStep(p)
        \/ Midnight
        \/ UNCHANGED vars
  BY DEF TakeJob, PromoteDelayed, WorkerCrash, Midnight, ReplayStep, FetchJobs, AddReplay,
         RemoveDeadLetter, SkipDeadLetter, FinishReplay, ReplayCrash, vars, storeVars
<1>6. QED
  BY <1>2, <1>3, <1>4, <1>5
     DEF Next, Submissions, SubmissionNext, Fetches, Processors, Listeners, Backoffs, Crashes,
         Tasks, BrokenTasks, Replays

LEMMA RefusalStep == RefusalInv /\ [Next]_vars => RefusalInv'
<1> SUFFICES ASSUME RefusalInv, [Next]_vars PROVE Refusals'
  BY AdmissionStep DEF RefusalInv
<1>1. /\ TypeOK /\ LineageInv /\ AdmissionInv
      /\ \A j \in Jobs : <<j, 0>> \in Entries /\ Owner[j] \in Tenants
      /\ \A t \in Tenants : history[t] \in Seq(Jobs)
  BY EntriesShape DEF RefusalInv, AdmissionInv, LineageInv, AttemptInv, TypeInv, TypeOK, StoreTypeOK
<1>2. \A j \in Jobs : queue'[<<j, 0>>] = "none" => queue[<<j, 0>>] = "none"
  BY <1>1, QueueGrows
<1>3. ASSUME NEW j \in Jobs, NEW from, NEW to \in ApiStates, Goto(j, from, to)
      PROVE  api[j] = from /\ api'[j] = to /\ \A k \in Jobs : k # j => api'[k] = api[k]
  BY <1>1, <1>3 DEF Goto, TypeOK, ApiTypeOK
<1>4. ASSUME NEW j \in Jobs, NEW from, NEW to \in ApiStates, Goto(j, from, to),
             UNCHANGED <<status, history>>,
             to \in {"rejected", "reserved"} => from = "idle",
             to \notin {"idle", "hashed", "deleted", "unavailable"}
      PROVE  Refusals'
  <2>1. api[j] = from /\ api'[j] = to /\ \A k \in Jobs : k # j => api'[k] = api[k]
    BY <1>3, <1>4
  <2>2. QED
    BY <1>2, <1>4, <2>1 DEF RefusalInv, Refusals, InHistory
<1>5. ASSUME NEW j \in Jobs, WriteJobHash(j) PROVE Refusals'
  <2>1. api[j] = "reserved" /\ api'[j] = "hashed" /\ \A k \in Jobs : k # j => api'[k] = api[k]
    BY <1>3, <1>5 DEF WriteJobHash, ApiStates
  <2>2. /\ status'[j] = "queued" /\ \A k \in Jobs : k # j => status'[k] = status[k]
        /\ UNCHANGED history
    BY <1>1, <1>5 DEF WriteJobHash, WriteStatus, TypeOK, StoreTypeOK
  <2>3. QED
    BY <1>2, <2>1, <2>2 DEF RefusalInv, Refusals, InHistory
<1>6. ASSUME NEW j \in Jobs, DeleteJobHash(j) PROVE Refusals'
  <2>1. api[j] = "rolledBack" /\ api'[j] = "deleted" /\ \A k \in Jobs : k # j => api'[k] = api[k]
    BY <1>3, <1>6 DEF DeleteJobHash, ApiStates
  <2>2. /\ status'[j] = "absent" /\ \A k \in Jobs : k # j => status'[k] = status[k]
        /\ UNCHANGED history
    BY <1>1, <1>6 DEF DeleteJobHash, DeleteHash, TypeOK, StoreTypeOK
  <2>3. QED
    BY <1>2, <2>1, <2>2 DEF RefusalInv, Refusals, InHistory
<1>7. \A k \in Jobs : InHistory(k) <=> Occurs(history[Owner[k]], k)
  BY DEF InHistory, Occurs
<1>8. \A k \in Jobs : InHistory(k)' <=> Occurs(history'[Owner[k]], k)
  BY DEF InHistory, Occurs
<1>9. ASSUME NEW j \in Jobs, AppendHistoryItem(j) PROVE Refusals'
  <2> DEFINE t == Owner[j]
  <2>1. api[j] = "hashed" /\ api'[j] = "listed" /\ \A k \in Jobs : k # j => api'[k] = api[k]
    BY <1>3, <1>9 DEF AppendHistoryItem, ApiStates
  <2>2. /\ history'[t] = Trimmed(Append(history[t], j))
        /\ \A u \in Tenants : u # t => history'[u] = history[u]
        /\ UNCHANGED status
    BY <1>1, <1>9 DEF AppendHistoryItem, AppendHistory, TypeOK, StoreTypeOK
  <2>3. ~Occurs(history[t], j) /\ NoDuplicates(history[t])
    BY <1>1, <1>7, <2>1 DEF RefusalInv, Refusals
  <2>4. /\ NoDuplicates(history'[t])
        /\ \A k \in Jobs : Occurs(history'[t], k) => k = j \/ Occurs(history[t], k)
    <3>1. history[t] \in Seq(Jobs)
      BY <1>1
    <3>2. /\ NoDuplicates(Trimmed(Append(history[t], j)))
          /\ \A k \in Jobs : Occurs(Trimmed(Append(history[t], j)), k) => k = j \/ Occurs(history[t], k)
      BY <2>3, <3>1, AppendedOnce
    <3>3. QED
      BY <2>2, <3>2
  <2>5. \A u \in Tenants : NoDuplicates(history'[u])
    BY <2>2, <2>4 DEF RefusalInv, Refusals
  <2>6. \A k \in Jobs : k # j /\ InHistory(k)' => InHistory(k)
    BY <1>1, <1>7, <1>8, <2>2, <2>4
  <2>7. QED
    BY <1>2, <2>1, <2>2, <2>5, <2>6 DEF RefusalInv, Refusals
<1>10. ASSUME NEW j \in Jobs, DropHistoryItem(j) PROVE Refusals'
  <2> DEFINE t == Owner[j]
             h == history[t]
             i == CHOOSE i \in 1 .. Len(h) : h[i] = j
  <2>1. api[j] = "deleted" /\ api'[j] = "unavailable" /\ \A k \in Jobs : k # j => api'[k] = api[k]
    BY <1>3, <1>10 DEF DropHistoryItem, ApiStates
  <2>2. UNCHANGED status /\ DropHistory(j)
    BY <1>10 DEF DropHistoryItem
  <2>3. NoDuplicates(h)
    BY <1>1 DEF RefusalInv, Refusals
  <2>4. /\ \A u \in Tenants : NoDuplicates(history'[u])
        /\ ~InHistory(j)' /\ \A k \in Jobs : InHistory(k)' => InHistory(k)
    <3>1. CASE InHistory(j)
      <4>1. i \in 1 .. Len(h) /\ h[i] = j
        BY <3>1 DEF InHistory
      <4>2. /\ NoDuplicates(DropItem(h, i)) /\ ~Occurs(DropItem(h, i), j)
            /\ \A k \in Jobs : Occurs(DropItem(h, i), k) => Occurs(h, k)
        BY <1>1, <2>3, <4>1, DroppedOnce
      <4>3. history' = [history EXCEPT ![t] = DropItem(h, i)]
        BY <2>2, <3>1 DEF DropHistory
      <4>4. history'[t] = DropItem(h, i) /\ \A u \in Tenants : u # t => history'[u] = history[u]
        BY <1>1, <4>3 DEF TypeOK, StoreTypeOK
      <4>5. \A u \in Tenants : NoDuplicates(history'[u])
        BY <4>2, <4>4 DEF RefusalInv, Refusals
      <4>6. QED
        BY <1>1, <1>7, <1>8, <4>2, <4>4, <4>5
    <3>2. CASE ~InHistory(j)
      <4>1. UNCHANGED history
        BY <2>2, <3>2 DEF DropHistory
      <4>2. QED
        BY <3>2, <4>1 DEF RefusalInv, Refusals, InHistory
    <3>3. QED
      BY <3>1, <3>2
  <2>5. QED
    BY <1>2, <2>1, <2>2, <2>4 DEF RefusalInv, Refusals
<1>11. ASSUME NEW j \in Jobs, SubmissionStep(j) PROVE Refusals'
  <2>1. CASE RejectSubmission(j) \/ AcceptSubmission(j) \/ EnqueueJob(j)
    BY <1>4, <2>1 DEF RejectSubmission, AcceptSubmission, EnqueueJob, storeVars, ApiStates
  <2>2. CASE ReserveQuota(j) \/ RollbackReservedQuota(j)
    BY <1>4, <2>2 DEF ReserveQuota, RollbackReservedQuota, ApiStates
  <2>3. CASE FailSubmission(j)
    BY <1>4, <2>3 DEF FailSubmission, SubmissionThrows, HandlerThrows, ApiCrash, storeVars, ApiStates
  <2>4. QED
    BY <1>5, <1>6, <1>9, <1>10, <1>11, <2>1, <2>2, <2>3 DEF SubmissionStep, ContinueSubmission
<1>12. CASE ~\E j \in Jobs : SubmissionStep(j)
  <2>1. UNCHANGED <<api, history>>
    BY <1>12, OthersKeepApi
  <2>2. \A j \in Jobs : status'[j] # status[j] => queue[<<j, 0>>] # "none"
    BY <1>1, <1>12, WrittenWasQueued
  <2>3. \A j \in Jobs : InHistory(j)' <=> InHistory(j)
    BY <2>1 DEF InHistory
  <2>4. ASSUME NEW j \in Jobs
        PROVE  api[j] \in {"idle", "rejected", "reserved", "deleted", "unavailable"} => status'[j] = status[j]
    BY <1>1, <2>2 DEF AdmissionInv, Admission, Admitted
  <2>5. QED
    BY <1>2, <2>1, <2>2, <2>3, <2>4 DEF RefusalInv, Refusals
<1>13. QED
  BY <1>11, <1>12

\* A 503 is a clean refusal under every fault of the system: the rollback, the DEL
\* and the ZREM find exactly what the handler had written, no worker ever saw the
\* job, and nothing that runs beside the handler puts any of it back.
THEOREM RefusalIsClean == Spec => []RefusalLeavesNothing
<1>1. RefusalInv => RefusalLeavesNothing
  BY DEF RefusalInv, AdmissionInv, Admission, Admitted, Refusals, RefusalLeavesNothing
<1>2. QED
  BY <1>1, RefusalInit, RefusalStep, PTL DEF Spec

(***************************************************************************)
(* The owners of the slots.                                                *)
(***************************************************************************)

\* Whoever got past its release left no slot behind.
Returned ==
  /\ \A e \in Entries :
       proc[e] = "released" \/ (queue[e] = "completed" /\ Backend = "local") => JobOf(e) \notin holders
  /\ \A f \in Failures :
       handler[f] \in {"released", "copied"} \/ (handler[f] = "done" /\ f[2] = Attempts)
         => JobOf(f[1]) \notin holders
  /\ \A a \in TaskIds : task[a] \in {"released", "done"} => TaskJob(a) \notin holders

LEMMA ReturnedInit == Init => Returned
<1> SUFFICES ASSUME Init PROVE Returned
  OBVIOUS
<1>1. holders = {}
  BY DEF Init, StoreInit
<1>2. QED
  BY <1>1 DEF Returned

\* It stays so if no job that was queued is given a slot again.
LEMMA ReturnedStep ==
  ASSUME LineageInv, Returned, [Next]_vars,
         \A j \in Jobs : j \notin holders /\ queue[<<j, 0>>] # "none" => j \notin holders'
  PROVE  Returned'
<1> USE EntriesShape
<1>1. TypeOK
  BY DEF LineageInv, AttemptInv, TypeInv
<1>3. /\ \A e \in Entries : (queue[e] # "none" \/ proc[e] # "idle") /\ JobOf(e) \notin holders
           => JobOf(e) \notin holders'
      /\ \A f \in Failures : handler[f] # "none" /\ JobOf(f[1]) \notin holders
           => JobOf(f[1]) \notin holders'
      /\ \A a \in TaskIds : task[a] # "none" /\ TaskJob(a) \notin holders
           => TaskJob(a) \notin holders'
  BY WorkWasQueued
<1> DEFINE ReturnedE == \A e \in Entries :
             proc'[e] = "released" \/ (queue'[e] = "completed" /\ Backend = "local")
               => JobOf(e) \notin holders'
           ReturnedF == \A f \in Failures :
             handler'[f] \in {"released", "copied"} \/ (handler'[f] = "done" /\ f[2] = Attempts)
               => JobOf(f[1]) \notin holders'
           ReturnedA == \A a \in TaskIds :
             task'[a] \in {"released", "done"} => TaskJob(a) \notin holders'
<1>4. ASSUME \A e \in Entries : /\ proc'[e] = "released" => proc[e] = "released"
                                /\ queue'[e] = "completed" => queue[e] = "completed"
      PROVE  ReturnedE
  BY <1>3, <1>4 DEF Returned
<1>5. ASSUME \A f \in Failures : handler'[f] \in {handler[f], "notified", "lost"}
      PROVE  ReturnedF
  BY <1>3, <1>5 DEF Returned
<1>6. ASSUME \A a \in TaskIds : task'[a] \in {task[a], "executing"}
      PROVE  ReturnedA
  BY <1>3, <1>6 DEF Returned
<1> HIDE DEF ReturnedE, ReturnedF, ReturnedA
<1>7. ASSUME NEW e \in Entries, ProcessorStep(e) PROVE ReturnedE /\ ReturnedF /\ ReturnedA
  <2>1. /\ UNCHANGED handler \/ NotifyFailure(e)
        /\ UNCHANGED task \/ Launch(<<e, starts[e]>>)
    BY <1>7
       DEF ProcessorStep, MarkRunning, ExecuteLocalRunner, RecordResult, IncrementDailyCost,
           DecrementActiveQuota, DispatchEcsRunner, MarkDispatched, FinishAttempt, AttemptThrows,
           DispatchAnswerLost, taskVars
  <2>2. ReturnedF
    BY <1>1, <1>5, <2>1 DEF NotifyFailure, TypeOK, WorkerTypeOK
  <2>3. ReturnedA
    BY <1>1, <1>6, <2>1 DEF Launch, Advance, TypeOK, TaskTypeOK
  <2>4. CASE DecrementActiveQuota(e)
    <3>1. /\ proc'[e] = "released" /\ \A g \in Entries : g # e => proc'[g] = proc[g]
          /\ UNCHANGED queue /\ JobOf(e) \notin holders'
      BY <1>1, <2>4
         DEF DecrementActiveQuota, Proceed, ReleaseSlot, queueVars, TypeOK, WorkerTypeOK
    <3>2. ReturnedE
      BY <1>3, <3>1 DEF ReturnedE, Returned
    <3>3. QED
      BY <2>2, <2>3, <3>2
  <2>5. CASE FinishAttempt(e)
    <3>1. /\ proc[e] \in {"released", "dispatched"} /\ proc'[e] = "idle" /\ queue'[e] = "completed"
          /\ \A g \in Entries : g # e => proc'[g] = proc[g] /\ queue'[g] = queue[g]
      BY <1>1, <2>5
         DEF FinishAttempt, Proceed, MoveToCompleted, Move, TypeOK, WorkerTypeOK, QueueTypeOK
    <3>2. Backend = "local" => JobOf(e) \notin holders
      BY <1>1, <3>1 DEF LineageInv, AttemptInv, TasksCounted, Returned
    <3>3. ReturnedE
      BY <1>3, <3>1, <3>2 DEF ReturnedE, Returned
    <3>4. QED
      BY <2>2, <2>3, <3>3
  <2>6. CASE ~DecrementActiveQuota(e) /\ ~FinishAttempt(e)
    <3>1. \E to \in ProcStates \ {"released"} : proc' = [proc EXCEPT ![e] = to]
      BY <1>7, <2>6
         DEF ProcessorStep, MarkRunning, ExecuteLocalRunner, RecordResult, IncrementDailyCost,
             DispatchEcsRunner, MarkDispatched, AttemptThrows, DispatchAnswerLost, Proceed, ProcStates
    <3>2. \E to \in QueueStates \ {"completed"} : queue' = [queue EXCEPT ![e] = to] \/ UNCHANGED queue
      BY <1>7, <2>6
         DEF ProcessorStep, MarkRunning, ExecuteLocalRunner, RecordResult, IncrementDailyCost,
             DispatchEcsRunner, MarkDispatched, AttemptThrows, DispatchAnswerLost, NotifyFailure,
             MoveToFailed, Move, AfterFailure, QueueStates, queueVars
    <3>3. ReturnedE
      BY <1>1, <1>4, <3>1, <3>2 DEF TypeOK, WorkerTypeOK, QueueTypeOK
    <3>4. QED
      BY <2>2, <2>3, <3>3
  <2>7. QED
    BY <2>4, <2>5, <2>6
<1>8. ASSUME NEW f \in Failures, HandlerStep(f) PROVE ReturnedE /\ ReturnedF /\ ReturnedA
  <2>1. UNCHANGED <<queue, proc, task>>
    BY <1>8 DEF HandlerStep, MarkRetrying, MarkFailed, ReleaseFailed, CopyToDlq, MarkDeadLettered,
                queueVars, taskVars
  <2>2. PICK to \in HandlerStates :
          /\ handler' = [handler EXCEPT ![f] = to] /\ handler[f] # "none"
          /\ to = "released" => JobOf(f[1]) \notin holders'
          /\ to = "copied" \/ (to = "done" /\ f[2] = Attempts) => handler[f] \in {"released", "copied"}
    BY <1>8, AttemptsAssumption
       DEF HandlerStep, MarkRetrying, MarkFailed, ReleaseFailed, CopyToDlq, MarkDeadLettered,
           Handle, HandlerStates, HasAttemptsLeft, ReleaseSlot
  <2>3. \A g \in Failures : IF g = f THEN handler'[g] = to ELSE handler'[g] = handler[g]
    BY <1>1, <2>2 DEF TypeOK, WorkerTypeOK
  <2>4. ReturnedF
    <3>1. ASSUME NEW g \in Failures, g # f
          PROVE  handler'[g] \in {"released", "copied"} \/ (handler'[g] = "done" /\ g[2] = Attempts)
                   => JobOf(g[1]) \notin holders'
      BY <1>3, <2>3, <3>1 DEF Returned
    <3>2. to \in {"released", "copied"} \/ (to = "done" /\ f[2] = Attempts)
            => JobOf(f[1]) \notin holders'
      <4>1. handler[f] \in {"released", "copied"} => JobOf(f[1]) \notin holders'
        BY <1>3 DEF Returned
      <4>2. QED
        BY <2>2, <4>1
    <3>3. QED
      BY <2>3, <3>1, <3>2 DEF ReturnedF
  <2>5. QED
    BY <1>4, <1>6, <2>1, <2>4
<1>9. ASSUME NEW a \in TaskIds, RunTask(a) \/ BreakTask(a), UNCHANGED <<workerVars, replayVars>>
      PROVE  ReturnedE /\ ReturnedF /\ ReturnedA
  <2>1. UNCHANGED <<queue, proc, handler>>
    BY <1>9 DEF RunTask, BreakTask, ExecuteUserCode, RecordTaskResult, ChargeTask, ReleaseTaskSlot,
                ExitTask, EnterFallback, FallbackThrows, KillTask, queueVars, workerVars
  <2>2. PICK to \in TaskStates :
          /\ task' = [task EXCEPT ![a] = to] /\ task[a] # "none"
          /\ to = "released" => TaskJob(a) \notin holders'
          /\ to = "done" => task[a] = "released"
    BY <1>9 DEF RunTask, BreakTask, ExecuteUserCode, RecordTaskResult, ChargeTask, ReleaseTaskSlot,
                ExitTask, EnterFallback, FallbackThrows, KillTask, Advance, TaskStates, ReleaseSlot
  <2>3. \A b \in TaskIds : IF b = a THEN task'[b] = to ELSE task'[b] = task[b]
    BY <1>1, <2>2 DEF TypeOK, TaskTypeOK
  <2>4. ReturnedA
    BY <1>3, <2>2, <2>3 DEF ReturnedA, Returned
  <2>5. QED
    BY <1>4, <1>5, <2>1, <2>4
<1>10. ASSUME NEW j \in Jobs, SubmissionStep(j), UNCHANGED <<taskVars, workerVars, replayVars>>
       PROVE  ReturnedE /\ ReturnedF /\ ReturnedA
  <2>1. UNCHANGED <<proc, handler, task>>
    BY <1>10 DEF taskVars, workerVars
  <2>2. UNCHANGED queue \/ queue' = [queue EXCEPT ![<<j, 0>>] = "waiting"]
    BY <1>10
       DEF SubmissionStep, RejectSubmission, ReserveQuota, ContinueSubmission, WriteJobHash,
           AppendHistoryItem, EnqueueJob, Add, Move, AcceptSubmission, RollbackReservedQuota,
           DeleteJobHash, DropHistoryItem, FailSubmission, SubmissionThrows, HandlerThrows,
           ApiCrash, queueVars
  <2>3. QED
    BY <1>1, <1>4, <1>5, <1>6, <2>1, <2>2 DEF TypeOK, QueueTypeOK
<1>11. ASSUME \/ \E w \in Workers, e \in Entries : TakeJob(w, e)
              \/ \E e \in Entries : PromoteDelayed(e)
              \/ \E p \in Replayers : ReplayStep(p)
              \/ Midnight /\ UNCHANGED <<taskVars, workerVars, replayVars>>
              \/ UNCHANGED vars
       PROVE  ReturnedE /\ ReturnedF /\ ReturnedA
  <2>1. UNCHANGED <<handler, task>>
    BY <1>11
       DEF TakeJob, PromoteDelayed, ReplayStep, FetchJobs, AddReplay, RemoveDeadLetter,
           SkipDeadLetter, FinishReplay, ReplayCrash, vars, taskVars, workerVars
  <2>2. \/ UNCHANGED proc
        \/ \E e \in Entries : proc' = [proc EXCEPT ![e] = "taken"]
    BY <1>11
       DEF TakeJob, Proceed, PromoteDelayed, ReplayStep, FetchJobs, AddReplay, RemoveDeadLetter,
           SkipDeadLetter, FinishReplay, ReplayCrash, vars, workerVars
  <2>3. \/ UNCHANGED queue
        \/ \E e : queue' = [queue EXCEPT ![e] = "waiting"] \/ queue' = [queue EXCEPT ![e] = "active"]
    BY <1>11
       DEF TakeJob, Take, Move, PromoteDelayed, Promote, Add, ReplayStep, FetchJobs, AddReplay,
           RemoveDeadLetter, SkipDeadLetter, FinishReplay, ReplayCrash, Midnight, vars, queueVars
  <2>4. ReturnedE
    BY <1>1, <1>4, <2>2, <2>3 DEF TypeOK, WorkerTypeOK, QueueTypeOK
  <2>5. QED
    BY <1>5, <1>6, <2>1, <2>4
<1>12. ASSUME NEW w \in Workers, WorkerCrash(w) PROVE ReturnedE /\ ReturnedF /\ ReturnedA
  <2>1. /\ \A e \in Entries : proc'[e] \in {proc[e], "idle"} /\ queue'[e] \in {queue[e], "waiting"}
        /\ \A f \in Failures : handler'[f] \in {handler[f], "lost"}
        /\ UNCHANGED task
    BY <1>12 DEF WorkerCrash, Redeliver, taskVars
  <2>2. QED
    BY <1>4, <1>5, <1>6, <2>1
<1>13. ReturnedE /\ ReturnedF /\ ReturnedA
  BY <1>7, <1>8, <1>9, <1>10, <1>11, <1>12
     DEF Next, Submissions, SubmissionNext, Fetches, Processors, Listeners, Backoffs, Crashes,
         Tasks, BrokenTasks, Replays
<1>14. QED
  BY <1>13 DEF ReturnedE, ReturnedF, ReturnedA, Returned

\* No listener died with its worker and no runner before its release.
NoneLost ==
  /\ \A f \in Failures : handler[f] # "lost"
  /\ \A a \in TaskIds : task[a] # "dead"

LEMMA NoneLostStep ==
  ASSUME {"workerCrash", "taskKilled", "persistError"} \cap Faults = {}, TypeOK, NoneLost, [Next]_vars
  PROVE  NoneLost'
<1> USE EntriesShape
<1>1. ASSUME NEW e \in Entries, ProcessorStep(e) PROVE NoneLost'
  <2>1. /\ UNCHANGED handler \/ NotifyFailure(e)
        /\ UNCHANGED task \/ Launch(<<e, starts[e]>>)
    BY <1>1
       DEF ProcessorStep, MarkRunning, ExecuteLocalRunner, RecordResult, IncrementDailyCost,
           DecrementActiveQuota, DispatchEcsRunner, MarkDispatched, FinishAttempt, AttemptThrows,
           DispatchAnswerLost, taskVars
  <2>2. QED
    BY <2>1 DEF NoneLost, NotifyFailure, Launch, Advance, TypeOK, WorkerTypeOK, TaskTypeOK
<1>2. ASSUME NEW f \in Failures, HandlerStep(f) PROVE NoneLost'
  BY <1>2 DEF HandlerStep, MarkRetrying, MarkFailed, ReleaseFailed, CopyToDlq, MarkDeadLettered,
              Handle, NoneLost, TypeOK, WorkerTypeOK, taskVars
<1>3. ASSUME NEW a \in TaskIds, RunTask(a) \/ BreakTask(a), UNCHANGED <<workerVars, replayVars>>
      PROVE  NoneLost'
  BY <1>3 DEF RunTask, BreakTask, ExecuteUserCode, RecordTaskResult, ChargeTask, ReleaseTaskSlot,
              ExitTask, EnterFallback, FallbackThrows, KillTask, Advance, NoneLost, TypeOK,
              TaskTypeOK, workerVars
<1>4. ASSUME \/ \E w \in Workers, e \in Entries : TakeJob(w, e)
             \/ \E e \in Entries : PromoteDelayed(e)
             \/ \E w \in Workers : WorkerCrash(w)
             \/ \E p \in Replayers : ReplayStep(p)
             \/ UNCHANGED <<taskVars, workerVars, replayVars>>
      PROVE  NoneLost'
  <2>1. UNCHANGED <<handler, task>>
    BY <1>4
       DEF TakeJob, PromoteDelayed, WorkerCrash, ReplayStep, FetchJobs, AddReplay, RemoveDeadLetter,
           SkipDeadLetter, FinishReplay, ReplayCrash, taskVars, workerVars
  <2>2. QED
    BY <2>1 DEF NoneLost
<1>5. QED
  BY <1>1, <1>2, <1>3, <1>4
     DEF Next, Submissions, Fetches, Processors, Listeners, Backoffs, Crashes, Tasks, BrokenTasks,
         Replays, vars

\* A job that was queued and still holds its slot has an entry to come, a last
\* listener or a runner that is to release it, unless one of them died.
LEMMA HeldByOwner ==
  ASSUME LineageInv, Returned, NEW j \in holders, queue[<<j, 0>>] # "none"
  PROVE  \/ \E e \in Entries : JobOf(e) = j /\ (queue[e] \in Pending \/ Listening(e))
         \/ \E f \in Failures : JobOf(f[1]) = j /\ handler[f] = "lost"
         \/ \E a \in TaskIds : TaskJob(a) = j
              /\ task[a] \in {"executing", "computed", "recorded", "charged", "dead"}
<1> DEFINE e == <<j, 0>>
<1>1. TypeOK /\ AttemptInv
  BY DEF LineageInv, AttemptInv, TypeInv
<1>2. j \in Jobs /\ e \in Entries /\ JobOf(e) = j /\ queue[e] \in QueueStates
  BY <1>1, EntriesShape DEF TypeOK, StoreTypeOK, QueueTypeOK, JobOf
<1>3. CASE queue[e] \in Pending
  BY <1>2, <1>3
<1>4. CASE queue[e] = "completed"
  <2>1. Backend = "ecs"
    BY <1>2, <1>4, BackendAssumption DEF Returned
  <2>2. <<e, starts[e]>> \in TaskIds /\ task[<<e, starts[e]>>] # "none"
    BY <1>1, <1>2, <1>4, <2>1, StartHasTask DEF AttemptInv, TasksCounted
  <2>3. TaskJob(<<e, starts[e]>>) = j
    BY <1>2 DEF TaskJob
  <2>4. task[<<e, starts[e]>>] \in {"executing", "computed", "recorded", "charged", "dead"}
    BY <1>1, <2>2, <2>3 DEF Returned, TypeOK, TaskTypeOK, TaskStates
  <2>5. QED
    BY <2>2, <2>3, <2>4
<1>5. CASE queue[e] = "failed"
  <2>1. <<e, Attempts>> \in Failures /\ handler[<<e, Attempts>>] # "none"
    BY <1>1, <1>2, <1>5, AttemptsAssumption
       DEF AttemptInv, AttemptsCounted, ListenersCounted, Failures
  <2>2. handler[<<e, Attempts>>] \in {"notified", "recorded", "lost"}
    BY <1>1, <1>2, <2>1 DEF Returned, TypeOK, WorkerTypeOK, HandlerStates
  <2>3. Listening(e) \/ handler[<<e, Attempts>>] = "lost"
    BY <2>2, AttemptsAssumption DEF Listening, HasAttemptsLeft
  <2>4. QED
    BY <1>2, <2>1, <2>3
<1>6. QED
  BY <1>2, <1>3, <1>4, <1>5 DEF QueueStates, Pending

OwnersInv == AdmissionInv /\ Returned /\ NoneLost

LEMMA OwnersStep ==
  ASSUME {"workerCrash", "taskKilled", "persistError"} \cap Faults = {}, OwnersInv, [Next]_vars
  PROVE  OwnersInv'
<1>1. TypeOK
  BY DEF OwnersInv, AdmissionInv, LineageInv, AttemptInv, TypeInv
<1>2. ASSUME NEW j \in Jobs, j \notin holders, queue[<<j, 0>>] # "none"
      PROVE  j \notin holders'
  <2>1. api[j] # "idle"
    BY <1>2 DEF OwnersInv, AdmissionInv, Admission, Admitted
  <2>2. QED
    BY <1>1, <1>2, <2>1, StepsOnQuota DEF QuotaStep, Reserves, Releases, ReleaseSlot
<1>3. QED
  BY <1>1, <1>2, AdmissionStep, ReturnedStep, NoneLostStep DEF OwnersInv, AdmissionInv

\* While no worker dies and every runner gets to persist its result, a slot always
\* has someone who is still to give it back, through every other fault, lost
\* answer and replay.
THEOREM SlotsKeepOwners ==
  ASSUME {"workerCrash", "taskKilled", "persistError"} \cap Faults = {}
  PROVE  Spec => []SlotsHaveOwners
<1>1. Init => OwnersInv
  BY AdmissionInit, ReturnedInit DEF OwnersInv, NoneLost, Init, WorkerInit, TaskInit
<1>2. OwnersInv /\ [Next]_vars => OwnersInv'
  BY OwnersStep
<1>3. OwnersInv => SlotsHaveOwners
  <2> SUFFICES ASSUME OwnersInv, NEW j \in holders,
                      api[j] \notin {"reserved", "hashed", "listed", "failing", "error", "crashed"}
               PROVE  \/ \E e \in Entries : JobOf(e) = j /\ (queue[e] \in Pending \/ Listening(e))
                      \/ \E a \in TaskIds : TaskJob(a) = j
                           /\ task[a] \in {"executing", "computed", "recorded", "charged"}
    BY DEF SlotsHaveOwners
  <2>1. j \in Jobs /\ api[j] \in ApiStates
    BY DEF OwnersInv, AdmissionInv, LineageInv, AttemptInv, TypeInv, TypeOK, StoreTypeOK, ApiTypeOK
  <2>2. queue[<<j, 0>>] # "none"
    BY <2>1 DEF OwnersInv, AdmissionInv, Admission, Admitted, ApiStates
  <2>3. QED
    BY <2>2, HeldByOwner DEF OwnersInv, AdmissionInv, NoneLost
<1>4. QED
  BY <1>1, <1>2, <1>3, PTL DEF Spec

(***************************************************************************)
(* Custody.                                                                *)
(***************************************************************************)

CustodyInv == TypeInv /\ OneCustodian

\* Without replays each job has one queue entry.
LEMMA OneEntry ==
  ASSUME MaxReplays = 0
  PROVE  /\ \A e, g \in Entries : JobOf(e) = JobOf(g) => e = g
         /\ \A j \in Jobs : <<j, 0>> \in Entries /\ JobOf(<<j, 0>>) = j
         /\ \A e \in Entries : e = <<JobOf(e), 0>>
BY DEF Entries, JobOf

LEMMA CustodyInit == Init => OneCustodian
<1> SUFFICES ASSUME Init PROVE OneCustodian
  OBVIOUS
<1>1. /\ \A j \in Jobs : api[j] = "idle" /\ queue[<<j, 0>>] = "none"
      /\ \A e \in Entries : queue[e] = "none" /\ made[e] = 0 /\ proc[e] = "idle"
      /\ \A f \in Failures : handler[f] = "none"
      /\ \A a \in TaskIds : task[a] = "none"
      /\ holders = {}
  BY EntriesShape DEF Init, StoreInit, QueueInit, ApiInit, TaskInit, WorkerInit
<1>2. QED
  BY <1>1 DEF OneCustodian, SlotsInCustody, QueuedByHandler, ProcessorOfActive,
              ListenersOfFailures, OneRunner, HandlerHasSlot, QueueHasSlot, ProcessorHasSlot,
              ListenerHasSlot, TaskHasSlot, Pending

\* The API handler up to its reply.
LEMMA SubmissionCustody ==
  ASSUME CustodyInv, MaxReplays = 0, NEW j \in Jobs, SubmissionStep(j),
         UNCHANGED <<taskVars, workerVars, replayVars>>
  PROVE  OneCustodian'
<1> USE EntriesShape, OneEntry DEF CustodyInv, TypeInv, OneCustodian
<1>1. UNCHANGED <<proc, handler, task>>
  BY DEF taskVars, workerVars
<1>2. ASSUME NEW from, NEW to \in ApiStates, Goto(j, from, to)
      PROVE  api[j] = from /\ api'[j] = to /\ \A k \in Jobs : k # j => api'[k] = api[k]
  BY <1>2 DEF Goto, TypeOK, ApiTypeOK
<1>3. ASSUME UNCHANGED queueVars
      PROVE  ProcessorOfActive' /\ ListenersOfFailures' /\ OneRunner'
  BY <1>1, <1>3 DEF queueVars, ProcessorOfActive, ListenersOfFailures, OneRunner
<1>4. CASE ReserveQuota(j)
  <2>1. api[j] = "idle" /\ api'[j] = "reserved" /\ \A k \in Jobs : k # j => api'[k] = api[k]
    BY <1>2, <1>4 DEF ReserveQuota, ApiStates
  <2>2. holders' = holders \cup {j} /\ UNCHANGED queueVars
    BY <1>4 DEF ReserveQuota, ReserveSlot
  <2>3. SlotsInCustody'
    BY <1>1, <2>1, <2>2
       DEF queueVars, SlotsInCustody, HandlerHasSlot, QueueHasSlot, ProcessorHasSlot,
           ListenerHasSlot, TaskHasSlot
  <2>4. QueuedByHandler'
    BY <2>1, <2>2 DEF queueVars, QueuedByHandler
  <2>5. QED
    BY <1>3, <2>2, <2>3, <2>4
<1>5. CASE RollbackReservedQuota(j)
  <2>1. api[j] = "failing" /\ api'[j] = "rolledBack" /\ \A k \in Jobs : k # j => api'[k] = api[k]
    BY <1>2, <1>5 DEF RollbackReservedQuota, ApiStates
  <2>2. holders' = holders \ {j} /\ UNCHANGED queueVars
    BY <1>5 DEF RollbackReservedQuota, RollbackSlot
  <2>3. queue[<<j, 0>>] = "none"
    BY <2>1 DEF QueuedByHandler
  <2>4. \A e \in Entries : JobOf(e) = j => queue[e] = "none" /\ proc[e] = "idle"
    BY <2>3 DEF ProcessorOfActive
  <2>5. \A f \in Failures : JobOf(f[1]) = j => ~ListenerHasSlot(f)
    BY <2>4 DEF ListenersOfFailures, ListenerHasSlot, Failures
  <2>6. \A a \in TaskIds : TaskJob(a) = j => ~TaskHasSlot(a)
    BY <2>4 DEF OneRunner, TaskHasSlot, TaskJob
  <2>7. SlotsInCustody'
    BY <1>1, <2>1, <2>2, <2>4, <2>5, <2>6
       DEF queueVars, SlotsInCustody, HandlerHasSlot, QueueHasSlot, ProcessorHasSlot,
           ListenerHasSlot, TaskHasSlot
  <2>8. QueuedByHandler'
    BY <2>1, <2>2, <2>3 DEF queueVars, QueuedByHandler
  <2>9. QED
    BY <1>3, <2>2, <2>7, <2>8
<1>6. CASE EnqueueJob(j)
  <2>1. api[j] = "listed" /\ api'[j] = "enqueued" /\ \A k \in Jobs : k # j => api'[k] = api[k]
    BY <1>2, <1>6 DEF EnqueueJob, ApiStates
  <2>2. queue[<<j, 0>>] = "none" /\ queue' = [queue EXCEPT ![<<j, 0>>] = "waiting"]
    BY <1>6 DEF EnqueueJob, Add, Move
  <2>3. UNCHANGED <<made, starts, holders>>
    BY <1>6 DEF EnqueueJob, Add, storeVars
  <2>4. \A e \in Entries : IF e = <<j, 0>> THEN queue'[e] = "waiting" ELSE queue'[e] = queue[e]
    BY <2>2 DEF TypeOK, QueueTypeOK
  <2>5. j \in holders
    BY <2>1 DEF SlotsInCustody, HandlerHasSlot
  <2>6. SlotsInCustody'
    BY <1>1, <2>1, <2>3, <2>4, <2>5
       DEF SlotsInCustody, HandlerHasSlot, QueueHasSlot, ProcessorHasSlot,
           ListenerHasSlot, TaskHasSlot
  <2>7. QueuedByHandler'
    BY <2>1, <2>4 DEF QueuedByHandler
  <2>8. ProcessorOfActive'
    BY <1>1, <2>2, <2>4 DEF ProcessorOfActive
  <2>9. ListenersOfFailures'
    BY <1>1, <2>2, <2>3, <2>4, AttemptsAssumption DEF ListenersOfFailures, Pending
  <2>10. OneRunner'
    BY <1>1, <2>2, <2>3, <2>4 DEF OneRunner
  <2>11. QED
    BY <2>6, <2>7, <2>8, <2>9, <2>10
<1>7. ASSUME NEW from, NEW to \in ApiStates, Goto(j, from, to), UNCHANGED <<queueVars, holders>>,
             \/ from = "idle" /\ to = "rejected"
             \/ from = "reserved" /\ to = "hashed"
             \/ from = "hashed" /\ to = "listed"
             \/ from \in {"reserved", "hashed", "listed"} /\ to = "failing"
             \/ from = "rolledBack" /\ to = "deleted"
             \/ from = "deleted" /\ to = "unavailable"
             \/ to \in {"accepted", "error", "crashed"}
      PROVE  OneCustodian'
  <2>1. api[j] = from /\ api'[j] = to /\ \A k \in Jobs : k # j => api'[k] = api[k]
    BY <1>2, <1>7
  <2>2. SlotsInCustody'
    BY <1>1, <1>7, <2>1
       DEF queueVars, SlotsInCustody, HandlerHasSlot, QueueHasSlot, ProcessorHasSlot,
           ListenerHasSlot, TaskHasSlot
  <2>3. QueuedByHandler'
    BY <1>7, <2>1 DEF queueVars, QueuedByHandler
  <2>4. QED
    BY <1>3, <1>7, <2>2, <2>3
<1>8. CASE RejectSubmission(j)
  BY <1>7, <1>8 DEF RejectSubmission, storeVars, ApiStates
<1>9. CASE WriteJobHash(j) \/ AppendHistoryItem(j) \/ AcceptSubmission(j)
  BY <1>7, <1>9 DEF WriteJobHash, AppendHistoryItem, AcceptSubmission, storeVars, ApiStates
<1>10. CASE DeleteJobHash(j) \/ DropHistoryItem(j)
  BY <1>7, <1>10 DEF DeleteJobHash, DropHistoryItem, ApiStates
<1>11. CASE FailSubmission(j)
  BY <1>7, <1>11
     DEF FailSubmission, SubmissionThrows, HandlerThrows, ApiCrash, storeVars, ApiStates
<1>12. QED
  BY <1>4, <1>5, <1>6, <1>8, <1>9, <1>10, <1>11 DEF SubmissionStep, ContinueSubmission

\* A step of the processor that leaves the entry active, the listeners and the
\* tasks alone.
LEMMA ProceedCustody ==
  ASSUME CustodyInv, MaxReplays = 0, NEW e \in Entries, NEW from, NEW to \in ProcStates \ {"idle"},
         Proceed(e, from, to), UNCHANGED <<apiVars, queueVars, taskVars, handler>>,
         \/ UNCHANGED holders /\ from \in {"taken", "running", "executed", "recorded"}
         \/ UNCHANGED holders /\ from = "launched" /\ to = "dispatched"
         \/ from = "charged" /\ to = "released" /\ holders' = holders \ {JobOf(e)}
  PROVE  OneCustodian'
<1> USE EntriesShape, OneEntry DEF CustodyInv, TypeInv, OneCustodian
<1>1. /\ proc[e] = from /\ proc'[e] = to
      /\ \A g \in Entries : g # e => proc'[g] = proc[g]
      /\ \A g \in Entries : proc'[g] = "idle" <=> proc[g] = "idle"
  BY DEF Proceed, TypeOK, WorkerTypeOK
<1>2. UNCHANGED <<queue, made, starts, api, task>>
  BY DEF apiVars, queueVars, taskVars
<1>3. from # "idle" /\ queue[e] = "active"
  BY <1>1 DEF ProcessorOfActive
<1>4. QueuedByHandler' /\ ProcessorOfActive' /\ ListenersOfFailures'
  BY <1>1, <1>2 DEF QueuedByHandler, ProcessorOfActive, ListenersOfFailures
<1>5. OneRunner'
  BY <1>1, <1>2, <1>3 DEF OneRunner
<1>6. CASE UNCHANGED holders
  BY <1>1, <1>2, <1>3, <1>4, <1>5, <1>6
     DEF SlotsInCustody, HandlerHasSlot, QueueHasSlot, ProcessorHasSlot, ListenerHasSlot, TaskHasSlot
<1>7. CASE from = "charged" /\ to = "released" /\ holders' = holders \ {JobOf(e)}
  <2>1. api[JobOf(e)] \notin {"idle", "reserved", "hashed", "listed", "failing"}
    BY <1>3 DEF QueuedByHandler
  <2>2. \A f \in Failures : f[1] = e => ~ListenerHasSlot(f)
    BY <1>3, AttemptsAssumption
       DEF ListenersOfFailures, ListenerHasSlot, Pending, TypeOK, QueueTypeOK
  <2>3. \A a \in TaskIds : a[1] = e => ~TaskHasSlot(a)
    BY <1>1, <1>3, <1>7 DEF OneRunner, TaskHasSlot
  <2>4. SlotsInCustody'
    BY <1>1, <1>2, <1>3, <1>7, <2>1, <2>2, <2>3
       DEF SlotsInCustody, HandlerHasSlot, QueueHasSlot, ProcessorHasSlot, ListenerHasSlot,
           TaskHasSlot, TaskJob
  <2>5. QED
    BY <1>4, <1>5, <2>4
<1>8. QED
  BY <1>6, <1>7

\* The processor from the call of BullMQ to its return.
LEMMA ProcessorCustody ==
  ASSUME CustodyInv, MaxReplays = 0, Faults \subseteq HarmlessFaults,
         NEW e \in Entries, ProcessorStep(e), UNCHANGED replayVars
  PROVE  OneCustodian'
<1> USE EntriesShape, OneEntry DEF CustodyInv, TypeInv, OneCustodian
<1>1. \A to \in ProcStates : proc' = [proc EXCEPT ![e] = to] =>
        proc'[e] = to /\ \A g \in Entries : g # e => proc'[g] = proc[g]
  BY DEF TypeOK, WorkerTypeOK
<1>2. CASE MarkRunning(e) \/ ExecuteLocalRunner(e) \/ RecordResult(e) \/ IncrementDailyCost(e)
  BY <1>2, ProceedCustody
     DEF MarkRunning, ExecuteLocalRunner, RecordResult, IncrementDailyCost, ProcStates, storeVars
<1>3. CASE DecrementActiveQuota(e)
  BY <1>3, ProceedCustody DEF DecrementActiveQuota, ReleaseSlot, ProcStates
<1>4. CASE MarkDispatched(e)
  BY <1>4, ProceedCustody DEF MarkDispatched, ProcStates
<1>5. CASE DispatchEcsRunner(e)
  <2>1. /\ proc[e] = "running" /\ proc' = [proc EXCEPT ![e] = "launched"]
        /\ proc'[e] = "launched" /\ \A g \in Entries : g # e => proc'[g] = proc[g]
    BY <1>1, <1>5 DEF DispatchEcsRunner, Proceed, ProcStates
  <2>2. task' = [task EXCEPT ![<<e, starts[e]>>] = "executing"]
    BY <1>5 DEF DispatchEcsRunner, Launch, Advance
  <2>3. \A a \in TaskIds : IF a = <<e, starts[e]>> THEN task'[a] = "executing" ELSE task'[a] = task[a]
    BY <2>2 DEF TypeOK, TaskTypeOK
  <2>4. UNCHANGED <<queue, made, starts, api, handler, holders>>
    BY <1>5 DEF DispatchEcsRunner, storeVars, queueVars, apiVars
  <2>5. queue[e] = "active" /\ JobOf(e) \in holders
    BY <2>1 DEF ProcessorOfActive, SlotsInCustody, ProcessorHasSlot
  <2>6. SlotsInCustody'
    BY <2>1, <2>3, <2>4, <2>5
       DEF SlotsInCustody, HandlerHasSlot, QueueHasSlot, ProcessorHasSlot, ListenerHasSlot,
           TaskHasSlot, TaskJob
  <2>7. QueuedByHandler' /\ ListenersOfFailures'
    BY <2>4 DEF QueuedByHandler, ListenersOfFailures
  <2>8. ProcessorOfActive'
    BY <2>1, <2>4, <2>5 DEF ProcessorOfActive
  <2>9. OneRunner'
    BY <2>1, <2>3, <2>4 DEF OneRunner
  <2>10. QED
    BY <2>6, <2>7, <2>8, <2>9
<1>6. ASSUME proc[e] # "idle", proc' = [proc EXCEPT ![e] = "idle"], UNCHANGED <<api, starts, holders, task>>,
             NEW to \in QueueStates \ {"none", "waiting", "active"}, queue' = [queue EXCEPT ![e] = to]
      PROVE  /\ queue[e] = "active" /\ queue'[e] = to /\ proc'[e] = "idle"
             /\ \A g \in Entries : g # e => queue'[g] = queue[g] /\ proc'[g] = proc[g]
             /\ QueuedByHandler' /\ ProcessorOfActive'
  <2>1. queue[e] = "active"
    BY <1>6 DEF ProcessorOfActive
  <2>2. queue'[e] = to /\ proc'[e] = "idle"
        /\ \A g \in Entries : g # e => queue'[g] = queue[g] /\ proc'[g] = proc[g]
    BY <1>1, <1>6 DEF TypeOK, QueueTypeOK, WorkerTypeOK
  <2>3. QueuedByHandler'
    BY <1>6, <2>1, <2>2 DEF QueuedByHandler
  <2>4. ProcessorOfActive'
    BY <1>6, <2>1, <2>2 DEF ProcessorOfActive
  <2>5. QED
    BY <2>1, <2>2, <2>3, <2>4
<1>7. CASE FinishAttempt(e)
  <2>1. /\ proc[e] \in {"released", "dispatched"} /\ proc' = [proc EXCEPT ![e] = "idle"]
        /\ queue' = [queue EXCEPT ![e] = "completed"]
        /\ UNCHANGED <<api, made, starts, holders, task, handler>>
    BY <1>7 DEF FinishAttempt, Proceed, MoveToCompleted, Move, storeVars, apiVars, taskVars
  <2>2. /\ queue[e] = "active" /\ queue'[e] = "completed" /\ proc'[e] = "idle"
        /\ \A g \in Entries : g # e => queue'[g] = queue[g] /\ proc'[g] = proc[g]
        /\ QueuedByHandler' /\ ProcessorOfActive'
    BY <1>6, <2>1 DEF QueueStates
  <2>3. SlotsInCustody'
    BY <2>1, <2>2
       DEF SlotsInCustody, HandlerHasSlot, QueueHasSlot, ProcessorHasSlot, ListenerHasSlot, TaskHasSlot
  <2>4. ListenersOfFailures'
    BY <2>1, <2>2 DEF ListenersOfFailures, Pending
  <2>5. OneRunner'
    BY <2>1, <2>2 DEF OneRunner
  <2>6. QED
    BY <2>2, <2>3, <2>4, <2>5
<1>8. CASE AttemptThrows(e)
  <2>1. proc[e] = "running" /\ proc' = [proc EXCEPT ![e] = "idle"]
    BY <1>8 DEF AttemptThrows, Proceed, HarmlessFaults
  <2>2. /\ queue' = [queue EXCEPT ![e] = AfterFailure(e)]
        /\ made' = [made EXCEPT ![e] = @ + 1]
        /\ handler' = [handler EXCEPT ![<<e, made[e] + 1>>] = "notified"]
        /\ UNCHANGED <<api, starts, holders, task>>
    BY <1>8 DEF AttemptThrows, NotifyFailure, MoveToFailed, Move, storeVars, apiVars, taskVars
  <2>3. AfterFailure(e) \in {"delayed", "failed"}
    BY DEF AfterFailure
  <2>4. /\ queue[e] = "active" /\ queue'[e] = AfterFailure(e) /\ proc'[e] = "idle"
        /\ \A g \in Entries : g # e => queue'[g] = queue[g] /\ proc'[g] = proc[g]
        /\ QueuedByHandler' /\ ProcessorOfActive'
    BY <1>6, <2>1, <2>2, <2>3 DEF QueueStates
  <2>5. made[e] \in Nat /\ made[e] < Attempts /\ JobOf(e) \in holders
    BY <2>1, <2>4
       DEF ListenersOfFailures, Pending, SlotsInCustody, ProcessorHasSlot, TypeOK, QueueTypeOK
  <2>6. made'[e] = made[e] + 1 /\ \A g \in Entries : g # e => made'[g] = made[g]
    BY <2>2 DEF TypeOK, QueueTypeOK
  <2>7. \A f \in Failures : IF f = <<e, made[e] + 1>> THEN handler'[f] = "notified"
                                                      ELSE handler'[f] = handler[f]
    BY <2>2 DEF TypeOK, WorkerTypeOK
  <2>8. SlotsInCustody'
    BY <2>2, <2>4, <2>5, <2>7
       DEF SlotsInCustody, HandlerHasSlot, QueueHasSlot, ProcessorHasSlot, ListenerHasSlot, TaskHasSlot
  <2>9. ListenersOfFailures'
    <3>1. \A g \in Entries : made[g] \in Nat
      BY DEF TypeOK, QueueTypeOK
    <3>2. \A f \in Failures : handler'[f] # "none" => f[2] <= made'[f[1]]
      BY <2>5, <2>6, <2>7, <3>1 DEF ListenersOfFailures, Failures
    <3>3. \A f \in Failures : handler'[f] = "recorded" => f[2] = Attempts
      BY <2>7 DEF ListenersOfFailures
    <3>4. \A g \in Entries : /\ queue'[g] = "none" => made'[g] = 0
                             /\ queue'[g] \in Pending \cup {"completed"} => made'[g] < Attempts
      BY <2>3, <2>4, <2>5, <2>6, AttemptsAssumption DEF ListenersOfFailures, AfterFailure, Pending
    <3>5. QED
      BY <3>2, <3>3, <3>4 DEF ListenersOfFailures
  <2>10. OneRunner'
    BY <2>1, <2>2, <2>4 DEF OneRunner
  <2>11. QED
    BY <2>4, <2>8, <2>9, <2>10
<1>9. ~DispatchAnswerLost(e)
  BY DEF DispatchAnswerLost, HarmlessFaults
<1>10. QED
  BY <1>2, <1>3, <1>4, <1>5, <1>7, <1>8, <1>9 DEF ProcessorStep

\* The listener of a failed attempt.
LEMMA ListenerCustody ==
  ASSUME CustodyInv, MaxReplays = 0, NEW f \in Failures, HandlerStep(f), UNCHANGED replayVars
  PROVE  OneCustodian'
<1> USE EntriesShape, OneEntry DEF CustodyInv, TypeInv, OneCustodian
<1>1. PICK to \in HandlerStates \ {"none", "notified"} : handler' = [handler EXCEPT ![f] = to]
  BY DEF HandlerStep, MarkRetrying, MarkFailed, ReleaseFailed, CopyToDlq, MarkDeadLettered,
         Handle, HandlerStates
<1>2. handler'[f] = to /\ \A g \in Failures : g # f => handler'[g] = handler[g]
  BY <1>1 DEF TypeOK, WorkerTypeOK
<1>3. UNCHANGED <<queue, made, starts, api, task, proc>>
  BY DEF HandlerStep, MarkRetrying, MarkFailed, ReleaseFailed, CopyToDlq, MarkDeadLettered,
         queueVars, apiVars, taskVars
<1>4. QueuedByHandler' /\ ProcessorOfActive' /\ OneRunner'
  BY <1>3 DEF QueuedByHandler, ProcessorOfActive, OneRunner
<1>5. handler[f] # "none" /\ (to = "recorded" => f[2] = Attempts /\ handler[f] = "notified")
  <2>1. CASE MarkFailed(f)
    <3>1. f[2] \in 1 .. Attempts
      OBVIOUS
    <3>2. handler[f] = "notified" /\ ~(f[2] < Attempts)
      BY <2>1 DEF MarkFailed, Handle, HasAttemptsLeft
    <3>3. QED
      BY <3>1, <3>2, AttemptsAssumption
  <2>2. CASE ~MarkFailed(f)
    <3>1. handler[f] # "none"
      BY <2>2 DEF HandlerStep, MarkRetrying, ReleaseFailed, CopyToDlq, MarkDeadLettered, Handle
    <3>2. handler'[f] \in {"released", "copied", "done"}
      BY <2>2
         DEF HandlerStep, MarkRetrying, ReleaseFailed, CopyToDlq, MarkDeadLettered, Handle,
             TypeOK, WorkerTypeOK
    <3>3. QED
      BY <1>2, <3>1, <3>2
  <2>3. QED
    BY <2>1, <2>2
<1>6. ListenersOfFailures'
  BY <1>2, <1>3, <1>5 DEF ListenersOfFailures
<1>7. CASE ~ReleaseFailed(f)
  <2>1. UNCHANGED holders
    BY <1>7 DEF HandlerStep, MarkRetrying, MarkFailed, CopyToDlq, MarkDeadLettered, storeVars
  <2>2. SlotsInCustody'
    BY <1>2, <1>3, <1>5, <2>1
       DEF SlotsInCustody, HandlerHasSlot, QueueHasSlot, ProcessorHasSlot, ListenerHasSlot, TaskHasSlot
  <2>3. QED
    BY <1>4, <1>6, <2>2
<1>8. CASE ReleaseFailed(f)
  <2> DEFINE e == f[1]
  <2>1. handler[f] = "recorded" /\ handler'[f] = "released" /\ holders' = holders \ {JobOf(e)}
    BY <1>8 DEF ReleaseFailed, Handle, ReleaseSlot, TypeOK, WorkerTypeOK
  <2>2. f[2] = Attempts /\ Attempts <= made[e] /\ made[e] \in Nat /\ queue[e] \in QueueStates
    BY <2>1 DEF ListenersOfFailures, TypeOK, QueueTypeOK
  <2>3. queue[e] = "failed" /\ proc[e] = "idle"
    BY <2>2, AttemptsAssumption DEF ListenersOfFailures, ProcessorOfActive, Pending, QueueStates
  <2>4. api[JobOf(e)] \notin {"idle", "reserved", "hashed", "listed", "failing"}
    BY <2>3 DEF QueuedByHandler
  <2>5. \A a \in TaskIds : a[1] = e => ~TaskHasSlot(a)
    BY <2>3 DEF OneRunner, TaskHasSlot
  <2>6. \A g \in Failures : g[1] = e /\ g[2] = Attempts => g = f
    BY <2>2 DEF Failures
  <2>7. SlotsInCustody'
    BY <1>2, <1>3, <2>1, <2>3, <2>4, <2>5, <2>6
       DEF SlotsInCustody, HandlerHasSlot, QueueHasSlot, ProcessorHasSlot, ListenerHasSlot,
           TaskHasSlot, TaskJob
  <2>8. QED
    BY <1>4, <1>6, <2>7
<1>9. QED
  BY <1>7, <1>8

\* The runner task, from executeUserCode to its exit or its end.
LEMMA RunnerCustody ==
  ASSUME CustodyInv, MaxReplays = 0, Faults \subseteq HarmlessFaults,
         NEW a \in TaskIds, RunTask(a) \/ BreakTask(a), UNCHANGED <<workerVars, replayVars>>
  PROVE  OneCustodian'
<1> USE EntriesShape, OneEntry DEF CustodyInv, TypeInv, OneCustodian
<1>1. PICK to \in TaskStates \ {"none", "executing"} : task' = [task EXCEPT ![a] = to]
  BY DEF RunTask, BreakTask, ExecuteUserCode, RecordTaskResult, ChargeTask, ReleaseTaskSlot,
         ExitTask, EnterFallback, FallbackThrows, KillTask, Advance, TaskStates
<1>2. task'[a] = to /\ \A b \in TaskIds : b # a => task'[b] = task[b]
  BY <1>1 DEF TypeOK, TaskTypeOK
<1>3. UNCHANGED <<queue, made, starts, api, proc, handler>>
  BY DEF RunTask, BreakTask, ExecuteUserCode, RecordTaskResult, ChargeTask, ReleaseTaskSlot,
         ExitTask, EnterFallback, FallbackThrows, KillTask, queueVars, apiVars, workerVars
<1>4. task[a] # "none"
  BY DEF RunTask, BreakTask, ExecuteUserCode, RecordTaskResult, ChargeTask, ReleaseTaskSlot,
         ExitTask, EnterFallback, FallbackThrows, KillTask, Advance
<1>5. QueuedByHandler' /\ ProcessorOfActive' /\ ListenersOfFailures' /\ OneRunner'
  BY <1>2, <1>3, <1>4 DEF QueuedByHandler, ProcessorOfActive, ListenersOfFailures, OneRunner
<1>6. CASE ~ReleaseTaskSlot(a)
  <2>1. UNCHANGED holders
    BY <1>6 DEF RunTask, BreakTask, ExecuteUserCode, RecordTaskResult, ChargeTask, ExitTask,
                EnterFallback, FallbackThrows, KillTask, storeVars
  <2>2. TaskHasSlot(a)' => TaskHasSlot(a)
    BY <1>1, <1>2, <1>6
       DEF RunTask, BreakTask, ExecuteUserCode, RecordTaskResult, ChargeTask, ExitTask,
           EnterFallback, FallbackThrows, KillTask, Advance, TaskHasSlot, HarmlessFaults,
           TypeOK, TaskTypeOK
  <2>3. SlotsInCustody'
    BY <1>2, <1>3, <2>1, <2>2
       DEF SlotsInCustody, HandlerHasSlot, QueueHasSlot, ProcessorHasSlot, ListenerHasSlot, TaskHasSlot
  <2>4. QED
    BY <1>5, <2>3
<1>7. CASE ReleaseTaskSlot(a)
  <2> DEFINE e == a[1]
  <2>1. task[a] = "charged" /\ task'[a] = "released" /\ holders' = holders \ {JobOf(e)}
    BY <1>7 DEF ReleaseTaskSlot, Advance, ReleaseSlot, TaskJob, TypeOK, TaskTypeOK
  <2>2. a[2] = starts[e] /\ (proc[e] \in {"launched", "dispatched"} \/ queue[e] = "completed")
    BY <2>1 DEF OneRunner
  <2>3. queue[e] \in {"active", "completed"} /\ ~ProcessorHasSlot(e) /\ ~QueueHasSlot(e)
    BY <2>2 DEF ProcessorOfActive, ProcessorHasSlot, QueueHasSlot
  <2>4. api[JobOf(e)] \notin {"idle", "reserved", "hashed", "listed", "failing"}
    BY <2>3 DEF QueuedByHandler
  <2>5. \A f \in Failures : f[1] = e => ~ListenerHasSlot(f)
    BY <2>3, AttemptsAssumption
       DEF ListenersOfFailures, ListenerHasSlot, Pending, TypeOK, QueueTypeOK
  <2>6. \A b \in TaskIds : b[1] = e /\ task[b] # "none" => b = a
    BY <2>2 DEF OneRunner, TaskIds
  <2>7. SlotsInCustody'
    BY <1>2, <1>3, <2>1, <2>3, <2>4, <2>5, <2>6
       DEF SlotsInCustody, HandlerHasSlot, QueueHasSlot, ProcessorHasSlot, ListenerHasSlot,
           TaskHasSlot, TaskJob
  <2>8. QED
    BY <1>5, <2>7
<1>8. QED
  BY <1>6, <1>7

\* Fetching an entry, the end of a backoff, and a replay that has nothing to add.
LEMMA PoolCustody ==
  ASSUME CustodyInv, MaxReplays = 0, Faults \subseteq HarmlessFaults,
         \/ \E w \in Workers, e \in Entries : TakeJob(w, e)
         \/ \E e \in Entries : PromoteDelayed(e)
         \/ \E w \in Workers : WorkerCrash(w)
         \/ \E p \in Replayers : ReplayStep(p)
  PROVE  OneCustodian'
<1> USE EntriesShape, OneEntry DEF CustodyInv, TypeInv, OneCustodian
<1>1. ASSUME NEW w \in Workers, NEW e \in Entries, TakeJob(w, e)
      PROVE  OneCustodian'
  <2>1. /\ queue[e] = "waiting" /\ queue'[e] = "active"
        /\ \A g \in Entries : g # e => queue'[g] = queue[g]
    BY <1>1 DEF TakeJob, Take, Move, TypeOK, QueueTypeOK
  <2>2. proc'[e] = "taken" /\ \A g \in Entries : g # e => proc'[g] = proc[g]
    BY <1>1 DEF TakeJob, Proceed, TypeOK, WorkerTypeOK
  <2>3. UNCHANGED <<made, api, holders, task, handler>>
    BY <1>1 DEF TakeJob, Take, storeVars, apiVars, taskVars
  <2>4. \A g \in Entries : g # e => starts'[g] = starts[g]
    BY <1>1 DEF TakeJob, Take, TypeOK, QueueTypeOK
  <2>5. \A a \in TaskIds : a[1] = e => task[a] = "none"
    BY <2>1 DEF OneRunner, ProcessorOfActive
  <2>6. SlotsInCustody'
    BY <2>1, <2>2, <2>3
       DEF SlotsInCustody, HandlerHasSlot, QueueHasSlot, ProcessorHasSlot, ListenerHasSlot, TaskHasSlot
  <2>7. QueuedByHandler' /\ ProcessorOfActive'
    BY <2>1, <2>2, <2>3 DEF QueuedByHandler, ProcessorOfActive
  <2>8. ListenersOfFailures'
    BY <2>1, <2>3 DEF ListenersOfFailures, Pending
  <2>9. OneRunner'
    BY <2>1, <2>2, <2>3, <2>4, <2>5 DEF OneRunner
  <2>10. QED
    BY <2>6, <2>7, <2>8, <2>9
<1>2. ASSUME NEW e \in Entries, PromoteDelayed(e)
      PROVE  OneCustodian'
  <2>1. /\ queue[e] = "delayed" /\ queue'[e] = "waiting"
        /\ \A g \in Entries : g # e => queue'[g] = queue[g]
    BY <1>2 DEF PromoteDelayed, Promote, Move, TypeOK, QueueTypeOK
  <2>2. UNCHANGED <<made, starts, api, holders, task, proc, handler>>
    BY <1>2 DEF PromoteDelayed, Promote, storeVars, apiVars, taskVars, workerVars
  <2>3. SlotsInCustody'
    BY <2>1, <2>2
       DEF SlotsInCustody, HandlerHasSlot, QueueHasSlot, ProcessorHasSlot, ListenerHasSlot, TaskHasSlot
  <2>4. QueuedByHandler' /\ ProcessorOfActive'
    BY <2>1, <2>2 DEF QueuedByHandler, ProcessorOfActive
  <2>5. ListenersOfFailures'
    BY <2>1, <2>2 DEF ListenersOfFailures, Pending
  <2>6. OneRunner'
    BY <2>1, <2>2 DEF OneRunner
  <2>7. QED
    BY <2>3, <2>4, <2>5, <2>6
<1>3. \A w \in Workers : ~WorkerCrash(w)
  BY DEF WorkerCrash, HarmlessFaults
<1>4. ASSUME NEW p \in Replayers, ReplayStep(p)
      PROVE  OneCustodian'
  <2>1. ~AddReplay(p)
    BY DEF AddReplay
  <2>2. UNCHANGED <<queue, made, starts, api, holders, task, proc, handler>>
    BY <1>4, <2>1
       DEF ReplayStep, FetchJobs, RemoveDeadLetter, SkipDeadLetter, FinishReplay, ReplayCrash, storeVars,
           queueVars, apiVars, taskVars, workerVars
  <2>3. QED
    BY <2>2
       DEF SlotsInCustody, HandlerHasSlot, QueueHasSlot, ProcessorHasSlot, ListenerHasSlot,
           TaskHasSlot, QueuedByHandler, ProcessorOfActive, ListenersOfFailures, OneRunner
<1>5. QED
  BY <1>1, <1>2, <1>3, <1>4

LEMMA CustodyStep ==
  ASSUME MaxReplays = 0, Faults \subseteq HarmlessFaults, CustodyInv, [Next]_vars
  PROVE  CustodyInv'
<1>1. TypeInv'
  BY StepType DEF CustodyInv
<1>2. ASSUME UNCHANGED <<queue, made, starts, api, holders, task, proc, handler>>
      PROVE  OneCustodian'
  BY <1>2 DEF CustodyInv, OneCustodian, SlotsInCustody, HandlerHasSlot, QueueHasSlot,
              ProcessorHasSlot, ListenerHasSlot, TaskHasSlot, QueuedByHandler,
              ProcessorOfActive, ListenersOfFailures, OneRunner
<1>3. CASE Midnight /\ UNCHANGED <<taskVars, workerVars, replayVars>>
  BY <1>1, <1>2, <1>3 DEF Midnight, storeVars, queueVars, taskVars, workerVars, CustodyInv
<1>4. CASE UNCHANGED vars
  BY <1>1, <1>2, <1>4 DEF vars, storeVars, queueVars, apiVars, taskVars, workerVars, CustodyInv
<1>5. QED
  BY <1>1, <1>3, <1>4, SubmissionCustody, ProcessorCustody, ListenerCustody, RunnerCustody,
     PoolCustody
     DEF Next, Submissions, SubmissionNext, Fetches, Processors, Listeners, Backoffs, Crashes, Tasks, BrokenTasks,
         Replays, CustodyInv

(***************************************************************************)
(* The theorems.                                                           *)
(***************************************************************************)

WithinLimit == \A t \in Tenants : active[t] <= MaxConcurrentJobs[t]

ExactInv ==
  /\ CustodyInv
  /\ IsFiniteSet(holders)
  /\ QuotaExact
  /\ WithinLimit

LEMMA ExactInit == Init => ExactInv
<1> SUFFICES ASSUME Init PROVE ExactInv
  OBVIOUS
<1>1. CustodyInv
  BY CustodyInit, CounterInit DEF CustodyInv, CounterInv
<1>2. holders = {} /\ IsFiniteSet(holders)
  BY FS_EmptySet DEF Init, StoreInit
<1>3. \A t \in Tenants : active[t] = 0 /\ Cardinality(HoldersOf(t)) = 0
  <2>1. \A t \in Tenants : HoldersOf(t) = {}
    BY <1>2 DEF HoldersOf
  <2>2. QED
    BY <2>1, FS_EmptySet DEF Init, StoreInit
<1>4. QED
  BY <1>1, <1>2, <1>3, PolicyAssumption DEF ExactInv, QuotaExact, WithinLimit

LEMMA ExactStep ==
  ASSUME MaxReplays = 0, Faults \subseteq HarmlessFaults, ExactInv, [Next]_vars
  PROVE  ExactInv'
<1>1. CustodyInv' /\ TypeOK /\ OneCustodian /\ IsFiniteSet(holders)
  BY CustodyStep DEF ExactInv, CustodyInv, TypeInv
<1>2. \A t \in Tenants : /\ active[t] \in Nat /\ active[t] = Cardinality(HoldersOf(t))
                         /\ active[t] <= MaxConcurrentJobs[t] /\ MaxConcurrentJobs[t] \in Nat
  BY <1>1, PolicyAssumption DEF ExactInv, QuotaExact, WithinLimit, TypeOK, StoreTypeOK
<1>3. CASE UNCHANGED <<active, holders>>
  BY <1>1, <1>3 DEF ExactInv, QuotaExact, WithinLimit, HoldersOf
<1>4. ASSUME NEW j \in Jobs, Reserves(j)
      PROVE  ExactInv'
  <2>1. j \notin holders /\ holders' = holders \cup {j}
    BY <1>1, <1>4 DEF Reserves, OneCustodian, SlotsInCustody
  <2>2. ASSUME NEW t \in Tenants
        PROVE  active'[t] = Cardinality(HoldersOf(t)') /\ active'[t] <= MaxConcurrentJobs[t]
    <3>1. CASE t = Owner[j]
      <4>1. active'[t] = active[t] + 1 /\ active[t] < MaxConcurrentJobs[t]
        BY <1>1, <1>4, <3>1 DEF Reserves, HasQuota, TypeOK, StoreTypeOK
      <4>2. Cardinality(HoldersOf(t)') = Cardinality(HoldersOf(t)) + 1
        BY <1>1, <2>1, <3>1, HoldersGained
      <4>3. QED
        BY <1>2, <4>1, <4>2
    <3>2. CASE t # Owner[j]
      BY <1>1, <1>2, <1>4, <2>1, <3>2, HoldersGained DEF Reserves, TypeOK, StoreTypeOK
    <3>3. QED
      BY <3>1, <3>2
  <2>3. QED
    BY <1>1, <2>1, <2>2, HoldersGained DEF ExactInv, QuotaExact, WithinLimit
<1>5. ASSUME NEW j \in Jobs, Releases(j)
      PROVE  ExactInv'
  <2>1. j \in holders
    <3>1. ASSUME NEW f \in Failures, handler[f] = "recorded" PROVE ListenerHasSlot(f)
      BY <1>1, <3>1 DEF OneCustodian, ListenersOfFailures, ListenerHasSlot
    <3>2. QED
      BY <1>1, <1>5, <3>1
         DEF Releases, AboutToRelease, OneCustodian, SlotsInCustody, HandlerHasSlot, ProcessorHasSlot, TaskHasSlot
  <2>2. holders' = holders \ {j}
    BY <1>5 DEF Releases, ReleaseSlot
  <2>3. ASSUME NEW t \in Tenants
        PROVE  active'[t] = Cardinality(HoldersOf(t)') /\ active'[t] <= MaxConcurrentJobs[t]
    <3>1. CASE t = Owner[j]
      <4>1. active'[t] = FlooredDecr(active[t])
        BY <1>1, <1>5, <3>1 DEF Releases, ReleaseSlot, TypeOK, StoreTypeOK
      <4>2. Cardinality(HoldersOf(t)') = Cardinality(HoldersOf(t)) - 1
        BY <1>1, <2>1, <2>2, <3>1, HoldersLost
      <4>3. Cardinality(HoldersOf(t)) # 0
        <5>1. HoldersOf(t) # {}
          BY <2>1, <3>1 DEF HoldersOf
        <5>2. QED
          BY <1>1, <5>1, HoldersFinite, FS_EmptySet
      <4>4. QED
        BY <1>2, <4>1, <4>2, <4>3 DEF FlooredDecr
    <3>2. CASE t # Owner[j]
      BY <1>1, <1>2, <1>5, <2>2, <3>2, HoldersLost DEF Releases, ReleaseSlot, TypeOK, StoreTypeOK
    <3>3. QED
      BY <3>1, <3>2
  <2>4. QED
    BY <1>1, <2>2, <2>3, HoldersLost DEF ExactInv, QuotaExact, WithinLimit
<1>6. QED
  BY <1>1, <1>3, <1>4, <1>5, StepsOnQuota DEF QuotaStep

\* Failing API commands, API crashes between any two of them, failing rollbacks
\* and killed tasks leave the tenant's counter exact: it counts the reservations
\* that were not given back, however many jobs, tenants and attempts there are.
THEOREM QuotaExactness ==
  ASSUME MaxReplays = 0, Faults \subseteq HarmlessFaults
  PROVE  Spec => []QuotaExact
<1>1. ExactInv /\ [Next]_vars => ExactInv'
  BY ExactStep
<1>2. ExactInv => QuotaExact
  BY DEF ExactInv
<1>3. QED
  BY <1>1, <1>2, ExactInit, PTL DEF Spec

\* Under the same faults no tenant ever has more of its jobs executing than its
\* policy allows, on either backend.
THEOREM ConcurrencyLimit ==
  ASSUME MaxReplays = 0, Faults \subseteq HarmlessFaults
  PROVE  Spec => []ConcurrentRuns
<1>1. ExactInv /\ [Next]_vars => ExactInv'
  BY ExactStep
<1>2. ExactInv => ConcurrentRuns
  <2> SUFFICES ASSUME ExactInv, NEW t \in Tenants
               PROVE  Cardinality({j \in Jobs : Owner[j] = t /\ Executing(j)}) <= MaxConcurrentJobs[t]
    BY DEF ConcurrentRuns
  <2> DEFINE R == {j \in Jobs : Owner[j] = t /\ Executing(j)}
  <2>1. \A j \in Jobs : Executing(j) => j \in holders
    BY DEF ExactInv, CustodyInv, OneCustodian, SlotsInCustody, Executing, ProcessorHasSlot, TaskHasSlot
  <2>2. R \subseteq HoldersOf(t)
    BY <2>1 DEF HoldersOf
  <2>3. IsFiniteSet(HoldersOf(t)) /\ Cardinality(HoldersOf(t)) \in Nat
    BY HoldersFinite DEF ExactInv
  <2>4. Cardinality(R) <= Cardinality(HoldersOf(t)) /\ Cardinality(R) \in Nat
    BY <2>2, <2>3, FS_Subset, FS_CardinalityType
  <2>5. Cardinality(HoldersOf(t)) <= MaxConcurrentJobs[t] /\ MaxConcurrentJobs[t] \in Nat
    BY PolicyAssumption DEF ExactInv, QuotaExact, WithinLimit
  <2>6. QED
    BY <2>3, <2>4, <2>5
<1>3. QED
  BY <1>1, <1>2, ExactInit, PTL DEF Spec

\* Under the same faults the duty to release a slot never has two bearers.
THEOREM CustodyIsSingle ==
  ASSUME MaxReplays = 0, Faults \subseteq HarmlessFaults
  PROVE  Spec => []OneCustodian
<1>1. Init => CustodyInv
  BY ExactInit DEF ExactInv
<1>2. CustodyInv /\ [Next]_vars => CustodyInv'
  BY CustodyStep
<1>3. CustodyInv => OneCustodian
  BY DEF CustodyInv
<1>4. QED
  BY <1>1, <1>2, <1>3, PTL DEF Spec

\* Under the same faults the user's code of a job is launched in one runner task
\* at most: a processor whose runner was launched cannot fail any more, so no
\* attempt follows it.
THEOREM LaunchedOnce ==
  ASSUME MaxReplays = 0, Faults \subseteq HarmlessFaults
  PROVE  Spec => []RunsAtMostOnce
<1>1. OneCustodian => RunsAtMostOnce
  <2> SUFFICES ASSUME OneCustodian, NEW j \in Jobs
               PROVE  Cardinality(Launched(j)) <= 1
    BY DEF RunsAtMostOnce
  <2>1. \A a, b \in Launched(j) : a = b
    <3> SUFFICES ASSUME NEW a \in TaskIds, NEW b \in TaskIds, JobOf(a[1]) = j, JobOf(b[1]) = j,
                        task[a] # "none", task[b] # "none"
                 PROVE  a = b
      BY DEF Launched, TaskJob
    <3>1. /\ a[1] \in Entries /\ b[1] \in Entries
          /\ a = <<a[1], a[2]>> /\ b = <<b[1], b[2]>>
      BY DEF TaskIds
    <3>2. a[1] = b[1]
      BY <3>1, OneEntry
    <3>3. a[2] = starts[a[1]] /\ b[2] = starts[b[1]]
      BY DEF OneCustodian, OneRunner
    <3>4. QED
      BY <3>1, <3>2, <3>3
  <2>2. CASE Launched(j) = {}
    BY <2>2, FS_EmptySet
  <2>3. CASE Launched(j) # {}
    <3>1. PICK a \in Launched(j) : TRUE
      BY <2>3
    <3>2. Launched(j) = {a}
      BY <2>1, <3>1
    <3>3. Cardinality({a}) = 1
      BY FS_Singleton
    <3>4. QED
      BY <3>2, <3>3
  <2>4. QED
    BY <2>2, <2>3
<1>2. QED
  BY <1>1, CustodyIsSingle, PTL

(***************************************************************************)
(* Worker crashes, on the "local" backend.  An entry whose worker died     *)
(* starts again and may charge and release once more: a job costs at most  *)
(* one execution per start, and the tenant's counter falls behind by at    *)
(* most one slot per redelivered entry.                                    *)
(***************************************************************************)

\* The workers of the "local" backend, with BullMQ's default maxStalledCount of
\* one, no replays, and no failing command of a worker that lives.
RedeliveredOnce ==
  /\ Backend = "local" /\ MaxReplays = 0 /\ MaxStalls <= 1
  /\ "workerCommandError" \notin Faults

\* The present start of the entry has charged, or the entry is completed.
EntryCharged(e) == proc[e] \in {"charged", "released"} \/ queue[e] = "completed"

\* The present start, or the listener of the last attempt, has released the slot
\* (or the listener died before).
EntryReleased(e) ==
  \/ proc[e] = "released"
  \/ queue[e] = "completed"
  \/ queue[e] = "failed" /\ handler[<<e, Attempts>>] \notin {"notified", "recorded"}

\* Only a redelivery takes an entry back to before its charge and its release.
EntryAdvances(e) ==
  /\ stalls'[e] >= stalls[e]
  /\ EntryCharged(e) => EntryCharged(e)' \/ stalls'[e] > stalls[e]
  /\ EntryReleased(e) => EntryReleased(e)' \/ stalls'[e] > stalls[e]

LEMMA OwnEntry ==
  ASSUME MaxReplays = 0
  PROVE  /\ \A e, g \in Entries : JobOf(e) = JobOf(g) => e = g
         /\ \A e \in Entries : e = <<JobOf(e), 0>> /\ <<e, Attempts>> \in Failures
BY AttemptsAssumption DEF Entries, JobOf, Failures

\* The listener that goes beyond its first command is the last attempt's, of an
\* entry that failed.
LEMMA ListenerOfFailed ==
  ASSUME AttemptInv, NEW f \in Failures, handler[f] \in {"recorded", "released", "copied"}
  PROVE  f = <<f[1], Attempts>> /\ queue[f[1]] = "failed"
<1>1. f[1] \in Entries /\ f = <<f[1], f[2]>> /\ f[2] = Attempts /\ f[2] <= made[f[1]]
  BY DEF Failures, AttemptInv, ListenersCounted
<1>2. queue[f[1]] \in QueueStates /\ made[f[1]] \in Nat
  BY <1>1 DEF AttemptInv, TypeInv, TypeOK, QueueTypeOK
<1>3. QED
  BY <1>1, <1>2, AttemptsAssumption DEF AttemptInv, AttemptsCounted, Pending, QueueStates

\* A step that keeps the queue, and moves one processor forward.
LEMMA ProceedAdvances ==
  ASSUME TypeOK, NEW e \in Entries, NEW from, NEW to, Proceed(e, from, to),
         UNCHANGED <<queue, stalls, handler>>,
         from \in {"charged", "released"} => to \in {"charged", "released"},
         from # "released"
  PROVE  \A g \in Entries : EntryAdvances(g)
<1>1. /\ proc[e] = from /\ proc'[e] = to
      /\ \A g \in Entries : g # e => proc'[g] = proc[g]
  BY DEF Proceed, TypeOK, WorkerTypeOK
<1>2. \A g \in Entries : stalls[g] \in Nat
  BY DEF TypeOK, QueueTypeOK
<1>3. QED
  BY <1>1, <1>2 DEF EntryAdvances, EntryCharged, EntryReleased

LEMMA ProcessorAdvances ==
  ASSUME RedeliveredOnce, AttemptInv, NEW e \in Entries, ProcessorStep(e)
  PROVE  \A g \in Entries : EntryAdvances(g)
<1> USE DEF AttemptInv, TypeInv
<1>1. /\ Backend = "local" /\ "workerCommandError" \notin Faults
      /\ \A g \in Entries : stalls[g] \in Nat
  BY DEF RedeliveredOnce, TypeOK, QueueTypeOK
<1>2. CASE MarkRunning(e) \/ ExecuteLocalRunner(e) \/ RecordResult(e) \/ IncrementDailyCost(e)
            \/ DecrementActiveQuota(e)
  BY <1>2, ProceedAdvances
     DEF MarkRunning, ExecuteLocalRunner, RecordResult, IncrementDailyCost, DecrementActiveQuota,
         queueVars
<1>3. CASE DispatchEcsRunner(e) \/ MarkDispatched(e) \/ DispatchAnswerLost(e)
  BY <1>1, <1>3
     DEF DispatchEcsRunner, MarkDispatched, DispatchAnswerLost, Proceed, TasksCounted
<1>4. CASE FinishAttempt(e)
  <2>1. /\ proc[e] # "idle" /\ proc'[e] = "idle" /\ queue'[e] = "completed"
        /\ queue[e] = "active" /\ UNCHANGED <<stalls, handler>>
        /\ \A g \in Entries : g # e => proc'[g] = proc[g] /\ queue'[g] = queue[g]
    BY <1>4 DEF FinishAttempt, Proceed, MoveToCompleted, Move, TypeOK, WorkerTypeOK, QueueTypeOK
  <2>2. QED
    BY <1>1, <2>1 DEF EntryAdvances, EntryCharged, EntryReleased
<1>5. CASE AttemptThrows(e)
  <2>1. /\ proc[e] = "running" /\ proc'[e] = "idle" /\ queue[e] = "active"
        /\ UNCHANGED stalls
        /\ handler' = [handler EXCEPT ![<<e, made[e] + 1>>] = "notified"]
        /\ \A g \in Entries : g # e => proc'[g] = proc[g] /\ queue'[g] = queue[g]
    BY <1>1, <1>5
       DEF AttemptThrows, Proceed, NotifyFailure, MoveToFailed, Move, TypeOK, WorkerTypeOK, QueueTypeOK
  <2>2. \A g \in Entries : g # e => handler'[<<g, Attempts>>] = handler[<<g, Attempts>>]
    BY <2>1, AttemptsAssumption DEF TypeOK, WorkerTypeOK, Failures
  <2>3. QED
    BY <1>1, <2>1, <2>2 DEF EntryAdvances, EntryCharged, EntryReleased
<1>6. QED
  BY <1>2, <1>3, <1>4, <1>5 DEF ProcessorStep

LEMMA ListenerAdvances ==
  ASSUME AttemptInv, NEW f \in Failures, HandlerStep(f)
  PROVE  \A g \in Entries : EntryAdvances(g)
<1> USE DEF AttemptInv, TypeInv
<1>1. UNCHANGED <<proc, queue, stalls>>
  BY DEF HandlerStep, MarkRetrying, MarkFailed, ReleaseFailed, CopyToDlq, MarkDeadLettered, queueVars
<1>2. \E from \in HandlerStates, to \in HandlerStates :
        Handle(f, from, to) /\ (from \notin {"notified", "recorded"} => to \notin {"notified", "recorded"})
  BY DEF HandlerStep, MarkRetrying, MarkFailed, ReleaseFailed, CopyToDlq, MarkDeadLettered, HandlerStates
<1>3. \A g \in Failures : handler[g] \notin {"notified", "recorded"} =>
                            handler'[g] \notin {"notified", "recorded"}
  BY <1>2 DEF Handle, TypeOK, WorkerTypeOK
<1>4. \A g \in Entries : <<g, Attempts>> \in Failures /\ stalls[g] \in Nat
  BY AttemptsAssumption DEF Failures, TypeOK, QueueTypeOK
<1>5. QED
  BY <1>1, <1>3, <1>4 DEF EntryAdvances, EntryCharged, EntryReleased

LEMMA CrashAdvances ==
  ASSUME AttemptInv, NEW w \in Workers, WorkerCrash(w)
  PROVE  \A g \in Entries : EntryAdvances(g)
<1> USE DEF AttemptInv, TypeInv
<1>1. /\ ActiveAt(w) \subseteq Entries
      /\ \A e \in Entries :
           IF e \in ActiveAt(w) THEN stalls'[e] = stalls[e] + 1
           ELSE proc'[e] = proc[e] /\ queue'[e] = queue[e] /\ stalls'[e] = stalls[e]
      /\ \A f \in Failures : handler'[f] = handler[f] \/ handler'[f] = "lost"
  BY DEF WorkerCrash, Redeliver, ActiveAt
<1>2. \A g \in Entries : <<g, Attempts>> \in Failures /\ stalls[g] \in Nat
  BY AttemptsAssumption DEF Failures, TypeOK, QueueTypeOK
<1>3. QED
  BY <1>1, <1>2 DEF EntryAdvances, EntryCharged, EntryReleased

LEMMA StepAdvances ==
  ASSUME RedeliveredOnce, AttemptInv, [Next]_vars
  PROVE  \A g \in Entries : EntryAdvances(g)
<1> USE DEF AttemptInv, TypeInv
<1>1. \A g \in Entries : stalls[g] \in Nat
  BY DEF TypeOK, QueueTypeOK
<1>2. ASSUME UNCHANGED <<stalls, proc, handler>>,
             \A g \in Entries : queue[g] \in {"completed", "failed"} => queue'[g] = queue[g]
      PROVE  \A g \in Entries : EntryAdvances(g)
  BY <1>1, <1>2 DEF EntryAdvances, EntryCharged, EntryReleased
<1>3. \A g \in Entries : queue[g] \in {"completed", "failed"} => queue'[g] = queue[g]
  BY QueueGrows
<1>4. CASE Submissions
  <2>1. UNCHANGED <<stalls, proc, handler>>
    BY <1>4
       DEF Submissions, SubmissionNext, Midnight, SubmissionStep, RejectSubmission, ReserveQuota,
           ContinueSubmission, WriteJobHash, AppendHistoryItem, EnqueueJob, AcceptSubmission,
           RollbackReservedQuota, DeleteJobHash, DropHistoryItem, FailSubmission, SubmissionThrows,
           HandlerThrows, ApiCrash, Add, queueVars, workerVars
  <2>2. QED
    BY <1>2, <1>3, <2>1
<1>5. CASE Replays
  <2>1. UNCHANGED <<stalls, proc, handler>>
    BY <1>5
       DEF Replays, ReplayStep, FetchJobs, AddReplay, RemoveDeadLetter, SkipDeadLetter,
           FinishReplay, ReplayCrash, Add, queueVars, workerVars
  <2>2. QED
    BY <1>2, <1>3, <2>1
<1>6. CASE Tasks \/ BrokenTasks \/ UNCHANGED vars
  <2>1. UNCHANGED <<stalls, proc, handler>>
    BY <1>6
       DEF Tasks, BrokenTasks, RunTask, BreakTask, ExecuteUserCode, RecordTaskResult, ChargeTask,
           ReleaseTaskSlot, ExitTask, EnterFallback, FallbackThrows, KillTask, vars, queueVars,
           workerVars
  <2>2. QED
    BY <1>2, <1>3, <2>1
<1>7. CASE Backoffs
  <2>1. UNCHANGED <<stalls, proc, handler>>
    BY <1>7 DEF Backoffs, PromoteDelayed, Promote, workerVars
  <2>2. QED
    BY <1>2, <1>3, <2>1
<1>8. CASE Fetches
  <2>1. PICK w \in Workers, e \in Entries : TakeJob(w, e)
    BY <1>8 DEF Fetches
  <2>2. /\ proc[e] = "idle" /\ UNCHANGED <<stalls, handler>>
        /\ \A g \in Entries : g # e => proc'[g] = proc[g]
    BY <2>1 DEF TakeJob, Take, Proceed, TypeOK, WorkerTypeOK
  <2>3. queue[e] = "waiting"
    BY <2>1 DEF TakeJob, Take, Move
  <2>4. QED
    BY <1>1, <1>3, <2>2, <2>3 DEF EntryAdvances, EntryCharged, EntryReleased
<1>9. QED
  BY <1>4, <1>5, <1>6, <1>7, <1>8, ProcessorAdvances, ListenerAdvances, CrashAdvances
     DEF Next, Processors, Listeners, Crashes

(***************************************************************************)
(* The cost.                                                               *)
(***************************************************************************)

\* Each start of an entry has charged once at most.
StartsCharge ==
  \A e \in Entries : charges[JobOf(e)] <= stalls[e] + (IF EntryCharged(e) THEN 1 ELSE 0)

CrashChargeInv == AttemptInv /\ StartsCharge

LEMMA CrashChargeInit == Init => CrashChargeInv
<1> SUFFICES ASSUME Init PROVE StartsCharge
  BY AttemptInit DEF CrashChargeInv
<1>1. \A e \in Entries : charges[JobOf(e)] = 0 /\ stalls[e] = 0
  BY EntriesShape DEF Init, StoreInit, QueueInit
<1>2. QED
  BY <1>1 DEF StartsCharge

\* Only the processor charges.
LEMMA LocalCharges ==
  ASSUME RedeliveredOnce, AttemptInv, [Next]_vars
  PROVE  \/ UNCHANGED charges
         \/ \E e \in Entries : IncrementDailyCost(e)
<1>1. ASSUME NEW e \in Entries, ProcessorStep(e), ~IncrementDailyCost(e) PROVE UNCHANGED charges
  BY <1>1
     DEF ProcessorStep, MarkRunning, ExecuteLocalRunner, RecordResult, DecrementActiveQuota,
         DispatchEcsRunner, MarkDispatched, FinishAttempt, AttemptThrows, DispatchAnswerLost, storeVars
<1>2. ASSUME NEW a \in TaskIds, RunTask(a) \/ BreakTask(a) PROVE UNCHANGED charges
  <2>1. ~ChargeTask(a)
    BY DEF RedeliveredOnce, ChargeTask, Advance, AttemptInv, TasksCounted
  <2>2. QED
    BY <1>2, <2>1
       DEF RunTask, BreakTask, ExecuteUserCode, RecordTaskResult, ReleaseTaskSlot, ExitTask,
           EnterFallback, FallbackThrows, KillTask, storeVars
<1>3. ASSUME NEW f \in Failures, HandlerStep(f) PROVE UNCHANGED charges
  BY <1>3
     DEF HandlerStep, MarkRetrying, MarkFailed, ReleaseFailed, CopyToDlq, MarkDeadLettered, storeVars
<1>4. CASE Submissions
  BY <1>4
     DEF Submissions, SubmissionNext, Midnight, SubmissionStep, RejectSubmission, ReserveQuota,
         ContinueSubmission, WriteJobHash, AppendHistoryItem, EnqueueJob, AcceptSubmission,
         RollbackReservedQuota, DeleteJobHash, DropHistoryItem, FailSubmission, SubmissionThrows,
         HandlerThrows, ApiCrash, storeVars
<1>5. CASE Fetches \/ Backoffs \/ Crashes \/ Replays \/ UNCHANGED vars
  BY <1>5
     DEF Fetches, TakeJob, Backoffs, PromoteDelayed, Crashes, WorkerCrash, Replays, ReplayStep,
         FetchJobs, AddReplay, RemoveDeadLetter, SkipDeadLetter, FinishReplay, ReplayCrash, vars,
         storeVars
<1>6. QED
  BY <1>1, <1>2, <1>3, <1>4, <1>5 DEF Next, Processors, Listeners, Tasks, BrokenTasks

LEMMA CrashChargeStep ==
  ASSUME RedeliveredOnce, CrashChargeInv, [Next]_vars
  PROVE  CrashChargeInv'
<1>1. AttemptInv /\ AttemptInv' /\ \A g \in Entries : EntryAdvances(g)
  BY AttemptStep, StepAdvances DEF CrashChargeInv
<1>2. \A g \in Entries : /\ stalls[g] \in Nat /\ stalls'[g] \in Nat
                         /\ charges[JobOf(g)] \in Nat /\ JobOf(g) \in Jobs
  BY <1>1, EntriesShape DEF AttemptInv, TypeInv, TypeOK, QueueTypeOK, StoreTypeOK
<1>3. CASE UNCHANGED charges
  <2>1. ASSUME NEW g \in Entries
        PROVE  charges[JobOf(g)] <= stalls'[g] + (IF EntryCharged(g)' THEN 1 ELSE 0)
    <3>1. charges[JobOf(g)] <= stalls[g] + (IF EntryCharged(g) THEN 1 ELSE 0)
      BY DEF CrashChargeInv, StartsCharge
    <3>2. stalls'[g] >= stalls[g] /\ (EntryCharged(g) => EntryCharged(g)' \/ stalls'[g] > stalls[g])
      BY <1>1 DEF EntryAdvances
    <3> HIDE DEF EntryCharged
    <3>3. QED
      BY <1>2, <3>1, <3>2
  <2>2. QED
    BY <1>1, <1>3, <2>1 DEF CrashChargeInv, StartsCharge, EntryCharged
<1>4. ASSUME NEW e \in Entries, IncrementDailyCost(e)
      PROVE  CrashChargeInv'
  <2>1. proc[e] = "recorded" /\ proc'[e] = "charged" /\ UNCHANGED <<queue, stalls>>
        /\ charges' = [charges EXCEPT ![JobOf(e)] = @ + 1]
        /\ \A g \in Entries : g # e => proc'[g] = proc[g]
    BY <1>1, <1>4
       DEF IncrementDailyCost, Proceed, ChargeCost, queueVars, AttemptInv, TypeInv, TypeOK, WorkerTypeOK
  <2>2. queue[e] = "active"
    BY <1>1, <2>1 DEF AttemptInv, AttemptsCounted
  <2>3. charges'[JobOf(e)] = charges[JobOf(e)] + 1
        /\ \A g \in Entries : g # e => charges'[JobOf(g)] = charges[JobOf(g)]
    BY <1>1, <1>2, <2>1, OwnEntry
       DEF RedeliveredOnce, AttemptInv, TypeInv, TypeOK, StoreTypeOK
  <2>4. charges'[JobOf(e)] <= stalls'[e] + (IF EntryCharged(e)' THEN 1 ELSE 0)
    <3>1. ~EntryCharged(e) /\ EntryCharged(e)'
      BY <2>1, <2>2 DEF EntryCharged
    <3>2. charges[JobOf(e)] <= stalls[e]
      BY <1>2, <3>1 DEF CrashChargeInv, StartsCharge
    <3>3. QED
      BY <1>2, <2>1, <2>3, <3>1, <3>2
  <2>5. \A g \in Entries : g # e =>
          charges'[JobOf(g)] <= stalls'[g] + (IF EntryCharged(g)' THEN 1 ELSE 0)
    BY <2>1, <2>3 DEF CrashChargeInv, StartsCharge, EntryCharged
  <2>6. StartsCharge'
    BY <2>4, <2>5 DEF StartsCharge, EntryCharged
  <2>7. QED
    BY <1>1, <2>6 DEF CrashChargeInv
<1>5. QED
  BY <1>1, <1>3, <1>4, LocalCharges

\* The bound on what a job costs.
LEMMA ChargesAreBounded ==
  ASSUME RedeliveredOnce, CrashChargeInv
  PROVE  ChargesBounded
<1> SUFFICES ASSUME NEW j \in Jobs
             PROVE  charges[j] <= 1 + Cardinality({e \in Entries : JobOf(e) = j /\ stalls[e] > 0})
  BY DEF ChargesBounded
<1> DEFINE e == <<j, 0>>
           S == {g \in Entries : JobOf(g) = j /\ stalls[g] > 0}
<1>1. e \in Entries /\ JobOf(e) = j /\ S \subseteq {e}
  BY EntriesShape, OwnEntry DEF RedeliveredOnce, JobOf
<1>2. /\ stalls[e] \in Nat /\ stalls[e] <= 1 /\ charges[j] \in Nat
      /\ charges[j] <= stalls[e] + (IF EntryCharged(e) THEN 1 ELSE 0)
  BY <1>1, BoundsAssumption
     DEF CrashChargeInv, StartsCharge, RedeliveredOnce, AttemptInv, AttemptsCounted, TypeInv,
         TypeOK, QueueTypeOK, StoreTypeOK
<1> HIDE DEF e, S
<1>3. IsFiniteSet(S) /\ Cardinality(S) \in Nat
  BY <1>1, FS_Singleton, FS_Subset, FS_CardinalityType
<1>4. CASE stalls[e] = 0
  BY <1>2, <1>3, <1>4 DEF S
<1>5. CASE stalls[e] > 0
  <2>1. S = {e}
    BY <1>1, <1>5 DEF S
  <2>2. Cardinality(S) = 1
    BY <2>1, FS_Singleton
  <2>3. QED
    BY <1>2, <2>2 DEF S
<1>6. QED
  BY <1>2, <1>4, <1>5

\* However often workers die on the "local" backend, a job is charged once for
\* its result and once more if it was redelivered.
THEOREM CrashesChargeOnce ==
  ASSUME RedeliveredOnce
  PROVE  Spec => []ChargesBounded
<1>1. CrashChargeInv /\ [Next]_vars => CrashChargeInv'
  BY CrashChargeStep
<1>2. CrashChargeInv => ChargesBounded
  BY ChargesAreBounded
<1>3. QED
  BY <1>1, <1>2, CrashChargeInit, PTL DEF Spec

(***************************************************************************)
(* The counter.                                                            *)
(***************************************************************************)

\* Until its first start is over, an entry's job holds its slot.
FirstStartHolds ==
  \A e \in Entries :
    queue[e] # "none" /\ ~EntryReleased(e) /\ stalls[e] = 0 => JobOf(e) \in holders

Queued == {e \in Entries : queue[e] # "none"}

\* The redelivered entries of a tenant that may have released twice.
Drifted(t) == {e \in Entries : Owner[JobOf(e)] = t /\ stalls[e] > 0 /\ EntryReleased(e)}

Redelivered(t) == {e \in Entries : Owner[JobOf(e)] = t /\ stalls[e] > 0}

BoundedDrift ==
  /\ IsFiniteSet(holders) /\ IsFiniteSet(Queued)
  /\ FirstStartHolds
  /\ \A t \in Tenants : Cardinality(HoldersOf(t)) <= active[t] + Cardinality(Drifted(t))

DriftInv == AdmissionInv /\ BoundedDrift

\* What the drift depends on in the handlers: one of them has a slot to roll back
\* or to pass to the queue, and takes none for a job that has one.
OrderlyHandlers ==
  \A j \in Jobs : /\ HandlerHasSlot(j) => j \in holders
                  /\ api[j] = "failing" => queue[<<j, 0>>] = "none"
                  /\ ReserveQuota(j) => j \notin holders

LEMMA DriftedFinite ==
  ASSUME AttemptInv, IsFiniteSet(Queued), NEW t
  PROVE  /\ IsFiniteSet(Drifted(t)) /\ Cardinality(Drifted(t)) \in Nat
         /\ IsFiniteSet(Redelivered(t)) /\ Cardinality(Redelivered(t)) \in Nat
         /\ Cardinality(Drifted(t)) <= Cardinality(Redelivered(t))
<1>1. Drifted(t) \subseteq Redelivered(t)
  BY DEF Drifted, Redelivered
<1>2. Redelivered(t) \subseteq Queued
  BY DEF Redelivered, Queued, AttemptInv, AttemptsCounted
<1>3. IsFiniteSet(Redelivered(t))
  BY <1>2, FS_Subset
<1>4. QED
  BY <1>1, <1>3, FS_Subset, FS_CardinalityType

LEMMA DriftInit == Init => DriftInv
<1> SUFFICES ASSUME Init PROVE DriftInv
  OBVIOUS
<1>1. holders = {} /\ IsFiniteSet(holders)
  BY FS_EmptySet DEF Init, StoreInit
<1>2. Queued = {} /\ IsFiniteSet(Queued)
  <2>1. Queued = {}
    BY DEF Queued, Init, QueueInit
  <2>2. QED
    BY <2>1, FS_EmptySet
<1>3. FirstStartHolds
  BY DEF FirstStartHolds, Init, QueueInit
<1>4. AdmissionInv /\ AttemptInv
  BY AdmissionInit DEF AdmissionInv, LineageInv
<1>5. \A t \in Tenants : Cardinality(HoldersOf(t)) = 0 /\ active[t] = 0
  <2>1. \A t \in Tenants : HoldersOf(t) = {} /\ active[t] = 0
    BY <1>1 DEF HoldersOf, Init, StoreInit
  <2>2. QED
    BY <2>1, FS_EmptySet
<1>6. \A t \in Tenants : Cardinality(Drifted(t)) \in Nat
  BY <1>2, <1>4, DriftedFinite
<1>7. QED
  BY <1>1, <1>2, <1>3, <1>4, <1>5, <1>6 DEF DriftInv, BoundedDrift

LEMMA QueuedFinite ==
  ASSUME MaxReplays = 0, TypeOK, IsFiniteSet(Queued), [Next]_vars
  PROVE  IsFiniteSet(Queued')
<1>1. CASE \E j \in Jobs : EnqueueJob(j)
  <2>1. PICK j \in Jobs : EnqueueJob(j)
    BY <1>1
  <2>2. queue' = [queue EXCEPT ![<<j, 0>>] = "waiting"]
    BY <2>1 DEF EnqueueJob, Add, Move
  <2>3. Queued' \subseteq Queued \cup {<<j, 0>>}
    BY <2>2 DEF Queued, TypeOK, QueueTypeOK
  <2>4. IsFiniteSet(Queued \cup {<<j, 0>>})
    BY FS_AddElement
  <2>5. QED
    BY <2>3, <2>4, FS_Subset
<1>2. CASE ~\E j \in Jobs : EnqueueJob(j)
  <2>1. \A e \in Entries : e[2] = 0
    BY DEF Entries
  <2>2. Queued' \subseteq Queued
    BY <1>2, <2>1, QueueGrows DEF Queued
  <2>3. QED
    BY <2>2, FS_Subset
<1>3. QED
  BY <1>1, <1>2

\* A slot is released by its handler, or by the start or the listener that now
\* is past its release.
LEMMA ReleasedBy ==
  ASSUME RedeliveredOnce, AttemptInv, OrderlyHandlers, [Next]_vars, ~UNCHANGED <<active, holders>>
  PROVE  \/ \E j \in Jobs : Reserves(j) /\ j \notin holders
         \/ \E j \in Jobs : j \in holders /\ ReleaseSlot(j) /\ queue[<<j, 0>>] = "none"
         \/ \E e \in Entries : /\ ReleaseSlot(JobOf(e)) /\ queue[e] # "none"
                               /\ ~EntryReleased(e) /\ EntryReleased(e)' /\ UNCHANGED stalls
<1> USE DEF AttemptInv, TypeInv
<1>1. ASSUME NEW j \in Jobs, SubmissionStep(j)
      PROVE  \/ Reserves(j) /\ j \notin holders
             \/ j \in holders /\ ReleaseSlot(j) /\ queue[<<j, 0>>] = "none"
  <2>1. ReserveQuota(j) \/ RollbackReservedQuota(j)
    BY <1>1
       DEF SubmissionStep, RejectSubmission, ContinueSubmission, WriteJobHash, AppendHistoryItem,
           EnqueueJob, AcceptSubmission, DeleteJobHash, DropHistoryItem, FailSubmission,
           SubmissionThrows, HandlerThrows, ApiCrash, storeVars
  <2>2. CASE ReserveQuota(j)
    <3>1. api[j] = "idle" /\ api'[j] = "reserved" /\ HasQuota(Owner[j], day) /\ ReserveSlot(j, day)
      BY <2>2 DEF ReserveQuota, Goto, TypeOK, ApiTypeOK
    <3>2. QED
      BY <2>2, <3>1 DEF Reserves, ReserveSlot, OrderlyHandlers
  <2>3. CASE RollbackReservedQuota(j)
    <3>1. api[j] = "failing" /\ RollbackSlot(j, reservedOn[j])
      BY <2>3 DEF RollbackReservedQuota, Goto
    <3>2. QED
      BY <3>1 DEF RollbackSlot, ReleaseSlot, OrderlyHandlers, HandlerHasSlot
  <2>4. QED
    BY <2>1, <2>2, <2>3
<1>2. ASSUME NEW e \in Entries, ProcessorStep(e)
      PROVE  /\ ReleaseSlot(JobOf(e)) /\ queue[e] # "none"
             /\ ~EntryReleased(e) /\ EntryReleased(e)' /\ UNCHANGED stalls
  <2>1. DecrementActiveQuota(e)
    BY <1>2
       DEF ProcessorStep, MarkRunning, ExecuteLocalRunner, RecordResult, IncrementDailyCost,
           DispatchEcsRunner, MarkDispatched, FinishAttempt, AttemptThrows, DispatchAnswerLost,
           storeVars
  <2>2. proc[e] = "charged" /\ proc'[e] = "released" /\ ReleaseSlot(JobOf(e)) /\ UNCHANGED stalls
    BY <2>1 DEF DecrementActiveQuota, Proceed, TypeOK, WorkerTypeOK, queueVars
  <2>3. queue[e] = "active"
    BY <2>2 DEF AttemptsCounted
  <2>4. QED
    BY <2>2, <2>3 DEF EntryReleased
<1>3. ASSUME NEW f \in Failures, HandlerStep(f)
      PROVE  \E e \in Entries : /\ ReleaseSlot(JobOf(e)) /\ queue[e] # "none"
                                /\ ~EntryReleased(e) /\ EntryReleased(e)' /\ UNCHANGED stalls
  <2>1. ReleaseFailed(f)
    BY <1>3
       DEF HandlerStep, MarkRetrying, MarkFailed, CopyToDlq, MarkDeadLettered, storeVars
  <2>2. /\ handler[f] = "recorded" /\ handler'[f] = "released"
        /\ ReleaseSlot(JobOf(f[1])) /\ UNCHANGED <<queue, stalls, proc>>
    BY <2>1 DEF ReleaseFailed, Handle, TypeOK, WorkerTypeOK, queueVars
  <2>3. f = <<f[1], Attempts>> /\ queue[f[1]] = "failed" /\ f[1] \in Entries
    BY <2>2, ListenerOfFailed, EntriesShape
  <2>4. proc[f[1]] = "idle"
    BY <2>3 DEF AttemptsCounted
  <2>5. QED
    BY <2>2, <2>3, <2>4 DEF EntryReleased
<1>4. ASSUME NEW a \in TaskIds, RunTask(a) \/ BreakTask(a) PROVE FALSE
  <2>1. task[a] # "none"
    BY <1>4
       DEF RunTask, BreakTask, ExecuteUserCode, RecordTaskResult, ChargeTask, ReleaseTaskSlot,
           ExitTask, EnterFallback, FallbackThrows, KillTask, Advance
  <2>2. QED
    BY <2>1 DEF TasksCounted, RedeliveredOnce
<1>5. ~Midnight /\ ~UNCHANGED vars
  BY DEF Midnight, vars, storeVars
<1>6. ~(Fetches \/ Backoffs \/ Crashes \/ Replays)
  BY DEF Fetches, TakeJob, Backoffs, PromoteDelayed, Crashes, WorkerCrash, Replays, ReplayStep,
         FetchJobs, AddReplay, RemoveDeadLetter, SkipDeadLetter, FinishReplay, ReplayCrash, storeVars
<1>7. QED
  BY <1>1, <1>2, <1>3, <1>4, <1>5, <1>6
     DEF Next, Submissions, SubmissionNext, Processors, Listeners, Tasks, BrokenTasks

\* What may have drifted stays so: an entry is redelivered once at most.
LEMMA DriftedStay ==
  ASSUME RedeliveredOnce, AttemptInv, [Next]_vars, NEW t
  PROVE  Drifted(t) \subseteq Drifted(t)'
<1> SUFFICES ASSUME NEW e \in Entries, stalls[e] > 0, EntryReleased(e)
             PROVE  stalls'[e] > 0 /\ EntryReleased(e)'
  BY DEF Drifted
<1>1. AttemptInv' /\ EntryAdvances(e)
  BY AttemptStep, StepAdvances
<1>2. stalls[e] \in Nat /\ stalls'[e] \in Nat /\ stalls'[e] <= 1
  BY <1>1, BoundsAssumption
     DEF RedeliveredOnce, AttemptInv, AttemptsCounted, TypeInv, TypeOK, QueueTypeOK
<1>3. stalls'[e] >= stalls[e] /\ (EntryReleased(e)' \/ stalls'[e] > stalls[e])
  BY <1>1 DEF EntryAdvances
<1>4. QED
  BY <1>2, <1>3

LEMMA FirstStartHoldsStep ==
  ASSUME RedeliveredOnce, AttemptInv, OrderlyHandlers, FirstStartHolds, [Next]_vars
  PROVE  FirstStartHolds'
<1> SUFFICES ASSUME NEW e \in Entries, queue'[e] # "none", ~EntryReleased(e)', stalls'[e] = 0
             PROVE  JobOf(e) \in holders'
  BY DEF FirstStartHolds, EntryReleased
<1>1. TypeOK /\ JobOf(e) \in Jobs /\ e = <<JobOf(e), 0>>
  BY EntriesShape, OwnEntry DEF AttemptInv, TypeInv, RedeliveredOnce
<1>2. EntryAdvances(e)
  BY <1>1, StepAdvances
<1>3. stalls[e] \in Nat
  BY <1>1 DEF TypeOK, QueueTypeOK
<1>4. stalls[e] = 0 /\ ~EntryReleased(e)
  BY <1>2, <1>3 DEF EntryAdvances
<1>5. CASE queue[e] = "none"
  <2>1. PICK j \in Jobs : EnqueueJob(j) /\ e = <<j, 0>>
    BY <1>1, <1>5, QueueGrows
  <2>2. api[j] = "listed" /\ UNCHANGED holders /\ JobOf(e) = j
    BY <2>1 DEF EnqueueJob, Goto, storeVars, JobOf
  <2>3. QED
    BY <1>1, <2>2 DEF OrderlyHandlers, HandlerHasSlot
<1>6. CASE queue[e] # "none"
  <2>1. JobOf(e) \in holders
    BY <1>4, <1>6 DEF FirstStartHolds
  <2>2. CASE UNCHANGED holders
    BY <2>1, <2>2
  <2>3. CASE \E j \in Jobs : Reserves(j)
    BY <2>1, <2>3 DEF Reserves
  <2>4. ASSUME NEW j \in Jobs, ReleaseSlot(j), queue[<<j, 0>>] = "none"
        PROVE  JobOf(e) \in holders'
    <3>1. JobOf(e) # j
      BY <1>1, <1>6, <2>4
    <3>2. QED
      BY <2>1, <2>4, <3>1 DEF ReleaseSlot
  <2>5. ASSUME NEW g \in Entries, ReleaseSlot(JobOf(g)), EntryReleased(g)'
        PROVE  JobOf(e) \in holders'
    <3>1. JobOf(e) # JobOf(g)
      BY <2>5, OwnEntry DEF RedeliveredOnce
    <3>2. QED
      BY <2>1, <2>5, <3>1 DEF ReleaseSlot
  <2>6. QED
    BY <1>1, <2>2, <2>3, <2>4, <2>5, ReleasedBy
<1>7. QED
  BY <1>5, <1>6

\* A floored decrement takes the counter one down at most.
LEMMA ReleasedCounter ==
  ASSUME TypeOK, NEW j \in Jobs, ReleaseSlot(j), NEW t \in Tenants
  PROVE  /\ active[t] \in Nat /\ active'[t] \in Nat
         /\ t # Owner[j] => active'[t] = active[t]
         /\ active'[t] + 1 >= active[t]
BY EntriesShape DEF ReleaseSlot, FlooredDecr, TypeOK, StoreTypeOK

LEMMA BoundedDriftStep ==
  ASSUME RedeliveredOnce, AttemptInv, OrderlyHandlers, BoundedDrift, [Next]_vars
  PROVE  BoundedDrift'
<1>1. TypeOK /\ MaxReplays = 0
  BY DEF AttemptInv, TypeInv, RedeliveredOnce
<1>2. AttemptInv' /\ FirstStartHolds'
  BY AttemptStep, FirstStartHoldsStep DEF BoundedDrift
<1>3. IsFiniteSet(Queued')
  BY <1>1, QueuedFinite DEF BoundedDrift
<1>4. /\ IsFiniteSet(holders) /\ IsFiniteSet(Queued)
      /\ \A t \in Tenants : active[t] \in Nat
  BY <1>1 DEF BoundedDrift, TypeOK, StoreTypeOK
<1>5. ASSUME NEW t \in Tenants
      PROVE  /\ Cardinality(HoldersOf(t)) \in Nat
             /\ Cardinality(Drifted(t)) \in Nat /\ Cardinality(Drifted(t)') \in Nat
             /\ IsFiniteSet(Drifted(t)) /\ IsFiniteSet(Drifted(t)')
             /\ Cardinality(Drifted(t)) <= Cardinality(Drifted(t)')
             /\ Cardinality(HoldersOf(t)) <= active[t] + Cardinality(Drifted(t))
  <2>1. Drifted(t)' \subseteq Queued'
    BY <1>2 DEF Drifted, Queued, AttemptInv, AttemptsCounted
  <2>2. IsFiniteSet(Drifted(t)')
    BY <1>3, <2>1, FS_Subset
  <2>3. Drifted(t) \subseteq Drifted(t)'
    BY <1>1, DriftedStay
  <2>4. Cardinality(Drifted(t)) <= Cardinality(Drifted(t)') /\ Cardinality(Drifted(t)') \in Nat
    BY <2>2, <2>3, FS_Subset, FS_CardinalityType
  <2>5. QED
    BY <1>1, <1>4, <2>2, <2>4, DriftedFinite, HoldersFinite DEF BoundedDrift
<1>6. CASE UNCHANGED <<active, holders>>
  <2>1. \A t \in Tenants : Cardinality(HoldersOf(t)') <= active'[t] + Cardinality(Drifted(t)')
    <3>1. \A t \in Tenants : HoldersOf(t)' = HoldersOf(t) /\ active'[t] = active[t]
      BY <1>6 DEF HoldersOf
    <3>2. QED
      BY <1>4, <1>5, <3>1
  <2>2. QED
    BY <1>2, <1>3, <1>4, <1>6, <2>1 DEF BoundedDrift
<1>7. ASSUME NEW j \in Jobs, Reserves(j), j \notin holders
      PROVE  BoundedDrift'
  <2>1. holders' = holders \cup {j} /\ Owner[j] \in Tenants
        /\ active'[Owner[j]] = active[Owner[j]] + 1
        /\ \A t \in Tenants : t # Owner[j] => active'[t] = active[t]
    BY <1>1, <1>7, EntriesShape DEF Reserves, TypeOK, StoreTypeOK
  <2>2. /\ IsFiniteSet(holders')
        /\ Cardinality(HoldersOf(Owner[j])') = Cardinality(HoldersOf(Owner[j])) + 1
        /\ \A t : t # Owner[j] => HoldersOf(t)' = HoldersOf(t)
    BY <1>4, <1>7, <2>1, HoldersGained
  <2>3. ASSUME NEW t \in Tenants
        PROVE  Cardinality(HoldersOf(t)') <= active'[t] + Cardinality(Drifted(t)')
    <3>1. CASE t = Owner[j]
      BY <1>4, <1>5, <2>1, <2>2, <3>1
    <3>2. CASE t # Owner[j]
      BY <1>4, <1>5, <2>1, <2>2, <3>2
    <3>3. QED
      BY <3>1, <3>2
  <2>4. QED
    BY <1>2, <1>3, <2>2, <2>3 DEF BoundedDrift
<1>8. ASSUME NEW j \in Jobs, ReleaseSlot(j),
             j \in holders \/ \E e \in Entries : /\ JobOf(e) = j /\ e \notin Drifted(Owner[j])
                                                /\ e \in Drifted(Owner[j])'
      PROVE  BoundedDrift'
  <2>1. holders' = holders \ {j} /\ Owner[j] \in Tenants
    BY <1>8, EntriesShape DEF ReleaseSlot
  <2>2. /\ IsFiniteSet(holders')
        /\ j \in holders => Cardinality(HoldersOf(Owner[j])') = Cardinality(HoldersOf(Owner[j])) - 1
        /\ j \notin holders => HoldersOf(Owner[j])' = HoldersOf(Owner[j])
        /\ \A t : t # Owner[j] => HoldersOf(t)' = HoldersOf(t)
    BY <1>4, <2>1, HoldersLost
  <2>3. ASSUME NEW t \in Tenants
        PROVE  Cardinality(HoldersOf(t)') <= active'[t] + Cardinality(Drifted(t)')
    <3>1. /\ active[t] \in Nat /\ active'[t] \in Nat
          /\ t # Owner[j] => active'[t] = active[t]
          /\ active'[t] + 1 >= active[t]
      BY <1>1, <1>8, ReleasedCounter
    <3>2. CASE t # Owner[j]
      BY <1>5, <2>2, <3>1, <3>2
    <3>3. CASE t = Owner[j] /\ j \in holders
      BY <1>5, <2>2, <3>1, <3>3
    <3>4. CASE t = Owner[j] /\ j \notin holders
      <4>1. PICK e : e \notin Drifted(t) /\ e \in Drifted(t)'
        BY <1>8, <3>4
      <4>2. Drifted(t) \cup {e} \subseteq Drifted(t)'
        BY <1>1, <4>1, DriftedStay
      <4>3. Cardinality(Drifted(t) \cup {e}) = Cardinality(Drifted(t)) + 1
        BY <1>5, <4>1, FS_AddElement
      <4>4. Cardinality(Drifted(t)) + 1 <= Cardinality(Drifted(t)')
        BY <1>5, <4>2, <4>3, FS_Subset
      <4>5. QED
        BY <1>5, <2>2, <3>1, <3>4, <4>4
    <3>5. QED
      BY <3>2, <3>3, <3>4
  <2>4. QED
    BY <1>2, <1>3, <2>2, <2>3 DEF BoundedDrift
<1>9. ASSUME NEW e \in Entries, ReleaseSlot(JobOf(e)), queue[e] # "none", ~EntryReleased(e),
             EntryReleased(e)', UNCHANGED stalls
      PROVE  BoundedDrift'
  <2>1. JobOf(e) \in Jobs
    BY EntriesShape
  <2>2. CASE JobOf(e) \in holders
    BY <1>8, <1>9, <2>1, <2>2
  <2>3. CASE JobOf(e) \notin holders
    <3>1. stalls[e] # 0 /\ stalls[e] \in Nat
      BY <1>1, <1>9, <2>3 DEF BoundedDrift, FirstStartHolds, TypeOK, QueueTypeOK
    <3>2. e \notin Drifted(Owner[JobOf(e)]) /\ e \in Drifted(Owner[JobOf(e)])'
      BY <1>9, <3>1 DEF Drifted
    <3>3. QED
      BY <1>8, <1>9, <2>1, <3>2
  <2>4. QED
    BY <2>2, <2>3
<1>10. QED
  BY <1>1, <1>6, <1>7, <1>8, <1>9, ReleasedBy

LEMMA DriftStep ==
  ASSUME RedeliveredOnce, DriftInv, [Next]_vars
  PROVE  DriftInv'
<1>1. AdmissionInv' /\ AttemptInv
  BY AdmissionStep DEF DriftInv, AdmissionInv, LineageInv
<1>2. OrderlyHandlers
  BY DEF DriftInv, AdmissionInv, Admission, Admitted, OrderlyHandlers, HandlerHasSlot, ReserveQuota, Goto
<1>3. QED
  BY <1>1, <1>2, BoundedDriftStep DEF DriftInv

\* The bound on how far the counter is behind.
LEMMA DriftIsBounded ==
  ASSUME AttemptInv, BoundedDrift
  PROVE  DriftBounded
<1> SUFFICES ASSUME NEW t \in Tenants
             PROVE  Cardinality(HoldersOf(t)) <= active[t] + Cardinality(Redelivered(t))
  BY DEF DriftBounded, Redelivered
<1>1. IsFiniteSet(Queued) /\ IsFiniteSet(holders) /\ active[t] \in Nat
  BY DEF BoundedDrift, AttemptInv, TypeInv, TypeOK, StoreTypeOK
<1>2. Cardinality(HoldersOf(t)) <= active[t] + Cardinality(Drifted(t))
  BY DEF BoundedDrift
<1>3. QED
  BY <1>1, <1>2, DriftedFinite, HoldersFinite

\* However workers of the "local" backend and API processes die, a tenant's
\* counter falls behind its outstanding reservations by one slot at most for
\* each entry that was redelivered: nothing else makes it admit too much.
THEOREM CrashesDriftOnce ==
  ASSUME RedeliveredOnce
  PROVE  Spec => []DriftBounded
<1>1. DriftInv /\ [Next]_vars => DriftInv'
  BY DriftStep
<1>2. DriftInv => DriftBounded
  BY DriftIsBounded DEF DriftInv, AdmissionInv, LineageInv
<1>3. QED
  BY <1>1, <1>2, DriftInit, PTL DEF Spec
=============================================================================
