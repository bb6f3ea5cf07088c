----------------------------- MODULE SleepProofs -----------------------------
(***************************************************************************)
(* What holds of the sleep controller for all constants.                   *)
(***************************************************************************)
EXTENDS CacheHibernation, TLAPS

(***************************************************************************)
(* Types.  A snapshot is asked for under the name that was just written.   *)
(***************************************************************************)
SnapshotNamed ==
  \A i \in Invocations :
    /\ At(i, "createSnapshot") => Copy(i).name \in Names
    /\ inv[i].then # "createSnapshot"

TypeInv == TypeOK /\ SnapshotNamed

LEMMA ItemFields ==
  \A item \in Items : /\ item.desired \in {"awake", "sleep"} /\ item.phase \in Phases
                      /\ item.name \in Names \cup {NoName} /\ item.proof \in {"none", "young", "old"}
  BY DEF Items

LEMMA ItemTypes ==
  ASSUME NEW d \in {"awake", "sleep"}, NEW p \in Phases, NEW n \in Names \cup {NoName},
         NEW q \in {"none", "young", "old"}
  PROVE  Item(d, p, n, q) \in Items /\ Item(d, p, n, q).name = n
  BY DEF Items, Item

LEMMA ItemChanges ==
  ASSUME NEW item \in Items
  PROVE  /\ \A q \in {"none", "young", "old"} : [item EXCEPT !.proof = q] \in Items
         /\ [item EXCEPT !.desired = "awake"] \in Items
  BY DEF Items

LEMMA IdleType == Idle \in InvocationTypes /\ Idle.at = "idle" /\ Idle.then = "idle"
<1>1. (CHOOSE e \in Endpoints : TRUE) \in Endpoints
  BY EndpointsAssumption
<1>2. "idle" \in Labels
  BY DEF Labels, Endings
<1> QED
  BY <1>1, <1>2 DEF Idle, Items, NoItem, Phases, InvocationTypes, Statuses

\* A step of one invocation that changes nothing else of the controller.
LEMMA StepTypes ==
  ASSUME TypeInv, CloudTypeOK', NEW i \in Invocations, NEW r \in InvocationTypes,
         r.at = "createSnapshot" => r.copy.name \in Names, r.then # "createSnapshot",
         inv' = [inv EXCEPT ![i] = r], ctl' \in Items, errors' \in 0 .. MaxErrors
  PROVE  TypeInv'
  BY DEF TypeInv, TypeOK, ControllerTypeOK, SnapshotNamed, At, Copy

LEMMA GoTypes ==
  ASSUME TypeInv, CloudTypeOK', NEW i \in Invocations, NEW l \in Labels,
         l # "createSnapshot", Go(i, l), UNCHANGED ctl, errors' \in 0 .. MaxErrors
  PROVE  TypeInv'
<1> DEFINE r == [inv[i] EXCEPT !.at = l]
<1>1. r \in InvocationTypes /\ r.at = l /\ r.then # "createSnapshot"
  BY DEF TypeInv, TypeOK, ControllerTypeOK, InvocationTypes, SnapshotNamed
<1>2. inv' = [inv EXCEPT ![i] = r]
  BY DEF Go
<1>3. ctl' \in Items
  BY DEF TypeInv, TypeOK, ControllerTypeOK
<1> HIDE DEF r
<1> QED
  BY <1>1, <1>2, <1>3, StepTypes

LEMMA CloudKept ==
  ASSUME TypeInv, UNCHANGED cloudVars
  PROVE  CloudTypeOK'
  BY DEF TypeInv, TypeOK, CloudTypeOK, cloudVars

LEMMA TransitionTypes ==
  ASSUME TypeInv, NEW i \in Invocations, NEW item \in Items, NEW l \in Labels,
         NEW h \in BOOLEAN, l = "createSnapshot" => item.name \in Names,
         Transition(i, item, l, h)
  PROVE  TypeInv'
<1>1. CloudTypeOK' /\ errors' \in 0 .. MaxErrors /\ ctl \in Items /\ inv[i] \in InvocationTypes
  BY CloudKept DEF Transition, TypeInv, TypeOK, ControllerTypeOK
<1>2. CASE ~inv[i].inner
  BY <1>1, <1>2, StepTypes, IdleType DEF Transition
<1>3. CASE inv[i].inner
  <2>1. ctl' = item /\ inv' = Written(i, item, l, h)
    BY <1>3 DEF Transition
  <2>2. [inv[i] EXCEPT !.at = l, !.copy = item, !.outer = h] \in InvocationTypes
    BY <1>1 DEF InvocationTypes
  <2>3. \A k \in Invocations : [inv[k] EXCEPT !.inner = FALSE, !.outer = FALSE] \in InvocationTypes
    BY DEF InvocationTypes, TypeInv, TypeOK, ControllerTypeOK
  <2>4. inv' \in [Invocations -> InvocationTypes]
    BY <2>1, <2>2, <2>3 DEF Written
  <2>5. \A k \in Invocations : /\ inv'[k].at = "createSnapshot" => inv'[k].copy.name \in Names
                               /\ inv'[k].then # "createSnapshot"
    <3> SUFFICES ASSUME NEW k \in Invocations
                 PROVE  /\ inv'[k].at = "createSnapshot" => inv'[k].copy.name \in Names
                        /\ inv'[k].then # "createSnapshot"
      OBVIOUS
    <3>1. CASE k = i
      BY <2>1, <3>1 DEF Written, InvocationTypes, TypeInv, TypeOK, ControllerTypeOK, SnapshotNamed
    <3>2. CASE k # i
      BY <2>1, <3>2 DEF Written, InvocationTypes, TypeInv, TypeOK, ControllerTypeOK,
           SnapshotNamed, At, Copy
    <3> QED
      BY <3>1, <3>2
  <2> QED
    BY <1>1, <2>1, <2>4, <2>5 DEF TypeInv, TypeOK, ControllerTypeOK, SnapshotNamed, At, Copy
<1> QED
  BY <1>2, <1>3

LEMMA LookTypes ==
  ASSUME TypeInv, NEW i \in Invocations, NEW l \in Labels, l # "createSnapshot", Look(i, l)
  PROVE  TypeInv'
<1>1. Go(i, l) /\ UNCHANGED cloudVars /\ UNCHANGED ctl /\ UNCHANGED errors
  BY DEF Look
<1>2. errors' \in 0 .. MaxErrors
  BY <1>1 DEF TypeInv, TypeOK, ControllerTypeOK
<1> QED
  BY <1>1, <1>2, GoTypes, CloudKept

\* An observation of the invocation, which goes on at another label.
LEMMA NoteTypes ==
  ASSUME TypeInv, NEW i \in Invocations, NEW r \in InvocationTypes, r.at # "createSnapshot",
         r.then # "createSnapshot", inv' = [inv EXCEPT ![i] = r], UNCHANGED <<cloudVars, ctl, errors>>
  PROVE  TypeInv'
<1>1. ctl' \in Items /\ errors' \in 0 .. MaxErrors
  BY DEF TypeInv, TypeOK, ControllerTypeOK
<1> QED
  BY <1>1, StepTypes, CloudKept

LEMMA CloudStepTypes ==
  ASSUME TypeInv, LoadStep \/ ResourceStep
  PROVE  CloudTypeOK'
<1> USE DEF TypeInv, TypeOK, CloudTypeOK, TaskPhases
<1>1. CASE LoadStep
  <2>1. CASE Submit
    BY <2>1 DEF Submit, Write
  <2>2. CASE PublishMetric
    BY <2>2, WindowAssumption DEF PublishMetric, Ages
  <2>3. CASE WorkerScalesOut
    BY <2>3 DEF WorkerScalesOut
  <2>4. CASE WorkerConsumes
    BY <2>4 DEF WorkerConsumes, Write
  <2>5. CASE WorkerScalesIn
    BY <2>5 DEF WorkerScalesIn
  <2>6. CASE WorkerExits
    BY <2>6 DEF WorkerExits
  <2>7. CASE TaskFinishes
    BY <2>7 DEF TaskFinishes, Write
  <2> QED
    BY <1>1, <2>1, <2>2, <2>3, <2>4, <2>5, <2>6, <2>7 DEF LoadStep
<1>2. CASE ResourceStep
  <2>1. CASE ApiStarts
    BY <2>1 DEF ApiStarts
  <2>2. CASE ApiStops
    BY <2>2 DEF ApiStops
  <2>3. CASE GroupCreated
    BY <2>3 DEF GroupCreated, Statuses
  <2>4. CASE GroupDeleted
    BY <2>4 DEF GroupDeleted, Statuses
  <2>5. CASE SnapshotEnds
    BY <2>5 DEF SnapshotEnds, Statuses
  <2>6. CASE Maintenance
    BY <2>6 DEF Maintenance, Statuses
  <2> QED
    BY <1>2, <2>1, <2>2, <2>3, <2>4, <2>5, <2>6 DEF ResourceStep
<1> QED
  BY <1>1, <1>2

LEMMA LabelsKnown ==
  /\ "idle" \in Labels /\ "failed" \in Labels /\ "failedMutation" \in Labels
  /\ "failedUnread" \in Labels /\ "putLease" \in Labels /\ "wakeRead" \in Labels
  /\ "claimWake" \in Labels /\ "awakeGroup" \in Labels /\ "noteBusy" \in Labels
  /\ "checkUrl" \in Labels /\ "publish" \in Labels /\ "enterStarting" \in Labels
  /\ "awakeApi" \in Labels /\ "setOne" \in Labels /\ "enterActive" \in Labels
  /\ "prune" \in Labels /\ "restorePoint" \in Labels /\ "enterRestoring" \in Labels
  /\ "createGroup" \in Labels /\ "guardLease" \in Labels /\ "guardWorker" \in Labels
  /\ "guardMetric" \in Labels /\ "guardTasks" \in Labels /\ "invalidate" \in Labels
  /\ "readLease" \in Labels /\ "sleepRead" \in Labels /\ "reclaim" \in Labels
  /\ "sleepingGroup" \in Labels /\ "sleepingSnapshot" \in Labels /\ "beginSleep" \in Labels
  /\ "sleepApi" \in Labels /\ "setZero" \in Labels /\ "leaseAgain" \in Labels
  /\ "setOneAgain" \in Labels /\ "sleepTasks" \in Labels /\ "sleepCache" \in Labels
  /\ "sleepSnapshot" \in Labels /\ "enterSleeping" \in Labels /\ "checkSnapshot" \in Labels
  /\ "enterReady" \in Labels /\ "readySnapshot" \in Labels /\ "deleteApi" \in Labels
  /\ "deleteGroupUp" \in Labels /\ "enterDeleting" \in Labels /\ "deleteGroup" \in Labels
  /\ "noteDeleting" \in Labels /\ "requiesce" \in Labels /\ "quiesce" \in Labels
  /\ "snapshotApi" \in Labels /\ "enterSnapshotting" \in Labels
  /\ "createSnapshot" \in Labels /\ "answered" \in Labels /\ "finish" \in Labels
  BY DEF Labels, Endings, WakeLabels, AwakeLabels, GuardLabels, SleepLabels

LEMMA FieldTypes ==
  ASSUME TypeInv, NEW i \in Invocations
  PROVE  /\ inv[i] \in InvocationTypes /\ Copy(i) \in Items /\ ctl \in Items
         /\ inv[i].then \in Labels /\ inv[i].then # "createSnapshot" /\ inv[i].name \in Names \cup {NoName}
         /\ inv[i].group \in Statuses /\ inv[i].host \in Endpoints
         /\ errors \in 0 .. MaxErrors /\ CloudTypeOK
  BY DEF TypeInv, TypeOK, ControllerTypeOK, InvocationTypes, Copy, SnapshotNamed

LEMMA LatestTypes == LatestAvailable \in Names \cup {NoName}
  BY DEF LatestAvailable, Youngest

LEMMA DescribedTypes ==
  ASSUME TypeInv, NEW i \in Invocations, NEW l \in Labels, l # "createSnapshot", Described(i, l)
  PROVE  TypeInv'
<1> DEFINE r == [inv[i] EXCEPT !.at = l, !.group = cache.status, !.host = cache.endpoint]
<1>1. r \in InvocationTypes /\ r.at = l /\ r.then # "createSnapshot"
  BY FieldTypes DEF InvocationTypes, CloudTypeOK
<1>2. inv' = [inv EXCEPT ![i] = r] /\ UNCHANGED <<cloudVars, ctl, errors>>
  BY DEF Described
<1> HIDE DEF r
<1> QED
  BY <1>1, <1>2, NoteTypes

LEMMA AwakeTypes ==
  ASSUME TypeInv, NEW i \in Invocations, ReconcileAwake(i)
  PROVE  TypeInv'
<1> USE FieldTypes, LabelsKnown
<1>1. CASE AwakeGroup(i)
  BY <1>1, DescribedTypes DEF AwakeGroup
<1>2. CASE NoteBusy(i)
  <2>1. BusyPhase(inv[i].group) \in Phases
    BY DEF BusyPhase, Phases
  <2> QED
    BY <1>2, <2>1, ItemFields, ItemTypes, TransitionTypes DEF NoteBusy, Put
<1>3. CASE CheckUrl(i)
  BY <1>3, LookTypes DEF CheckUrl
<1>4. CASE PublishCacheEndpoint(i)
  <2>1. CloudTypeOK'
    BY <1>4 DEF PublishCacheEndpoint, CloudTypeOK
  <2> QED
    BY <1>4, <2>1, GoTypes DEF PublishCacheEndpoint
<1>5. CASE EnterStarting(i)
  <2>1. Item(Copy(i).desired, "API_STARTING", Copy(i).name, "none") \in Items
    BY ItemFields, ItemTypes DEF Phases
  <2> QED
    BY <1>5, <2>1, TransitionTypes DEF EnterStarting, Put
<1>6. CASE AwakeApi(i)
  <2> DEFINE to == IF api.desired # 1 THEN "setOne" ELSE AfterApi(i)
  <2>1. to \in Labels /\ to # "createSnapshot"
    BY DEF AfterApi
  <2>2. Look(i, to)
    BY <1>6 DEF AwakeApi
  <2> HIDE DEF to
  <2> QED
    BY <2>1, <2>2, LookTypes
<1>7. CASE StartApi(i)
  <2>1. CloudTypeOK'
    BY <1>7 DEF StartApi, SetDesired, CloudTypeOK
  <2> QED
    BY <1>7, <2>1, GoTypes DEF StartApi, SetDesired, AfterApi
<1>8. CASE EnterActive(i)
  BY <1>8, ItemFields, ItemTypes, TransitionTypes DEF EnterActive, Put, Phases
<1>9. CASE PruneSnapshots(i)
  <2>1. CloudTypeOK'
    BY <1>9 DEF PruneSnapshots, CloudTypeOK
  <2> QED
    BY <1>9, <2>1, GoTypes DEF PruneSnapshots, Finish
<1>10. CASE RestorePoint(i)
  <2> DEFINE n == RestoreFrom(i)
             next == IF Available(n) THEN "createGroup" ELSE "finish"
             to == IF n = NoName THEN "failed"
                   ELSE IF Copy(i).phase = "RESTORING" /\ (~Available(n) \/ Copy(i).name = n) THEN next
                   ELSE "enterRestoring"
             r == [inv[i] EXCEPT !.name = n, !.then = next, !.at = to]
  <2>1. n \in Names \cup {NoName}
    BY ItemFields, LatestTypes DEF RestoreFrom
  <2>2. next \in Labels /\ to \in Labels /\ to # "createSnapshot" /\ next # "createSnapshot"
    OBVIOUS
  <2>3. inv' = [inv EXCEPT ![i] = r] /\ UNCHANGED <<cloudVars, ctl, errors>>
    BY <1>10 DEF RestorePoint
  <2> HIDE DEF n, next, to
  <2>4. r \in InvocationTypes /\ r.at = to /\ r.then = next
    BY <2>1, <2>2 DEF InvocationTypes
  <2> HIDE DEF r
  <2> QED
    BY <2>2, <2>3, <2>4, NoteTypes
<1>11. CASE EnterRestoring(i)
  <2> DEFINE item == Item("awake", "RESTORING", inv[i].name, Copy(i).proof)
  <2>1. item \in Items
    BY ItemFields, ItemTypes DEF Phases
  <2>2. Transition(i, item, inv[i].then, FALSE)
    BY <1>11 DEF EnterRestoring, Put
  <2> HIDE DEF item
  <2> QED
    BY <2>1, <2>2, TransitionTypes
<1>12. CASE CreateReplicationGroup(i)
  <2>1. cache' \in [status : Statuses, endpoint : Endpoints, full : BOOLEAN]
    <3> DEFINE b == inv[i].name \in snaps.full
    <3>1. b \in BOOLEAN
      OBVIOUS
    <3>2. CASE UNCHANGED cache
      BY <3>2 DEF CloudTypeOK
    <3>3. CASE \E e \in Endpoints : cache' = [status |-> "creating", endpoint |-> e, full |-> b]
      <4> HIDE DEF b
      <4> QED
        BY <3>1, <3>3 DEF Statuses
    <3> QED
      BY <1>12, <3>2, <3>3 DEF CreateReplicationGroup
  <2>2. CloudTypeOK'
    BY <1>12, <2>1 DEF CreateReplicationGroup, CloudTypeOK
  <2> QED
    BY <1>12, <2>2, GoTypes DEF CreateReplicationGroup, Finish
<1> QED
  BY <1>1, <1>2, <1>3, <1>4, <1>5, <1>6, <1>7, <1>8, <1>9, <1>10, <1>11, <1>12 DEF ReconcileAwake

LEMMA FetchedTypes ==
  ASSUME TypeInv, NEW i \in Invocations, NEW l \in Labels, l # "createSnapshot",
         Fetched(i, l), UNCHANGED <<cloudVars, ctl, errors>>
  PROVE  TypeInv'
<1> DEFINE r == [inv[i] EXCEPT !.at = l, !.copy = ctl, !.inner = TRUE, !.outer = TRUE]
<1>1. r \in InvocationTypes /\ r.at = l /\ r.then # "createSnapshot"
  BY FieldTypes DEF InvocationTypes
<1>2. inv' = [inv EXCEPT ![i] = r]
  BY DEF Fetched
<1> HIDE DEF r
<1> QED
  BY <1>1, <1>2, NoteTypes

LEMMA WakeTypes ==
  ASSUME TypeInv, NEW i \in Invocations, HandleWake(i)
  PROVE  TypeInv'
<1> USE FieldTypes, LabelsKnown
<1>1. CASE StartWake(i)
  BY <1>1, LookTypes DEF StartWake
<1>2. CASE WriteLastWake(i)
  <2>1. CloudTypeOK' /\ ctl' \in Items /\ errors' \in 0 .. MaxErrors
    BY <1>2 DEF WriteLastWake, CloudTypeOK
  <2>2. [inv[i] EXCEPT !.at = "wakeRead"] \in InvocationTypes
    BY DEF InvocationTypes
  <2>3. \A k \in Invocations : [inv[k] EXCEPT !.same = FALSE] \in InvocationTypes
    BY DEF InvocationTypes
  <2>4. inv' \in [Invocations -> InvocationTypes]
    BY <1>2, <2>2, <2>3 DEF WriteLastWake
  <2>5. \A k \in Invocations : /\ inv'[k].at = "createSnapshot" => inv[k].at = "createSnapshot"
                               /\ inv'[k].copy = inv[k].copy /\ inv'[k].then = inv[k].then
    BY <1>2 DEF WriteLastWake, InvocationTypes
  <2> QED
    BY <2>1, <2>4, <2>5 DEF TypeInv, TypeOK, ControllerTypeOK, SnapshotNamed, At, Copy
<1>3. CASE ReadStateForWake(i)
  BY <1>3, FetchedTypes DEF ReadStateForWake
<1>4. CASE ClaimWake(i)
  <2>1. AwakeStart \in Labels /\ AwakeStart # "createSnapshot"
    BY DEF AwakeStart
  <2>2. (IF Copy(i).exists THEN Copy(i).phase ELSE "API_STARTING") \in Phases
    BY ItemFields DEF Phases
  <2> QED
    BY <1>4, <2>1, <2>2, ItemFields, ItemTypes, TransitionTypes DEF ClaimWake
<1> QED
  BY <1>1, <1>2, <1>3, <1>4 DEF HandleWake

LEMMA JudgeTypes ==
  ASSUME TypeInv, CloudTypeOK', NEW i \in Invocations, NEW ok, NEW l \in Labels, l # "createSnapshot",
         Judge(i, ok, l), UNCHANGED ctl, UNCHANGED errors
  PROVE  TypeInv'
<1> DEFINE r == IF ok THEN [inv[i] EXCEPT !.at = l]
                ELSE [inv[i] EXCEPT !.at = "invalidate", !.then = "finish"]
<1>1. r \in InvocationTypes /\ r.at # "createSnapshot" /\ r.then # "createSnapshot"
  BY FieldTypes, LabelsKnown DEF InvocationTypes
<1>2. inv' = [inv EXCEPT ![i] = r]
  BY DEF Judge
<1> HIDE DEF r
<1> QED
  BY <1>1, <1>2, FieldTypes, StepTypes

LEMMA GuardTypes ==
  ASSUME TypeInv, NEW i \in Invocations, NEW ok, NEW l \in Labels, l # "createSnapshot", Guard(i, ok, l)
  PROVE  TypeInv'
  BY JudgeTypes, CloudKept DEF Guard

LEMMA NoTaskTypes ==
  ASSUME TypeInv, NEW i \in Invocations, NEW allow, NEW l \in Labels, l # "createSnapshot",
         GuardNoTask(i, allow, l)
  PROVE  TypeInv'
<1>1. CloudTypeOK'
  BY FieldTypes DEF GuardNoTask, CloudTypeOK
<1> QED
  BY <1>1, JudgeTypes DEF GuardNoTask

LEMMA GuardedTypes ==
  ASSUME TypeInv, NEW i \in Invocations, NEW l \in Labels, l # "createSnapshot", Guarded(i, l)
  PROVE  TypeInv'
<1> DEFINE r == [inv[i] EXCEPT !.at = "guardLease", !.then = l]
<1>1. r \in InvocationTypes /\ r.at = "guardLease" /\ r.then = l
  BY FieldTypes, LabelsKnown DEF InvocationTypes
<1>2. inv' = [inv EXCEPT ![i] = r] /\ UNCHANGED <<cloudVars, ctl, errors>>
  BY DEF Guarded
<1> HIDE DEF r
<1> QED
  BY <1>1, <1>2, NoteTypes

LEMMA ActivityTypes ==
  ASSUME TypeInv, NEW i \in Invocations, ActivityGuard(i)
  PROVE  TypeInv'
<1> USE FieldTypes, LabelsKnown
<1>1. CASE GuardLease(i)
  BY <1>1, GuardTypes DEF GuardLease
<1>2. CASE GuardWorker(i)
  BY <1>2, GuardTypes DEF GuardWorker
<1>3. CASE GuardMetric(i)
  BY <1>3, GuardTypes DEF GuardMetric
<1>4. CASE GuardTasks(i)
  BY <1>4, NoTaskTypes DEF GuardTasks
<1>5. CASE Invalidate(i)
  <2>1. Item(Copy(i).desired, "QUIESCING", NoName, "none") \in Items
    BY ItemFields, ItemTypes DEF Phases
  <2>2. [Copy(i) EXCEPT !.proof = "none"] \in Items
    BY ItemChanges
  <2>3. CASE Transition(i, Item(Copy(i).desired, "QUIESCING", NoName, "none"), inv[i].then, FALSE)
    BY <2>1, <2>3, TransitionTypes
  <2>4. CASE Transition(i, [Copy(i) EXCEPT !.proof = "none"], inv[i].then, FALSE)
    BY <2>2, <2>4, TransitionTypes
  <2>5. CASE Look(i, inv[i].then)
    BY <2>5, LookTypes
  <2> QED
    BY <1>5, <2>3, <2>4, <2>5 DEF Invalidate
<1> QED
  BY <1>1, <1>2, <1>3, <1>4, <1>5 DEF ActivityGuard

LEMMA CheckTypes ==
  ASSUME TypeInv, NEW i \in Invocations, HandleIdleCheck(i)
  PROVE  TypeInv'
<1> USE FieldTypes, LabelsKnown
<1>1. CASE StartIdleCheck(i)
  <2> DEFINE r == [inv[i] EXCEPT !.at = "readLease", !.then = "sleepApi"]
  <2>1. CloudTypeOK'
    <3>1. metric' \in [positive : Ages, zero : Ages]
      BY <1>1, WindowAssumption DEF StartIdleCheck, MetricAges, Older, Ages, CloudTypeOK
    <3> QED
      BY <1>1, <3>1 DEF StartIdleCheck, CloudTypeOK
  <2>2. r \in InvocationTypes /\ r.at = "readLease" /\ r.then = "sleepApi"
    BY DEF InvocationTypes
  <2>3. inv' = [inv EXCEPT ![i] = r] /\ UNCHANGED <<ctl, errors>>
    BY <1>1 DEF StartIdleCheck
  <2> HIDE DEF r
  <2> QED
    BY <2>1, <2>2, <2>3, StepTypes
<1>2. CASE ReadLastWake(i)
  <2> DEFINE r == [inv[i] EXCEPT !.at = "sleepRead", !.lease = lease, !.same = TRUE]
  <2>1. r \in InvocationTypes /\ r.at = "sleepRead" /\ r.then # "createSnapshot"
    BY DEF InvocationTypes, CloudTypeOK
  <2>2. inv' = [inv EXCEPT ![i] = r] /\ UNCHANGED <<cloudVars, ctl, errors>>
    BY <1>2 DEF ReadLastWake
  <2> HIDE DEF r
  <2> QED
    BY <2>1, <2>2, NoteTypes
<1>3. CASE ReadStateForSleep(i)
  <2>1. AfterRead(i) \in Labels /\ AfterRead(i) # "createSnapshot"
    BY DEF AfterRead, AwakeStart
  <2> QED
    BY <1>3, <2>1, FetchedTypes DEF ReadStateForSleep
<1>4. CASE Reclaim(i)
  <2>1. AwakeStart \in Labels /\ AwakeStart # "createSnapshot"
    BY DEF AwakeStart
  <2>2. [Copy(i) EXCEPT !.desired = "awake"] \in Items
    BY ItemChanges
  <2> QED
    BY <1>4, <2>1, <2>2, TransitionTypes DEF Reclaim
<1>5. CASE SleepingGroup(i)
  BY <1>5, DescribedTypes DEF SleepingGroup
<1>6. CASE SleepingSnapshot(i)
  BY <1>6, LookTypes DEF SleepingSnapshot
<1>7. CASE BeginSleep(i)
  <2>1. Item("sleep", "QUIESCING", Copy(i).name, "none") \in Items
    BY ItemFields, ItemTypes DEF Phases
  <2> QED
    BY <1>7, <2>1, TransitionTypes DEF BeginSleep
<1> QED
  BY <1>1, <1>2, <1>3, <1>4, <1>5, <1>6, <1>7 DEF HandleIdleCheck

LEMMA SetDesiredTypes ==
  ASSUME TypeInv, NEW i \in Invocations, NEW from, NEW count \in {0, 1}, NEW l \in Labels,
         l # "createSnapshot", SetDesired(i, from, count, l)
  PROVE  TypeInv'
<1>1. CloudTypeOK' /\ UNCHANGED ctl /\ errors' \in 0 .. MaxErrors
  BY FieldTypes DEF SetDesired, CloudTypeOK
<1>2. Go(i, l)
  BY DEF SetDesired
<1> QED
  BY <1>1, <1>2, GoTypes

LEMMA PutTypes ==
  ASSUME TypeInv, NEW i \in Invocations, NEW from, NEW item \in Items, NEW l \in Labels,
         l # "createSnapshot", Put(i, from, item, l)
  PROVE  TypeInv'
  BY TransitionTypes DEF Put

LEMMA SleepTypes ==
  ASSUME TypeInv, NEW i \in Invocations, ProgressSleep(i)
  PROVE  TypeInv'
<1> USE FieldTypes, LabelsKnown
<1>1. CASE SleepApi(i)
  <2> DEFINE next == IF api.desired # 0 THEN "setZero" ELSE "leaseAgain"
             r == IF ApiStopped THEN [inv[i] EXCEPT !.at = "sleepTasks"]
                  ELSE [inv[i] EXCEPT !.at = "invalidate", !.then = next]
  <2>1. next \in Labels /\ next # "createSnapshot"
    OBVIOUS
  <2>2. inv' = [inv EXCEPT ![i] = r] /\ UNCHANGED <<cloudVars, ctl, errors>>
    BY <1>1 DEF SleepApi
  <2> HIDE DEF next
  <2>3. r \in InvocationTypes /\ r.at # "createSnapshot" /\ r.then # "createSnapshot"
    BY <2>1 DEF InvocationTypes
  <2> HIDE DEF r
  <2> QED
    BY <2>2, <2>3, NoteTypes
<1>2. CASE StopApi(i)
  BY <1>2, SetDesiredTypes DEF StopApi
<1>3. CASE LeaseAgain(i)
  BY <1>3, LookTypes DEF LeaseAgain
<1>4. CASE StartApiAgain(i)
  BY <1>4, SetDesiredTypes DEF StartApiAgain
<1>5. CASE SleepTasks(i)
  <2>1. GuardNoTask(i, FALSE, "sleepCache") \/ GuardNoTask(i, FALSE, "enterSleeping")
    BY <1>5 DEF SleepTasks
  <2> QED
    BY <2>1, NoTaskTypes
<1>6. CASE SleepCache(i)
  <2> DEFINE to == IF cache.status = "absent" THEN "sleepSnapshot"
                   ELSE IF Copy(i).phase = "SNAPSHOTTING" THEN "checkSnapshot"
                   ELSE IF Copy(i).phase = "SNAPSHOT_READY" THEN "readySnapshot"
                   ELSE IF cache.status = "deleting"
                        THEN IF Copy(i).phase = "DELETING" THEN "finish" ELSE "noteDeleting"
                   ELSE IF cache.status # "available" THEN "finish"
                   ELSE IF Copy(i).phase = "QUIESCING" THEN "quiesce" ELSE "requiesce"
  <2>1. to \in Labels /\ to # "createSnapshot"
    OBVIOUS
  <2>2. Described(i, to)
    BY <1>6 DEF SleepCache
  <2> HIDE DEF to
  <2> QED
    BY <2>1, <2>2, DescribedTypes
<1>7. CASE SleepSnapshot(i)
  <2> DEFINE n == IF Copy(i).name # NoName THEN Copy(i).name ELSE LatestAvailable
             to == IF ~Available(n) THEN "failed"
                   ELSE IF Copy(i).phase = "SLEEPING" /\ Copy(i).name = n THEN "finish"
                   ELSE "enterSleeping"
             r == [inv[i] EXCEPT !.name = n, !.at = to]
  <2>1. n \in Names \cup {NoName}
    BY ItemFields, LatestTypes
  <2>2. to \in Labels /\ to # "createSnapshot"
    OBVIOUS
  <2>3. inv' = [inv EXCEPT ![i] = r] /\ UNCHANGED <<cloudVars, ctl, errors>>
    BY <1>7 DEF SleepSnapshot
  <2> HIDE DEF n, to
  <2>4. r \in InvocationTypes /\ r.at = to /\ r.then # "createSnapshot"
    BY <2>1, <2>2 DEF InvocationTypes
  <2> HIDE DEF r
  <2> QED
    BY <2>2, <2>3, <2>4, NoteTypes
<1>8. CASE EnterSleeping(i)
  <2> DEFINE item == Item("sleep", "SLEEPING", IF Hibernation THEN inv[i].name ELSE Copy(i).name, "none")
  <2>1. item \in Items
    BY ItemFields, ItemTypes DEF Phases
  <2>2. Put(i, "enterSleeping", item, "finish")
    BY <1>8 DEF EnterSleeping
  <2> HIDE DEF item
  <2> QED
    BY <2>1, <2>2, PutTypes
<1>9. CASE CheckSnapshot(i)
  <2> DEFINE s == IF Copy(i).name = NoName THEN "absent" ELSE snaps.status[Copy(i).name]
             to == IF s \in {"absent", "failed"} THEN "failed"
                   ELSE IF s = "available" /\ inv[i].group = "available" THEN "enterReady"
                   ELSE "finish"
  <2>1. to \in Labels /\ to # "createSnapshot"
    OBVIOUS
  <2>2. Look(i, to)
    BY <1>9 DEF CheckSnapshot
  <2> HIDE DEF s, to
  <2> QED
    BY <2>1, <2>2, LookTypes
<1>10. CASE EnterReady(i)
  <2>1. Item(Copy(i).desired, "SNAPSHOT_READY", Copy(i).name, Copy(i).proof) \in Items
    BY ItemFields, ItemTypes DEF Phases
  <2> QED
    BY <1>10, <2>1, PutTypes DEF EnterReady
<1>11. CASE ReadySnapshot(i)
  BY <1>11, LookTypes, GuardedTypes DEF ReadySnapshot
<1>12. CASE DeleteApi(i)
  BY <1>12, GuardTypes DEF DeleteApi
<1>13. CASE DeleteGroupUp(i)
  BY <1>13, LookTypes DEF DeleteGroupUp
<1>14. CASE EnterDeleting(i)
  <2>1. Item(Copy(i).desired, "DELETING", Copy(i).name, Copy(i).proof) \in Items
    BY ItemFields, ItemTypes DEF Phases
  <2> QED
    BY <1>14, <2>1, PutTypes DEF EnterDeleting
<1>15. CASE DeleteReplicationGroup(i)
  <2>1. CloudTypeOK'
    BY <1>15 DEF DeleteReplicationGroup, CloudTypeOK, Statuses
  <2> QED
    BY <1>15, <2>1, GoTypes DEF DeleteReplicationGroup
<1>16. CASE NoteDeleting(i)
  <2>1. Item(Copy(i).desired, "DELETING", Copy(i).name, Copy(i).proof) \in Items
    BY ItemFields, ItemTypes DEF Phases
  <2> QED
    BY <1>16, <2>1, PutTypes DEF NoteDeleting
<1>17. CASE Requiesce(i)
  <2> DEFINE item == Item(Copy(i).desired, "QUIESCING", NoName,
                          IF Copy(i).phase = "DELETING" THEN Copy(i).proof ELSE "none")
  <2>1. item \in Items
    BY ItemFields, ItemTypes DEF Phases
  <2>2. Put(i, "requiesce", item, "quiesce")
    BY <1>17 DEF Requiesce
  <2> HIDE DEF item
  <2> QED
    BY <2>1, <2>2, PutTypes
<1>18. CASE Quiesce(i)
  <2>1. [Copy(i) EXCEPT !.proof = "young"] \in Items
    BY ItemChanges
  <2>2. Copy(i).proof \in {"none", "young", "old"}
    BY ItemFields
  <2>3. \/ Transition(i, [Copy(i) EXCEPT !.proof = "young"], "finish", FALSE)
        \/ Look(i, "finish") \/ Guarded(i, "snapshotApi")
    BY <1>18, <2>2 DEF Quiesce
  <2> QED
    BY <2>1, <2>3, TransitionTypes, LookTypes, GuardedTypes
<1>19. CASE SnapshotApi(i)
  BY <1>19, GuardTypes DEF SnapshotApi
<1>20. CASE EnterSnapshotting(i)
  <2> DEFINE new == CHOOSE n \in FreeNames : TRUE
             item == Item("sleep", "SNAPSHOTTING", new, Copy(i).proof)
  <2>1. CASE FreeNames = {}
    BY <1>20, <2>1, LookTypes DEF EnterSnapshotting
  <2>2. CASE FreeNames # {}
    <3>1. new \in Names
      BY <2>2 DEF FreeNames
    <3>2. Transition(i, item, "createSnapshot", FALSE)
      BY <1>20, <2>2 DEF EnterSnapshotting, Put
    <3> HIDE DEF new
    <3>3. item \in Items /\ item.name = new
      BY <3>1, ItemFields, ItemTypes DEF Phases
    <3> HIDE DEF item
    <3> QED
      BY <3>1, <3>2, <3>3, TransitionTypes
  <2> QED
    BY <2>1, <2>2
<1>21. CASE CreateSnapshot(i)
  <2>1. Copy(i).name \in Names
    BY <1>21 DEF CreateSnapshot, TypeInv, SnapshotNamed
  <2>2. CloudTypeOK'
    <3>1. CASE cache.status = "available"
      <4>1. cache' \in [status : Statuses, endpoint : Endpoints, full : BOOLEAN]
        BY <1>21, <3>1 DEF CreateSnapshot, CloudTypeOK, Statuses
      <4> DEFINE n == Copy(i).name
                 o == snaps.older \cup {<<m, n>> : m \in {k \in Names : snaps.status[k] # "absent"}}
                 f == snaps.full \cup IF cache.full THEN {n} ELSE {}
                 s == [snaps.status EXCEPT ![n] = "creating"]
      <4>2. o \subseteq Names \X Names /\ f \subseteq Names
        BY <2>1 DEF CloudTypeOK
      <4>3. s \in [Names -> {"absent", "creating", "available", "failed"}]
        BY DEF CloudTypeOK
      <4>4. snaps' = [older |-> o, status |-> s, full |-> f]
        BY <1>21, <3>1 DEF CreateSnapshot
      <4> HIDE DEF n, o, f, s
      <4> QED
        BY <1>21, <4>1, <4>2, <4>3, <4>4 DEF CreateSnapshot, CloudTypeOK
    <3>2. CASE cache.status # "available"
      BY <1>21, <3>2 DEF CreateSnapshot, CloudTypeOK
    <3> QED
      BY <3>1, <3>2
  <2> QED
    BY <1>21, <2>2, GoTypes DEF CreateSnapshot
<1> QED
  BY <1>1, <1>2, <1>3, <1>4, <1>5, <1>6, <1>7, <1>8, <1>9, <1>10, <1>11, <1>12, <1>13, <1>14,
     <1>15, <1>16, <1>17, <1>18, <1>19, <1>20, <1>21 DEF ProgressSleep

LEMMA RipeTypes ==
  ASSUME NEW item \in Items
  PROVE  Ripe(item) \in Items /\ Ripe(item).name = item.name
  BY ItemChanges DEF Ripe, Items

LEMMA EndTypes ==
  ASSUME TypeInv, NEW i \in Invocations, Return(i) \/ CallFails(i) \/ MarkError(i) \/ TimeOut(i)
  PROVE  TypeInv'
<1> USE FieldTypes, LabelsKnown
<1>1. CASE Return(i)
  BY <1>1, IdleType, NoteTypes DEF Return
<1>2. CASE CallFails(i)
  <2> DEFINE to == IF inv[i].at \in Mutations THEN "failedMutation"
                   ELSE IF inv[i].at \in Unread THEN "failedUnread" ELSE "failed"
  <2>1. to \in Labels /\ to # "createSnapshot"
    OBVIOUS
  <2>2. Go(i, to) /\ UNCHANGED cloudVars /\ UNCHANGED ctl
    BY <1>2 DEF CallFails
  <2>3. errors' \in 0 .. MaxErrors
    BY <1>2, ErrorsAssumption DEF CallFails
  <2> HIDE DEF to
  <2> QED
    BY <2>1, <2>2, <2>3, CloudKept, GoTypes
<1>3. CASE MarkError(i)
  <2> DEFINE seen == IF At(i, "failedUnread") THEN ctl ELSE Copy(i)
  <2>1. CASE UNCHANGED ctl /\ inv' = [inv EXCEPT ![i] = Idle]
    BY <1>3, <2>1, IdleType, NoteTypes DEF MarkError
  <2>2. CASE /\ ctl' = Item(seen.desired, "ERROR", seen.name, "none")
             /\ inv' = [Written(i, ctl, "idle", TRUE) EXCEPT ![i] = Idle]
    <3>1. seen \in Items
      OBVIOUS
    <3> HIDE DEF seen
    <3>2. ctl' \in Items
      BY <2>2, <3>1, ItemFields, ItemTypes DEF Phases
    <3>3. \A k \in Invocations : [inv[k] EXCEPT !.inner = FALSE, !.outer = FALSE] \in InvocationTypes
      BY DEF InvocationTypes
    <3>4. \A k \in Invocations :
            inv'[k] = IF k = i THEN Idle ELSE [inv[k] EXCEPT !.inner = FALSE, !.outer = FALSE]
      BY <2>2 DEF Written
    <3>5. inv' \in [Invocations -> InvocationTypes]
      BY <2>2, <3>3, IdleType DEF Written
    <3>6. SnapshotNamed'
      <4> SUFFICES ASSUME NEW k \in Invocations
                   PROVE  /\ inv'[k].at = "createSnapshot" => inv'[k].copy.name \in Names
                          /\ inv'[k].then # "createSnapshot"
        BY DEF SnapshotNamed, At, Copy
      <4>1. CASE k = i
        BY <3>4, <4>1, IdleType
      <4>2. CASE k # i
        BY <3>4, <4>2 DEF InvocationTypes, TypeInv, SnapshotNamed, At, Copy
      <4> QED
        BY <4>1, <4>2
    <3> QED
      BY <1>3, <3>2, <3>5, <3>6, CloudKept DEF MarkError, TypeInv, TypeOK, ControllerTypeOK
  <2> QED
    BY <1>3, <2>1, <2>2 DEF MarkError
<1>4. CASE TimeOut(i)
  BY <1>4, IdleType, NoteTypes DEF TimeOut
<1> QED
  BY <1>1, <1>2, <1>3, <1>4

LEMMA InvocationStepTypes ==
  ASSUME TypeInv, NEW i \in Invocations, InvocationStep(i)
  PROVE  TypeInv'
  BY WakeTypes, CheckTypes, AwakeTypes, ActivityTypes, SleepTypes, EndTypes
  DEF InvocationStep, Continue, HandleWake, HandleIdleCheck

LEMMA NextTypes ==
  ASSUME TypeInv, [Next]_vars
  PROVE  TypeInv'
<1>1. CASE CloudStep
  <2>1. CloudTypeOK'
    BY <1>1, CloudStepTypes DEF CloudStep
  <2> QED
    BY <1>1, <2>1 DEF CloudStep, controllerVars, TypeInv, TypeOK, ControllerTypeOK, SnapshotNamed, At, Copy
<1>2. CASE \E i \in Invocations : InvocationStep(i)
  BY <1>2, InvocationStepTypes
<1>3. CASE LeaseExpires
  BY <1>3 DEF LeaseExpires, controllerVars, TypeInv, TypeOK, ControllerTypeOK, CloudTypeOK,
     SnapshotNamed, At, Copy
<1>4. CASE ProofRipens
  <2>1. \A k \in Invocations :
          /\ [inv[k] EXCEPT !.copy = Ripe(inv[k].copy)] \in InvocationTypes
          /\ [inv[k] EXCEPT !.copy = Ripe(inv[k].copy)].at = inv[k].at
          /\ [inv[k] EXCEPT !.copy = Ripe(inv[k].copy)].then = inv[k].then
          /\ [inv[k] EXCEPT !.copy = Ripe(inv[k].copy)].copy.name = inv[k].copy.name
    <3> TAKE k \in Invocations
    <3>1. inv[k].copy \in Items /\ inv[k] \in InvocationTypes
      BY DEF TypeInv, TypeOK, ControllerTypeOK, InvocationTypes
    <3>2. Ripe(inv[k].copy) \in Items /\ Ripe(inv[k].copy).name = inv[k].copy.name
      BY <3>1, RipeTypes
    <3> QED
      BY <3>1, <3>2 DEF InvocationTypes
  <2>2. inv' = [i \in Invocations |-> [inv[i] EXCEPT !.copy = Ripe(inv[i].copy)]]
    BY <1>4 DEF ProofRipens
  <2>3. inv' \in [Invocations -> InvocationTypes] /\ SnapshotNamed'
    BY <2>1, <2>2 DEF TypeInv, SnapshotNamed, At, Copy
  <2>4. ctl' \in Items
    BY <1>4, RipeTypes DEF ProofRipens, TypeInv, TypeOK, ControllerTypeOK
  <2> QED
    BY <1>4, <2>3, <2>4, CloudKept DEF ProofRipens, TypeInv, TypeOK, ControllerTypeOK
<1>5. CASE TaskLaunched
  BY <1>5 DEF TaskLaunched, Lives, controllerVars, TypeInv, TypeOK, ControllerTypeOK, CloudTypeOK,
     SnapshotNamed, At, Copy
<1>6. CASE UNCHANGED vars
  BY <1>6, CloudKept DEF vars, controllerVars, TypeInv, TypeOK, ControllerTypeOK, SnapshotNamed, At, Copy
<1> QED
  BY <1>1, <1>2, <1>3, <1>4, <1>5, <1>6 DEF Next

LEMMA InitTypes == Init => TypeInv
<1> SUFFICES ASSUME Init PROVE TypeInv
  OBVIOUS
<1>1. CloudTypeOK
  BY WindowAssumption DEF Init, CloudInit, CloudTypeOK, TaskPhases, Ages, Statuses
<1>2. NoItem \in Items
  BY DEF NoItem, Items, Phases
<1>3. ControllerTypeOK /\ SnapshotNamed
  BY <1>2, IdleType, ErrorsAssumption DEF Init, ControllerInit, ControllerTypeOK, SnapshotNamed, At, Copy
<1> QED
  BY <1>1, <1>3 DEF TypeInv, TypeOK

LEMMA TypesHold == Spec => []TypeInv
  BY InitTypes, NextTypes, PTL DEF Spec

\* Every resource, the controller item and every invocation keep their types,
\* for any number of invocations at a time and all failures.
THEOREM SleepTypeCorrect == Spec => []TypeOK
<1>1. TypeInv => TypeOK
  BY DEF TypeInv
<1> QED
  BY <1>1, TypesHold, PTL

(***************************************************************************)
(* One invocation at a time, as the Lambda's reserved concurrency has it,  *)
(* and no task that an idle check cannot see: none launched by hand lives  *)
(* less than the time between two checks, and no check is cut off between  *)
(* seeing one and giving up the snapshot.                                  *)
(***************************************************************************)
OneInvocation == \A i, k \in Invocations : i = k
TasksAreSeen  == "briefTask" \notin Faults /\ ~({"longTask", "timeout"} \subseteq Faults)

SnapPhases == {"SNAPSHOTTING", "SNAPSHOT_READY"}
EngineOff  == api.desired = 0 /\ api.task = "none"

\* Nobody writes or is about to; a task that a check has not seen is harmless.
Quiet  == EngineOff /\ load.worker = "none" /\ metric.positive > 1 /\ load.task # "running"
Silent == Quiet /\ load.task = "none"

\* Labels at which an invocation has not read the item.
Blind == {"idle", "putLease", "wakeRead", "readLease", "sleepRead", "failedUnread"}

Current(i) == inv[i].at \notin Blind => inv[i].copy = ctl /\ inv[i].inner

\* A check saw a task and is about to give up the snapshot.
Interrupted ==
  /\ "longTask" \in Faults
  /\ \E i \in Invocations : inv[i].at \in {"invalidate", "failed"} /\ inv[i].outer

(***************************************************************************)
(* What holds of the cloud and the item at every moment.                   *)
(***************************************************************************)
Connected    == Up /\ url = cache.endpoint
AwayUnused   == ~Up => Silent
Served       ==
  /\ api.desired = 1 \/ api.task = "running" => Connected
  /\ api.task = "running" => api.host = cache.endpoint
Restorable   ==
  Gone => /\ Available(ctl.name) /\ ctl.name \in snaps.full
          /\ ctl.exists /\ ctl.phase \notin SnapPhases
SnapshotKept ==
  ctl.phase \in SnapPhases /\ ~Interrupted =>
    Quiet /\ ctl.name # NoName /\ (snaps.status[ctl.name] # "absent" => ctl.name \in snaps.full)
AlwaysOn     == ~Hibernation => Connected /\ ctl.phase \notin SnapPhases
TasksVisible == "longTask" \notin Faults => load.task # "long"

EngineInv ==
  AwayUnused /\ Served /\ NothingLost /\ Restorable /\ SnapshotKept /\ AlwaysOn /\ TasksVisible

(***************************************************************************)
(* What an invocation knows at each label, group by group.                 *)
(***************************************************************************)
CacheGuards == {"guardLease", "guardWorker", "guardMetric", "guardTasks"}
Deletion    == {"deleteApi", "deleteGroupUp", "enterDeleting"}
Snapping    == {"snapshotApi", "enterSnapshotting"}
AfterTasks  == {"sleepCache", "sleepSnapshot", "checkSnapshot", "enterReady", "readySnapshot",
                "noteDeleting", "requiesce", "quiesce"}
Guarding(i, labels) == inv[i].at \in CacheGuards /\ inv[i].then \in labels

AwakeAt(i) ==
  /\ inv[i].at \in {"awakeGroup", "noteBusy", "checkUrl", "publish", "enterStarting", "prune",
                    "restorePoint", "enterRestoring", "createGroup"} => Hibernation
  /\ inv[i].at \in {"checkUrl", "publish"} => Up /\ inv[i].host = cache.endpoint
  /\ inv[i].at = "checkUrl" => ctl.phase = "ACTIVE"
  /\ inv[i].at \in {"enterStarting", "awakeApi", "setOne", "enterActive", "prune"} => Connected
  /\ inv[i].at \in {"awakeApi", "setOne"} /\ Hibernation => ctl.phase \in {"ACTIVE", "API_STARTING"}
  /\ inv[i].at = "prune" => ctl.phase = "ACTIVE"

RestoreAt(i) ==
  /\ inv[i].at \in {"restorePoint", "enterRestoring", "createGroup"} => cache.status = "absent"
  /\ inv[i].at \in {"enterRestoring", "createGroup"} => inv[i].name = ctl.name
  /\ inv[i].at = "enterRestoring" => inv[i].then \in {"createGroup", "finish"}

CheckAt(i) ==
  /\ inv[i].at \in {"readLease", "sleepRead", "sleepingGroup", "beginSleep"} => inv[i].then = "sleepApi"
  /\ inv[i].at \in CacheGuards => inv[i].then \in {"sleepApi", "deleteApi", "snapshotApi"}
  /\ inv[i].at = "invalidate" => inv[i].then \in {"finish", "setZero", "leaseAgain"}
  /\ (\/ inv[i].at \in {"setZero", "leaseAgain", "setOneAgain"}
      \/ inv[i].at = "invalidate" /\ inv[i].then # "finish") => ctl.phase \notin SnapPhases /\ Connected
  /\ inv[i].at = "sleepTasks" => api.desired = 0 /\ api.task # "running"

OffAt(i) ==
  (\/ inv[i].at \in AfterTasks \cup Deletion \cup Snapping \cup {"deleteGroup", "createSnapshot"}
   \/ Guarding(i, {"deleteApi", "snapshotApi"}))
  => Hibernation /\ EngineOff

GuardAt(i) ==
  /\ Guarding(i, {"deleteApi", "snapshotApi"}) =>
       /\ inv[i].at = "guardMetric" => load.worker # "running" \/ metric.positive <= 1
       /\ inv[i].at = "guardTasks" => load.worker # "running" /\ metric.positive > 1
  /\ inv[i].at \in Deletion \cup Snapping \cup {"deleteGroup", "createSnapshot"} => Silent

AbsentAt(i) ==
  /\ inv[i].at = "sleepSnapshot" => cache.status = "absent"
  /\ inv[i].at = "enterSleeping" /\ Hibernation => cache.status = "absent" /\ inv[i].name = ctl.name

DeletionAt(i) ==
  /\ inv[i].at \in {"checkSnapshot", "enterReady"} => ctl.phase = "SNAPSHOTTING"
  /\ inv[i].at = "readySnapshot" => ctl.phase = "SNAPSHOT_READY"
  /\ (inv[i].at \in Deletion \/ Guarding(i, {"deleteApi"})) =>
       ctl.phase = "SNAPSHOT_READY" /\ Available(ctl.name)
  /\ inv[i].at = "deleteGroup" =>
       ctl.phase = "DELETING" /\ Available(ctl.name) /\ ctl.name \in snaps.full /\ ctl.exists

SnapshotAt(i) ==
  /\ inv[i].at \in {"requiesce", "createSnapshot"} => ~Gone
  /\ (inv[i].at \in Snapping \cup {"quiesce"} \/ Guarding(i, {"snapshotApi"})) =>
       ctl.phase = "QUIESCING" /\ ~Gone
  /\ inv[i].at = "createSnapshot" =>
       ctl.phase = "SNAPSHOTTING" /\ ctl.name \in Names /\ snaps.status[ctl.name] = "absent"

\* Until it writes the item, an invocation that finds a snapshot can mark an error.
OuterAt(i) ==
  /\ inv[i].at \in CacheGuards \cup Deletion
                   \cup {"sleepingGroup", "sleepApi", "sleepTasks", "sleepCache", "readySnapshot",
                         "invalidate"}
  /\ ctl.phase \in SnapPhases
  => inv[i].outer

AsleepAt(i) ==
  /\ inv[i].at \in CacheGuards \cup AfterTasks \cup Deletion \cup Snapping
                   \cup {"deleteGroup", "createSnapshot", "sleepingGroup", "sleepingSnapshot",
                         "sleepApi", "setZero", "leaseAgain", "sleepTasks", "invalidate"}
       => ctl.desired = "sleep"
  /\ inv[i].at \in (CacheGuards \ {"guardLease"}) \cup Deletion \cup {"deleteGroup"} => lease = "stale"

LabelInv(i) ==
  /\ AwakeAt(i) /\ RestoreAt(i) /\ CheckAt(i) /\ OffAt(i) /\ GuardAt(i)
  /\ AbsentAt(i) /\ DeletionAt(i) /\ SnapshotAt(i) /\ OuterAt(i) /\ AsleepAt(i)

SleepInv ==
  TypeInv /\ EngineInv /\ \A i \in Invocations : Current(i) /\ LabelInv(i)

(***************************************************************************)
(* What moves on its own keeps the invariant.                              *)
(***************************************************************************)
LEMMA CloudStepKeeps ==
  ASSUME SleepInv, OneInvocation, TasksAreSeen, CloudStep
  PROVE  SleepInv'
<1> USE DEF SleepInv
<1>1. TypeInv' /\ UNCHANGED <<ctl, inv, errors>> /\ CloudTypeOK
  BY NextTypes DEF Next, CloudStep, controllerVars, TypeInv, TypeOK
<1>2. \A i \in Invocations : Current(i)'
  BY <1>1 DEF Current
<1>3. SUFFICES ASSUME NEW i \in Invocations
               PROVE  EngineInv' /\ LabelInv(i)'
  BY <1>1, <1>2, InvocationsAssumption
<1> USE WindowAssumption DEF CloudTypeOK, Ages, Connected, Gone, Up, Available, Quiet, Silent, EngineOff
<1> USE DEF EngineInv, AwayUnused, Served, NothingLost, Restorable, SnapshotKept, AlwaysOn,
      TasksVisible, Interrupted
<1> USE DEF LabelInv, AwakeAt, RestoreAt, CheckAt, OffAt, GuardAt, AbsentAt, DeletionAt, SnapshotAt,
      OuterAt, AsleepAt, Guarding, CacheGuards, Deletion, Snapping, AfterTasks, SnapPhases
<1>4. CASE Submit
  <2>1. EngineInv'
    BY <1>1, <1>4 DEF Submit, Write
  <2>2. LabelInv(i)'
    BY <1>1, <1>4, <2>1 DEF Submit, Write
  <2> QED
    BY <2>1, <2>2
<1>5. CASE PublishMetric
  <2>1. EngineInv'
    BY <1>1, <1>5 DEF PublishMetric
  <2>2. LabelInv(i)'
    BY <1>1, <1>5, <2>1 DEF PublishMetric
  <2> QED
    BY <2>1, <2>2
<1>6. CASE WorkerScalesOut
  <2>1. EngineInv'
    BY <1>1, <1>6 DEF WorkerScalesOut
  <2>2. LabelInv(i)'
    BY <1>1, <1>6, <2>1 DEF WorkerScalesOut
  <2> QED
    BY <2>1, <2>2
<1>7. CASE WorkerConsumes
  <2>1. EngineInv'
    BY <1>1, <1>7 DEF WorkerConsumes, Write
  <2>2. LabelInv(i)'
    BY <1>1, <1>7, <2>1 DEF WorkerConsumes, Write
  <2> QED
    BY <2>1, <2>2
<1>8. CASE WorkerScalesIn
  <2>1. EngineInv'
    BY <1>1, <1>8 DEF WorkerScalesIn
  <2>2. LabelInv(i)'
    BY <1>1, <1>8, <2>1 DEF WorkerScalesIn
  <2> QED
    BY <2>1, <2>2
<1>9. CASE WorkerExits
  <2>1. EngineInv'
    BY <1>1, <1>9 DEF WorkerExits
  <2>2. LabelInv(i)'
    BY <1>1, <1>9, <2>1 DEF WorkerExits
  <2> QED
    BY <2>1, <2>2
<1>10. CASE TaskFinishes
  <2>1. EngineInv'
    BY <1>1, <1>10 DEF TaskFinishes, Write
  <2>2. LabelInv(i)'
    BY <1>1, <1>10, <2>1 DEF TaskFinishes, Write
  <2> QED
    BY <2>1, <2>2
<1>11. CASE ApiStarts
  <2>1. EngineInv'
    BY <1>1, <1>11 DEF ApiStarts
  <2>2. LabelInv(i)'
    BY <1>1, <1>11, <2>1 DEF ApiStarts
  <2> QED
    BY <2>1, <2>2
<1>12. CASE ApiStops
  <2>1. EngineInv'
    BY <1>1, <1>12 DEF ApiStops
  <2>2. LabelInv(i)'
    BY <1>1, <1>12, <2>1 DEF ApiStops
  <2> QED
    BY <2>1, <2>2
<1>13. CASE GroupCreated
  <2>1. EngineInv'
    BY <1>1, <1>13 DEF GroupCreated
  <2>2. LabelInv(i)'
    BY <1>1, <1>13, <2>1 DEF GroupCreated
  <2> QED
    BY <2>1, <2>2
<1>14. CASE GroupDeleted
  <2>1. EngineInv'
    BY <1>1, <1>14 DEF GroupDeleted
  <2>2. LabelInv(i)'
    BY <1>1, <1>14, <2>1 DEF GroupDeleted
  <2> QED
    BY <2>1, <2>2
<1>15. CASE SnapshotEnds
  <2>1. EngineInv'
    BY <1>1, <1>15 DEF SnapshotEnds
  <2>2. LabelInv(i)'
    BY <1>1, <1>15, <2>1 DEF SnapshotEnds
  <2> QED
    BY <2>1, <2>2
<1>16. CASE Maintenance
  <2>1. EngineInv'
    BY <1>1, <1>16 DEF Maintenance
  <2>2. LabelInv(i)'
    BY <1>1, <1>16, <2>1 DEF Maintenance
  <2> QED
    BY <2>1, <2>2
<1> QED
  BY <1>4, <1>5, <1>6, <1>7, <1>8, <1>9, <1>10, <1>11, <1>12, <1>13, <1>14, <1>15, <1>16 DEF CloudStep, LoadStep, ResourceStep

(***************************************************************************)
(* The only invocation.                                                    *)
(***************************************************************************)
InterruptedAt(i) ==
  "longTask" \in Faults /\ inv[i].at \in {"invalidate", "failed"} /\ inv[i].outer

LEMMA Alone ==
  ASSUME OneInvocation, NEW i \in Invocations, TypeInv'
  PROVE  /\ EngineInv' /\ Current(i)' /\ LabelInv(i)' => SleepInv'
         /\ Interrupted <=> InterruptedAt(i)
         /\ Interrupted' <=> InterruptedAt(i)'
  BY DEF OneInvocation, SleepInv, Interrupted, InterruptedAt

\* A write of the item succeeds: nobody else can have written it since.
LEMMA TransitionSucceeds ==
  ASSUME SleepInv, OneInvocation, NEW i \in Invocations, NEW item \in Items, NEW l, NEW h,
         inv[i].at \notin Blind, Transition(i, item, l, h)
  PROVE  /\ ctl' = item /\ UNCHANGED <<lease, url, api, load, metric, cache, snaps, errors>>
         /\ inv'[i].at = l /\ inv'[i].copy = item /\ inv'[i].inner /\ inv'[i].outer = h
         /\ inv'[i].then = inv[i].then /\ inv'[i].name = inv[i].name
         /\ inv'[i].group = inv[i].group /\ inv'[i].host = inv[i].host
<1>1. inv[i].inner /\ inv \in [Invocations -> InvocationTypes]
  BY DEF SleepInv, Current, TypeInv, TypeOK, ControllerTypeOK
<1>2. inv' = Written(i, item, l, h) /\ ctl' = item /\ UNCHANGED <<cloudVars, errors>>
  BY <1>1 DEF Transition
<1>3. inv'[i] = [inv[i] EXCEPT !.at = l, !.copy = item, !.outer = h]
  BY <1>2 DEF Written
<1> QED
  BY <1>1, <1>2, <1>3 DEF InvocationTypes, cloudVars

LEMMA GoFields ==
  ASSUME TypeInv, NEW i \in Invocations, NEW l, Go(i, l)
  PROVE  /\ inv'[i].at = l
         /\ inv'[i].copy = inv[i].copy /\ inv'[i].inner = inv[i].inner
         /\ inv'[i].outer = inv[i].outer /\ inv'[i].then = inv[i].then
         /\ inv'[i].name = inv[i].name /\ inv'[i].host = inv[i].host
<1>1. inv'[i] = [inv[i] EXCEPT !.at = l] /\ inv[i] \in InvocationTypes
  BY DEF Go, TypeInv, TypeOK, ControllerTypeOK
<1> QED
  BY <1>1 DEF InvocationTypes

LEMMA LookFields ==
  ASSUME TypeInv, NEW i \in Invocations, NEW l, Look(i, l)
  PROVE  /\ inv'[i].at = l
         /\ inv'[i].copy = inv[i].copy /\ inv'[i].inner = inv[i].inner
         /\ inv'[i].outer = inv[i].outer /\ inv'[i].then = inv[i].then
         /\ inv'[i].name = inv[i].name /\ inv'[i].host = inv[i].host
         /\ UNCHANGED <<lease, url, api, load, metric, cache, snaps, ctl, errors>>
  BY GoFields DEF Look, cloudVars

LEMMA DescribedFields ==
  ASSUME TypeInv, NEW i \in Invocations, NEW l, Described(i, l)
  PROVE  /\ inv'[i].at = l /\ inv'[i].host = cache.endpoint
         /\ inv'[i].copy = inv[i].copy /\ inv'[i].inner = inv[i].inner
         /\ inv'[i].outer = inv[i].outer /\ inv'[i].then = inv[i].then
         /\ inv'[i].name = inv[i].name
         /\ UNCHANGED <<lease, url, api, load, metric, cache, snaps, ctl, errors>>
<1>1. UNCHANGED <<lease, url, api, load, metric, cache, snaps, ctl, errors>>
  BY DEF Described, cloudVars
<1>2. /\ inv'[i] = [inv[i] EXCEPT !.at = l, !.group = cache.status, !.host = cache.endpoint]
      /\ inv[i] \in InvocationTypes
  BY DEF Described, TypeInv, TypeOK, ControllerTypeOK
<1> QED
  BY <1>1, <1>2 DEF InvocationTypes

\* What an invocation that has read the item, or is about to, may rely on.
LEMMA Reading ==
  ASSUME SleepInv, NEW i \in Invocations
  PROVE  /\ TypeInv /\ EngineInv /\ Current(i) /\ LabelInv(i) /\ CloudTypeOK
         /\ inv[i].at \notin Blind => Copy(i) = ctl
         /\ ctl \in Items
  BY DEF SleepInv, Current, Copy, TypeInv, TypeOK, ControllerTypeOK

LEMMA AwakeKeeps ==
  ASSUME SleepInv, OneInvocation, TasksAreSeen, NEW i \in Invocations, ReconcileAwake(i)
  PROVE  SleepInv'
<1>1. TypeInv' /\ TypeInv
  BY AwakeTypes DEF SleepInv
<1>2. SUFFICES EngineInv' /\ Current(i)' /\ LabelInv(i)'
  BY <1>1, Alone
<1>3. EngineInv /\ Current(i) /\ LabelInv(i) /\ CloudTypeOK /\ ctl \in Items
  BY Reading
<1>4. (Interrupted <=> InterruptedAt(i)) /\ (Interrupted' <=> InterruptedAt(i)')
  BY <1>1, Alone
<1> USE WindowAssumption DEF CloudTypeOK, Ages, Connected, Gone, Up, Available, Quiet, Silent, EngineOff, At, Copy
<1> USE DEF EngineInv, AwayUnused, Served, NothingLost, Restorable, SnapshotKept, AlwaysOn,
      TasksVisible, InterruptedAt
<1> USE DEF Current, Blind, LabelInv, AwakeAt, RestoreAt, CheckAt, OffAt, GuardAt, AbsentAt, DeletionAt,
      SnapshotAt, OuterAt, AsleepAt, Guarding, CacheGuards, Deletion, Snapping, AfterTasks, SnapPhases
<1>5. CASE AwakeGroup(i)
  <2>1. /\ inv[i].at = "awakeGroup" /\ UNCHANGED <<lease, url, api, load, metric, cache, snaps, ctl>>
        /\ inv'[i].copy = inv[i].copy /\ inv'[i].inner = inv[i].inner /\ inv'[i].outer = inv[i].outer
        /\ inv'[i].then = inv[i].then /\ inv'[i].name = inv[i].name /\ inv'[i].host = cache.endpoint
    BY <1>5, <1>1, DescribedFields DEF AwakeGroup
  <2>2. \/ cache.status = "absent" /\ inv'[i].at = "restorePoint"
        \/ cache.status = "available" /\ ctl.phase = "ACTIVE" /\ inv'[i].at = "checkUrl"
        \/ cache.status = "available" /\ ctl.phase # "ACTIVE" /\ inv'[i].at = "publish"
        \/ inv'[i].at \in {"finish", "noteBusy"}
    BY <1>5, <1>1, <1>3, DescribedFields DEF AwakeGroup
  <2>3. EngineInv'
    BY <1>1, <1>3, <1>4, <2>1, <2>2
  <2>4. Current(i)' /\ LabelInv(i)'
    BY <1>1, <1>3, <1>4, <2>1, <2>2, <2>3
  <2> QED
    BY <2>3, <2>4
<1>6. CASE NoteBusy(i)
  <2> DEFINE item == Item("awake", BusyPhase(inv[i].group), Copy(i).name, Copy(i).proof)
  <2>1. item \in Items
    BY <1>1, <1>3, FieldTypes DEF Item, Items, Phases, BusyPhase
  <2>2. inv[i].at = "noteBusy" /\ Transition(i, item, "finish", FALSE)
    BY <1>6 DEF NoteBusy, Put
  <2> HIDE DEF item
  <2>3. ctl' = item /\ UNCHANGED <<lease, url, api, load, metric, cache, snaps>>
    BY <2>1, <2>2, TransitionSucceeds DEF Blind
  <2>4. /\ inv'[i].at = "finish" /\ inv'[i].copy = item /\ inv'[i].inner /\ inv'[i].outer = FALSE
        /\ inv'[i].then = inv[i].then /\ inv'[i].name = inv[i].name /\ inv'[i].host = inv[i].host
    BY <2>1, <2>2, TransitionSucceeds DEF Blind
  <2> QED
    BY <1>1, <1>3, <1>4, <2>2, <2>3, <2>4 DEF item, Item, Items, BusyPhase
<1>7. CASE CheckUrl(i)
  <2>1. /\ inv[i].at = "checkUrl" /\ UNCHANGED <<lease, url, api, load, metric, cache, snaps, ctl>>
        /\ inv'[i].copy = inv[i].copy /\ inv'[i].inner = inv[i].inner /\ inv'[i].outer = inv[i].outer
        /\ inv'[i].then = inv[i].then /\ inv'[i].name = inv[i].name /\ inv'[i].host = inv[i].host
    BY <1>7, <1>1, LookFields DEF CheckUrl
  <2>2. \/ url = inv[i].host /\ inv'[i].at = "awakeApi"
        \/ inv'[i].at = "publish"
    BY <1>7, <1>1, <1>3, LookFields DEF CheckUrl
  <2>3. EngineInv'
    BY <1>1, <1>3, <1>4, <2>1, <2>2
  <2>4. Current(i)' /\ LabelInv(i)'
    BY <1>1, <1>3, <1>4, <2>1, <2>2, <2>3
  <2> QED
    BY <2>3, <2>4
<1>8. CASE PublishCacheEndpoint(i)
  <2>1. /\ inv[i].at = "publish" /\ url' = inv[i].host
        /\ UNCHANGED <<lease, api, load, metric, cache, snaps, ctl>>
        /\ inv'[i].copy = inv[i].copy /\ inv'[i].inner = inv[i].inner /\ inv'[i].outer = inv[i].outer
    BY <1>8, <1>1, GoFields DEF PublishCacheEndpoint
  <2>2. \/ inv'[i].at = "awakeApi" /\ ctl.phase \in {"ACTIVE", "API_STARTING"}
        \/ inv'[i].at = "enterStarting"
    BY <1>8, <1>1, <1>3, GoFields DEF PublishCacheEndpoint
  <2>3. EngineInv'
    BY <1>1, <1>3, <1>4, <2>1, <2>2
  <2>4. Current(i)' /\ LabelInv(i)'
    BY <1>1, <1>3, <1>4, <2>1, <2>2, <2>3
  <2> QED
    BY <2>3, <2>4
<1>9. CASE EnterStarting(i)
  <2> DEFINE item == Item(Copy(i).desired, "API_STARTING", Copy(i).name, "none")
  <2>1. item \in Items
    BY <1>1, <1>3, FieldTypes DEF Item, Items, Phases
  <2>2. inv[i].at = "enterStarting" /\ Transition(i, item, "awakeApi", FALSE)
    BY <1>9 DEF EnterStarting, Put
  <2> HIDE DEF item
  <2>3. ctl' = item /\ UNCHANGED <<lease, url, api, load, metric, cache, snaps>>
    BY <2>1, <2>2, TransitionSucceeds DEF Blind
  <2>4. /\ inv'[i].at = "awakeApi" /\ inv'[i].copy = item /\ inv'[i].inner /\ inv'[i].outer = FALSE
        /\ inv'[i].then = inv[i].then /\ inv'[i].name = inv[i].name /\ inv'[i].host = inv[i].host
    BY <2>1, <2>2, TransitionSucceeds DEF Blind
  <2> QED
    BY <1>1, <1>3, <1>4, <2>2, <2>3, <2>4 DEF item, Item, Items
<1>10. CASE AwakeApi(i)
  <2>1. /\ inv[i].at = "awakeApi" /\ UNCHANGED <<lease, url, api, load, metric, cache, snaps, ctl>>
        /\ inv'[i].copy = inv[i].copy /\ inv'[i].inner = inv[i].inner /\ inv'[i].outer = inv[i].outer
        /\ inv'[i].then = inv[i].then /\ inv'[i].name = inv[i].name /\ inv'[i].host = inv[i].host
    BY <1>10, <1>1, LookFields DEF AwakeApi
  <2>2. inv'[i].at \in {"setOne", "finish", "enterActive"}
    BY <1>10, <1>1, <1>3, LookFields DEF AwakeApi, AfterApi
  <2>3. EngineInv'
    BY <1>1, <1>3, <1>4, <2>1, <2>2
  <2>4. Current(i)' /\ LabelInv(i)'
    BY <1>1, <1>3, <1>4, <2>1, <2>2, <2>3
  <2> QED
    BY <2>3, <2>4
<1>11. CASE StartApi(i)
  <2>1. /\ inv[i].at = "setOne" /\ api' = [api EXCEPT !.desired = 1]
        /\ UNCHANGED <<lease, url, load, metric, cache, snaps, ctl>>
        /\ inv'[i].copy = inv[i].copy /\ inv'[i].inner = inv[i].inner /\ inv'[i].outer = inv[i].outer
        /\ inv'[i].at \in {"finish", "enterActive"}
    BY <1>11, <1>1, GoFields DEF StartApi, SetDesired, AfterApi
  <2>2. EngineInv'
    BY <1>1, <1>3, <1>4, <2>1
  <2>3. Current(i)' /\ LabelInv(i)'
    BY <1>1, <1>3, <1>4, <2>1, <2>2
  <2> QED
    BY <2>2, <2>3
<1>12. CASE EnterActive(i)
  <2> DEFINE item == Item("awake", "ACTIVE", Copy(i).name, "none")
  <2>1. item \in Items
    BY <1>1, <1>3, FieldTypes DEF Item, Items, Phases
  <2>2. inv[i].at = "enterActive" /\ Transition(i, item, (IF Hibernation THEN "prune" ELSE "finish"), FALSE)
    BY <1>12 DEF EnterActive, Put
  <2> HIDE DEF item
  <2>3. ctl' = item /\ UNCHANGED <<lease, url, api, load, metric, cache, snaps>>
    BY <2>1, <2>2, TransitionSucceeds DEF Blind
  <2>4. /\ inv'[i].at = (IF Hibernation THEN "prune" ELSE "finish") /\ inv'[i].copy = item /\ inv'[i].inner /\ inv'[i].outer = FALSE
        /\ inv'[i].then = inv[i].then /\ inv'[i].name = inv[i].name /\ inv'[i].host = inv[i].host
    BY <2>1, <2>2, TransitionSucceeds DEF Blind
  <2> QED
    BY <1>1, <1>3, <1>4, <2>2, <2>3, <2>4 DEF item, Item, Items
<1>13. CASE PruneSnapshots(i)
  <2>1. /\ inv[i].at = "prune" /\ Go(i, "finish")
        /\ UNCHANGED <<lease, url, api, load, metric, cache, ctl, errors>>
    BY <1>13 DEF PruneSnapshots, Finish
  <2> QED
    BY <1>1, <1>3, <1>4, <2>1, GoFields
<1>14. CASE RestorePoint(i)
  <2>1. inv[i].at = "restorePoint" /\ UNCHANGED <<lease, url, api, load, metric, cache, snaps, ctl>>
    BY <1>14 DEF RestorePoint, cloudVars
  <2>2. Gone /\ Available(ctl.name) /\ Copy(i).name = ctl.name
    BY <1>3, <2>1
  <2>3. RestoreFrom(i) = ctl.name
    BY <2>2 DEF RestoreFrom
  <2>4. inv'[i] = [inv[i] EXCEPT !.name = ctl.name, !.then = "createGroup", !.at =
           IF Copy(i).phase = "RESTORING" THEN "createGroup" ELSE "enterRestoring"]
    BY <1>14, <1>1, <2>2, <2>3 DEF RestorePoint, TypeInv, TypeOK, ControllerTypeOK
  <2>5. /\ inv'[i].at \in {"createGroup", "enterRestoring"}
        /\ inv'[i].copy = inv[i].copy /\ inv'[i].inner = inv[i].inner
        /\ inv'[i].then = "createGroup" /\ inv'[i].name = ctl.name
    BY <1>1, <2>4, FieldTypes DEF InvocationTypes
  <2>6. EngineInv'
    BY <1>1, <1>3, <1>4, <2>1, <2>2, <2>3, <2>4, <2>5
  <2>7. Current(i)' /\ LabelInv(i)'
    BY <1>1, <1>3, <1>4, <2>1, <2>2, <2>3, <2>4, <2>5, <2>6
  <2> QED
    BY <2>6, <2>7
<1>15. CASE EnterRestoring(i)
  <2> DEFINE item == Item("awake", "RESTORING", inv[i].name, Copy(i).proof)
  <2>1. item \in Items
    BY <1>1, <1>3, FieldTypes DEF Item, Items, Phases
  <2>2. inv[i].at = "enterRestoring" /\ Transition(i, item, inv[i].then, FALSE)
    BY <1>15 DEF EnterRestoring, Put
  <2> HIDE DEF item
  <2>3. ctl' = item /\ UNCHANGED <<lease, url, api, load, metric, cache, snaps>>
    BY <2>1, <2>2, TransitionSucceeds DEF Blind
  <2>4. /\ inv'[i].at = inv[i].then /\ inv'[i].copy = item /\ inv'[i].inner /\ inv'[i].outer = FALSE
        /\ inv'[i].then = inv[i].then /\ inv'[i].name = inv[i].name /\ inv'[i].host = inv[i].host
    BY <2>1, <2>2, TransitionSucceeds DEF Blind
  <2> QED
    BY <1>1, <1>3, <1>4, <2>2, <2>3, <2>4 DEF item, Item, Items
<1>16. CASE CreateReplicationGroup(i)
  <2>1. /\ inv[i].at = "createGroup"
        /\ UNCHANGED <<lease, url, api, load, metric, snaps, ctl>>
        /\ inv'[i].copy = inv[i].copy /\ inv'[i].inner = inv[i].inner
        /\ inv'[i].at \in {"finish", "failedMutation", "answered"}
    BY <1>16, <1>1, GoFields DEF CreateReplicationGroup, Finish
  <2>2. inv[i].name \in snaps.full
    BY <1>3, <2>1
  <2>3. \/ UNCHANGED cache
        \/ \E e \in Endpoints : cache' = [status |-> "creating", endpoint |-> e, full |-> TRUE]
    <3>1. (inv[i].name \in snaps.full) = TRUE
      BY <2>2
    <3> QED
      BY <1>16, <3>1 DEF CreateReplicationGroup
  <2>4. \/ UNCHANGED cache
        \/ cache'.status = "creating" /\ cache'.full
    BY <2>3
  <2>5. EngineInv'
    BY <1>1, <1>3, <1>4, <2>1, <2>2, <2>3, <2>4
  <2>6. Current(i)' /\ LabelInv(i)'
    BY <1>1, <1>3, <1>4, <2>1, <2>2, <2>3, <2>4, <2>5
  <2> QED
    BY <2>5, <2>6
<1> QED
  BY <1>5, <1>6, <1>7, <1>8, <1>9, <1>10, <1>11, <1>12, <1>13, <1>14, <1>15, <1>16 DEF ReconcileAwake

LEMMA JudgeFields ==
  ASSUME TypeInv, NEW i \in Invocations, NEW ok, NEW l, Judge(i, ok, l)
  PROVE  /\ inv'[i].copy = inv[i].copy /\ inv'[i].inner = inv[i].inner /\ inv'[i].outer = inv[i].outer
         /\ inv'[i].name = inv[i].name
         /\ \/ ok /\ inv'[i].at = l /\ inv'[i].then = inv[i].then
            \/ ~ok /\ inv'[i].at = "invalidate" /\ inv'[i].then = "finish"
<1>1. inv[i] \in InvocationTypes /\ inv \in [Invocations -> InvocationTypes]
  BY DEF TypeInv, TypeOK, ControllerTypeOK
<1>2. CASE ok
  <2>1. inv'[i] = [inv[i] EXCEPT !.at = l]
    BY <1>1, <1>2 DEF Judge
  <2> QED
    BY <1>1, <1>2, <2>1 DEF InvocationTypes
<1>3. CASE ~ok
  <2>1. inv'[i] = [inv[i] EXCEPT !.at = "invalidate", !.then = "finish"]
    BY <1>1, <1>3 DEF Judge
  <2> QED
    BY <1>1, <1>3, <2>1 DEF InvocationTypes
<1> QED
  BY <1>2, <1>3

LEMMA FetchedFields ==
  ASSUME TypeInv, NEW i \in Invocations, NEW l, Fetched(i, l)
  PROVE  /\ inv'[i].at = l /\ inv'[i].copy = ctl /\ inv'[i].inner /\ inv'[i].outer
         /\ inv'[i].then = inv[i].then /\ inv'[i].name = inv[i].name
<1>1. inv[i] \in InvocationTypes /\ inv \in [Invocations -> InvocationTypes]
  BY DEF TypeInv, TypeOK, ControllerTypeOK
<1>2. inv'[i] = [inv[i] EXCEPT !.at = l, !.copy = ctl, !.inner = TRUE, !.outer = TRUE]
  BY <1>1 DEF Fetched
<1> QED
  BY <1>1, <1>2 DEF InvocationTypes

LEMMA WakeKeeps ==
  ASSUME SleepInv, OneInvocation, TasksAreSeen, NEW i \in Invocations, HandleWake(i)
  PROVE  SleepInv'
<1>1. TypeInv' /\ TypeInv
  BY WakeTypes DEF SleepInv
<1>2. SUFFICES EngineInv' /\ Current(i)' /\ LabelInv(i)'
  BY <1>1, Alone
<1>3. EngineInv /\ Current(i) /\ LabelInv(i) /\ CloudTypeOK /\ ctl \in Items
  BY Reading
<1>4. (Interrupted <=> InterruptedAt(i)) /\ (Interrupted' <=> InterruptedAt(i)')
  BY <1>1, Alone
<1> USE WindowAssumption DEF CloudTypeOK, Ages, Connected, Gone, Up, Available, Quiet, Silent, EngineOff, At, Copy
<1> USE DEF EngineInv, AwayUnused, Served, NothingLost, Restorable, SnapshotKept, AlwaysOn,
      TasksVisible, InterruptedAt
<1> USE DEF Current, Blind, LabelInv, AwakeAt, RestoreAt, CheckAt, OffAt, GuardAt, AbsentAt, DeletionAt,
      SnapshotAt, OuterAt, AsleepAt, Guarding, CacheGuards, Deletion, Snapping, AfterTasks, SnapPhases
<1>5. CASE StartWake(i)
  <2>1. /\ inv[i].at = "idle" /\ UNCHANGED <<lease, url, api, load, metric, cache, snaps, ctl>>
        /\ inv'[i].copy = inv[i].copy /\ inv'[i].inner = inv[i].inner /\ inv'[i].outer = inv[i].outer
        /\ inv'[i].then = inv[i].then /\ inv'[i].name = inv[i].name /\ inv'[i].host = inv[i].host
    BY <1>5, <1>1, LookFields DEF StartWake
  <2>2. inv'[i].at = "putLease"
    BY <1>5, <1>1, <1>3, LookFields DEF StartWake
  <2>3. EngineInv'
    BY <1>1, <1>3, <1>4, <2>1, <2>2
  <2>4. Current(i)' /\ LabelInv(i)'
    BY <1>1, <1>3, <1>4, <2>1, <2>2, <2>3
  <2> QED
    BY <2>3, <2>4
<1>6. CASE WriteLastWake(i)
  <2>1. /\ inv[i].at = "putLease" /\ UNCHANGED <<url, api, load, metric, cache, snaps, ctl>>
    BY <1>6 DEF WriteLastWake
  <2>2. inv'[i].at = "wakeRead"
    BY <1>6, <1>1 DEF WriteLastWake, TypeInv, TypeOK, ControllerTypeOK, InvocationTypes
  <2>3. EngineInv'
    BY <1>1, <1>3, <1>4, <2>1, <2>2
  <2>4. Current(i)' /\ LabelInv(i)'
    BY <1>1, <1>3, <1>4, <2>1, <2>2, <2>3
  <2> QED
    BY <2>3, <2>4
<1>7. CASE ReadStateForWake(i)
  <2>1. /\ inv[i].at = "wakeRead" /\ UNCHANGED <<lease, url, api, load, metric, cache, snaps, ctl>>
    BY <1>7 DEF ReadStateForWake, cloudVars
  <2>2. inv'[i].at = "claimWake" /\ inv'[i].copy = ctl /\ inv'[i].inner
    BY <1>7, <1>1, FetchedFields DEF ReadStateForWake
  <2>3. EngineInv'
    BY <1>1, <1>3, <1>4, <2>1, <2>2
  <2>4. Current(i)' /\ LabelInv(i)'
    BY <1>1, <1>3, <1>4, <2>1, <2>2, <2>3
  <2> QED
    BY <2>3, <2>4
<1>8. CASE ClaimWake(i)
  <2> DEFINE item == Item("awake", IF Copy(i).exists THEN Copy(i).phase ELSE "API_STARTING", Copy(i).name, "none")
  <2>1. item \in Items
    BY <1>1, <1>3, FieldTypes DEF Item, Items, Phases
  <2>2. inv[i].at = "claimWake" /\ Transition(i, item, (IF Hibernation THEN "awakeGroup" ELSE "awakeApi"), TRUE)
    BY <1>8 DEF ClaimWake, AwakeStart
  <2> HIDE DEF item
  <2>3. ctl' = item /\ UNCHANGED <<lease, url, api, load, metric, cache, snaps>>
    BY <2>1, <2>2, TransitionSucceeds DEF Blind
  <2>4. /\ inv'[i].at = (IF Hibernation THEN "awakeGroup" ELSE "awakeApi") /\ inv'[i].copy = item /\ inv'[i].inner /\ inv'[i].outer = TRUE
        /\ inv'[i].then = inv[i].then /\ inv'[i].name = inv[i].name /\ inv'[i].host = inv[i].host
    BY <2>1, <2>2, TransitionSucceeds DEF Blind
  <2> QED
    BY <1>1, <1>3, <1>4, <2>2, <2>3, <2>4 DEF item, Item, Items
<1> QED
  BY <1>5, <1>6, <1>7, <1>8 DEF HandleWake

LEMMA ActivityKeeps ==
  ASSUME SleepInv, OneInvocation, TasksAreSeen, NEW i \in Invocations, ActivityGuard(i)
  PROVE  SleepInv'
<1>1. TypeInv' /\ TypeInv
  BY ActivityTypes DEF SleepInv
<1>2. SUFFICES EngineInv' /\ Current(i)' /\ LabelInv(i)'
  BY <1>1, Alone
<1>3. EngineInv /\ Current(i) /\ LabelInv(i) /\ CloudTypeOK /\ ctl \in Items
  BY Reading
<1>4. (Interrupted <=> InterruptedAt(i)) /\ (Interrupted' <=> InterruptedAt(i)')
  BY <1>1, Alone
<1> USE WindowAssumption DEF CloudTypeOK, Ages, Connected, Gone, Up, Available, Quiet, Silent, EngineOff, At, Copy
<1> USE DEF EngineInv, AwayUnused, Served, NothingLost, Restorable, SnapshotKept, AlwaysOn,
      TasksVisible, InterruptedAt
<1> USE DEF Current, Blind, LabelInv, AwakeAt, RestoreAt, CheckAt, OffAt, GuardAt, AbsentAt, DeletionAt,
      SnapshotAt, OuterAt, AsleepAt, Guarding, CacheGuards, Deletion, Snapping, AfterTasks, SnapPhases
<1>5. CASE GuardLease(i)
  <2> DEFINE ok == WakeIsStillStale(i)
  <2>1. inv[i].at = "guardLease" /\ Judge(i, ok, "guardWorker") /\ UNCHANGED <<lease, url, api, load, metric, cache, snaps, ctl>>
    BY <1>5 DEF GuardLease, Guard, cloudVars
  <2> HIDE DEF ok
  <2>2. /\ inv'[i].copy = inv[i].copy /\ inv'[i].inner = inv[i].inner /\ inv'[i].outer = inv[i].outer
        /\ inv'[i].name = inv[i].name
        /\ \/ ok /\ inv'[i].at = "guardWorker" /\ inv'[i].then = inv[i].then
           \/ inv'[i].at = "invalidate" /\ inv'[i].then = "finish"
    BY <1>1, <2>1, JudgeFields
  <2>3. ok => lease = "stale"
    BY <1>3, <2>1 DEF ok, WakeIsStillStale
  <2>4. EngineInv'
    BY <1>1, <1>3, <1>4, <2>1, <2>2, <2>3
  <2>5. Current(i)' /\ LabelInv(i)'
    BY <1>1, <1>3, <1>4, <2>1, <2>2, <2>3, <2>4
  <2> QED
    BY <2>4, <2>5
<1>6. CASE GuardWorker(i)
  <2> DEFINE ok == WorkerStopped
  <2>1. inv[i].at = "guardWorker" /\ Judge(i, ok, "guardMetric") /\ UNCHANGED <<lease, url, api, load, metric, cache, snaps, ctl>>
    BY <1>6 DEF GuardWorker, Guard, cloudVars
  <2> HIDE DEF ok
  <2>2. /\ inv'[i].copy = inv[i].copy /\ inv'[i].inner = inv[i].inner /\ inv'[i].outer = inv[i].outer
        /\ inv'[i].name = inv[i].name
        /\ \/ ok /\ inv'[i].at = "guardMetric" /\ inv'[i].then = inv[i].then
           \/ inv'[i].at = "invalidate" /\ inv'[i].then = "finish"
    BY <1>1, <2>1, JudgeFields
  <2>3. ok => load.worker # "running"
    BY <1>3, <2>1 DEF ok, WorkerStopped
  <2>4. EngineInv'
    BY <1>1, <1>3, <1>4, <2>1, <2>2, <2>3
  <2>5. Current(i)' /\ LabelInv(i)'
    BY <1>1, <1>3, <1>4, <2>1, <2>2, <2>3, <2>4
  <2> QED
    BY <2>4, <2>5
<1>7. CASE GuardMetric(i)
  <2> DEFINE ok == QueueMetric = "zero" \/ (QueueMetric = "missing" /\ HasZeroProof(Copy(i)))
  <2>1. inv[i].at = "guardMetric" /\ Judge(i, ok, "guardTasks") /\ UNCHANGED <<lease, url, api, load, metric, cache, snaps, ctl>>
    BY <1>7 DEF GuardMetric, Guard, cloudVars
  <2> HIDE DEF ok
  <2>2. /\ inv'[i].copy = inv[i].copy /\ inv'[i].inner = inv[i].inner /\ inv'[i].outer = inv[i].outer
        /\ inv'[i].name = inv[i].name
        /\ \/ ok /\ inv'[i].at = "guardTasks" /\ inv'[i].then = inv[i].then
           \/ inv'[i].at = "invalidate" /\ inv'[i].then = "finish"
    BY <1>1, <2>1, JudgeFields
  <2>3. ok => metric.positive > Window
    BY <1>3, <2>1 DEF ok, QueueMetric
  <2>4. EngineInv'
    BY <1>1, <1>3, <1>4, <2>1, <2>2, <2>3
  <2>5. Current(i)' /\ LabelInv(i)'
    BY <1>1, <1>3, <1>4, <2>1, <2>2, <2>3, <2>4
  <2> QED
    BY <2>4, <2>5
<1>8. CASE GuardTasks(i)
  <2> DEFINE ok == ~UnexpectedTasks(inv[i].then = "sleepApi")
  <2>1. /\ inv[i].at = "guardTasks" /\ Judge(i, ok, inv[i].then)
        /\ UNCHANGED <<lease, url, api, metric, cache, snaps, ctl>>
        /\ load' = [load EXCEPT !.task = IF load.task = "long" THEN "running" ELSE load.task]
    BY <1>8 DEF GuardTasks, GuardNoTask
  <2>2. ok => /\ load.task = "none" /\ load.worker = "none" /\ api.task # "stopping"
              /\ inv[i].then = "sleepApi" \/ api.task # "running"
    BY DEF UnexpectedTasks
  <2> HIDE DEF ok
  <2>3. /\ inv'[i].copy = inv[i].copy /\ inv'[i].inner = inv[i].inner /\ inv'[i].outer = inv[i].outer
        /\ inv'[i].name = inv[i].name
        /\ \/ ok /\ inv'[i].at = inv[i].then /\ inv'[i].then = inv[i].then
           \/ inv'[i].at = "invalidate" /\ inv'[i].then = "finish"
    BY <1>1, <2>1, JudgeFields
  <2>4. EngineInv'
    BY <1>1, <1>3, <1>4, <2>1, <2>2, <2>3
  <2>5. Current(i)' /\ LabelInv(i)'
    BY <1>1, <1>3, <1>4, <2>1, <2>2, <2>3, <2>4
  <2> QED
    BY <2>4, <2>5
<1>9. CASE Invalidate(i)
  <2> DEFINE quiescing == Item(Copy(i).desired, "QUIESCING", NoName, "none")
             cleared   == [Copy(i) EXCEPT !.proof = "none"]
  <2>1. inv[i].at = "invalidate" /\ Copy(i) = ctl
    BY <1>9, <1>3 DEF Invalidate
  <2>2. quiescing \in Items /\ cleared \in Items
    BY <1>3, <2>1 DEF Item, Items, Phases
  <2>3. CASE Copy(i).phase \in SnapPhases /\ Transition(i, quiescing, inv[i].then, FALSE)
    <3> HIDE DEF quiescing
    <3>1. ctl' = quiescing /\ UNCHANGED <<lease, url, api, load, metric, cache, snaps>>
      BY <2>1, <2>2, <2>3, TransitionSucceeds DEF Blind
    <3>2. inv'[i].at = inv[i].then /\ inv'[i].copy = quiescing /\ inv'[i].inner
      BY <2>1, <2>2, <2>3, TransitionSucceeds DEF Blind
    <3> QED
      BY <1>1, <1>3, <1>4, <2>1, <2>3, <3>1, <3>2 DEF quiescing, Item, Items
  <2>4. CASE Copy(i).phase \notin SnapPhases /\ Transition(i, cleared, inv[i].then, FALSE)
    <3> HIDE DEF cleared
    <3>1. ctl' = cleared /\ UNCHANGED <<lease, url, api, load, metric, cache, snaps>>
      BY <2>1, <2>2, <2>4, TransitionSucceeds DEF Blind
    <3>2. inv'[i].at = inv[i].then /\ inv'[i].copy = cleared /\ inv'[i].inner
      BY <2>1, <2>2, <2>4, TransitionSucceeds DEF Blind
    <3> QED
      BY <1>1, <1>3, <1>4, <2>1, <2>4, <3>1, <3>2 DEF cleared, Items
  <2>5. CASE Copy(i).phase \notin SnapPhases /\ Look(i, inv[i].then)
    <3>1. UNCHANGED <<lease, url, api, load, metric, cache, snaps, ctl>> /\ inv'[i].at = inv[i].then
          /\ inv'[i].copy = inv[i].copy /\ inv'[i].inner = inv[i].inner
      BY <1>1, <2>5, LookFields
    <3> QED
      BY <1>1, <1>3, <1>4, <2>1, <2>5, <3>1
  <2> QED
    BY <1>9, <2>3, <2>4, <2>5 DEF Invalidate
<1> QED
  BY <1>5, <1>6, <1>7, <1>8, <1>9 DEF ActivityGuard

LEMMA CheckKeeps ==
  ASSUME SleepInv, OneInvocation, TasksAreSeen, NEW i \in Invocations, HandleIdleCheck(i)
  PROVE  SleepInv'
<1>1. TypeInv' /\ TypeInv
  BY CheckTypes DEF SleepInv
<1>2. SUFFICES EngineInv' /\ Current(i)' /\ LabelInv(i)'
  BY <1>1, Alone
<1>3. EngineInv /\ Current(i) /\ LabelInv(i) /\ CloudTypeOK /\ ctl \in Items
  BY Reading
<1>4. (Interrupted <=> InterruptedAt(i)) /\ (Interrupted' <=> InterruptedAt(i)')
  BY <1>1, Alone
<1> USE WindowAssumption DEF CloudTypeOK, Ages, Connected, Gone, Up, Available, Quiet, Silent, EngineOff, At, Copy
<1> USE DEF EngineInv, AwayUnused, Served, NothingLost, Restorable, SnapshotKept, AlwaysOn,
      TasksVisible, InterruptedAt
<1> USE DEF Current, Blind, LabelInv, AwakeAt, RestoreAt, CheckAt, OffAt, GuardAt, AbsentAt, DeletionAt,
      SnapshotAt, OuterAt, AsleepAt, Guarding, CacheGuards, Deletion, Snapping, AfterTasks, SnapPhases
<1>5. CASE StartIdleCheck(i)
  <2>1. inv[i].at = "idle" /\ UNCHANGED <<lease, url, api, load, cache, snaps, ctl>>
    BY <1>5 DEF StartIdleCheck
  <2>2. inv'[i].at = "readLease" /\ inv'[i].then = "sleepApi"
    BY <1>5, <1>1 DEF StartIdleCheck, TypeInv, TypeOK, ControllerTypeOK, InvocationTypes
  <2>3. metric.positive > 1 => metric'.positive > 1
    BY <1>5, <1>3 DEF StartIdleCheck, MetricAges, Older
  <2>4. EngineInv'
    BY <1>1, <1>3, <1>4, <2>1, <2>2, <2>3
  <2>5. Current(i)' /\ LabelInv(i)'
    BY <1>1, <1>3, <1>4, <2>1, <2>2, <2>3, <2>4
  <2> QED
    BY <2>4, <2>5
<1>6. CASE ReadLastWake(i)
  <2>1. inv[i].at = "readLease" /\ UNCHANGED <<lease, url, api, load, metric, cache, snaps, ctl>>
    BY <1>6 DEF ReadLastWake, cloudVars
  <2>2. inv'[i].at = "sleepRead" /\ inv'[i].then = inv[i].then
    BY <1>6, <1>1 DEF ReadLastWake, TypeInv, TypeOK, ControllerTypeOK, InvocationTypes
  <2>3. EngineInv'
    BY <1>1, <1>3, <1>4, <2>1, <2>2
  <2>4. Current(i)' /\ LabelInv(i)'
    BY <1>1, <1>3, <1>4, <2>1, <2>2, <2>3
  <2> QED
    BY <2>3, <2>4
<1>7. CASE ReadStateForSleep(i)
  <2> DEFINE to == AfterRead(i)
  <2>1. inv[i].at = "sleepRead" /\ UNCHANGED <<lease, url, api, load, metric, cache, snaps, ctl>> /\ Fetched(i, to)
    BY <1>7 DEF ReadStateForSleep, cloudVars
  <2>2. \/ Hibernation /\ to = "awakeGroup"
        \/ ~Hibernation /\ to = "awakeApi"
        \/ to \in {"reclaim", "beginSleep"}
        \/ ctl.desired = "sleep" /\ to \in {"sleepingGroup", "guardLease"}
    BY <1>3 DEF AfterRead, AwakeStart, Items
  <2> HIDE DEF to
  <2>3. inv'[i].at = to /\ inv'[i].copy = ctl /\ inv'[i].inner /\ inv'[i].outer /\ inv'[i].then = inv[i].then
    BY <1>1, <2>1, FetchedFields
  <2>4. EngineInv'
    BY <1>1, <1>3, <1>4, <2>1, <2>2, <2>3
  <2>5. Current(i)' /\ LabelInv(i)'
    BY <1>1, <1>3, <1>4, <2>1, <2>2, <2>3, <2>4
  <2> QED
    BY <2>4, <2>5
<1>8. CASE Reclaim(i)
  <2> DEFINE item == [Copy(i) EXCEPT !.desired = "awake"]
  <2>1. item \in Items
    BY <1>1, <1>3, FieldTypes DEF Item, Items, Phases
  <2>2. inv[i].at = "reclaim" /\ Transition(i, item, (IF Hibernation THEN "awakeGroup" ELSE "awakeApi"), TRUE)
    BY <1>8 DEF Reclaim, AwakeStart
  <2> HIDE DEF item
  <2>3. ctl' = item /\ UNCHANGED <<lease, url, api, load, metric, cache, snaps>>
    BY <2>1, <2>2, TransitionSucceeds DEF Blind
  <2>4. /\ inv'[i].at = (IF Hibernation THEN "awakeGroup" ELSE "awakeApi") /\ inv'[i].copy = item /\ inv'[i].inner /\ inv'[i].outer = TRUE
        /\ inv'[i].then = inv[i].then /\ inv'[i].name = inv[i].name /\ inv'[i].host = inv[i].host
    BY <2>1, <2>2, TransitionSucceeds DEF Blind
  <2> QED
    BY <1>1, <1>3, <1>4, <2>2, <2>3, <2>4 DEF item, Item, Items
<1>9. CASE SleepingGroup(i)
  <2>1. /\ inv[i].at = "sleepingGroup" /\ UNCHANGED <<lease, url, api, load, metric, cache, snaps, ctl>>
        /\ inv'[i].copy = inv[i].copy /\ inv'[i].inner = inv[i].inner /\ inv'[i].outer = inv[i].outer
        /\ inv'[i].then = inv[i].then /\ inv'[i].name = inv[i].name /\ inv'[i].host = cache.endpoint
    BY <1>9, <1>1, DescribedFields DEF SleepingGroup
  <2>2. inv'[i].at \in {"sleepingSnapshot", "guardLease"}
    BY <1>9, <1>1, <1>3, DescribedFields DEF SleepingGroup
  <2>3. EngineInv'
    BY <1>1, <1>3, <1>4, <2>1, <2>2
  <2>4. Current(i)' /\ LabelInv(i)'
    BY <1>1, <1>3, <1>4, <2>1, <2>2, <2>3
  <2> QED
    BY <2>3, <2>4
<1>10. CASE SleepingSnapshot(i)
  <2>1. /\ inv[i].at = "sleepingSnapshot" /\ UNCHANGED <<lease, url, api, load, metric, cache, snaps, ctl>>
        /\ inv'[i].copy = inv[i].copy /\ inv'[i].inner = inv[i].inner /\ inv'[i].outer = inv[i].outer
        /\ inv'[i].then = inv[i].then /\ inv'[i].name = inv[i].name /\ inv'[i].host = inv[i].host
    BY <1>10, <1>1, LookFields DEF SleepingSnapshot
  <2>2. inv'[i].at \in {"finish", "failed"}
    BY <1>10, <1>1, <1>3, LookFields DEF SleepingSnapshot
  <2>3. EngineInv'
    BY <1>1, <1>3, <1>4, <2>1, <2>2
  <2>4. Current(i)' /\ LabelInv(i)'
    BY <1>1, <1>3, <1>4, <2>1, <2>2, <2>3
  <2> QED
    BY <2>3, <2>4
<1>11. CASE BeginSleep(i)
  <2> DEFINE item == Item("sleep", "QUIESCING", Copy(i).name, "none")
  <2>1. item \in Items
    BY <1>1, <1>3, FieldTypes DEF Item, Items, Phases
  <2>2. inv[i].at = "beginSleep" /\ Transition(i, item, "guardLease", TRUE)
    BY <1>11 DEF BeginSleep
  <2> HIDE DEF item
  <2>3. ctl' = item /\ UNCHANGED <<lease, url, api, load, metric, cache, snaps>>
    BY <2>1, <2>2, TransitionSucceeds DEF Blind
  <2>4. /\ inv'[i].at = "guardLease" /\ inv'[i].copy = item /\ inv'[i].inner /\ inv'[i].outer = TRUE
        /\ inv'[i].then = inv[i].then /\ inv'[i].name = inv[i].name /\ inv'[i].host = inv[i].host
    BY <2>1, <2>2, TransitionSucceeds DEF Blind
  <2> QED
    BY <1>1, <1>3, <1>4, <2>2, <2>3, <2>4 DEF item, Item, Items
<1> QED
  BY <1>5, <1>6, <1>7, <1>8, <1>9, <1>10, <1>11 DEF HandleIdleCheck

LEMMA ProgressKeeps ==
  ASSUME SleepInv, OneInvocation, TasksAreSeen, NEW i \in Invocations, ProgressSleep(i)
  PROVE  SleepInv'
<1>1. TypeInv' /\ TypeInv
  BY SleepTypes DEF SleepInv
<1>2. SUFFICES EngineInv' /\ Current(i)' /\ LabelInv(i)'
  BY <1>1, Alone
<1>3. EngineInv /\ Current(i) /\ LabelInv(i) /\ CloudTypeOK /\ ctl \in Items
  BY Reading
<1>4. (Interrupted <=> InterruptedAt(i)) /\ (Interrupted' <=> InterruptedAt(i)')
  BY <1>1, Alone
<1> USE WindowAssumption DEF CloudTypeOK, Ages, Connected, Gone, Up, Available, Quiet, Silent, EngineOff, At, Copy
<1> USE DEF EngineInv, AwayUnused, Served, NothingLost, Restorable, SnapshotKept, AlwaysOn,
      TasksVisible, InterruptedAt
<1> USE DEF Current, Blind, LabelInv, AwakeAt, RestoreAt, CheckAt, OffAt, GuardAt, AbsentAt, DeletionAt,
      SnapshotAt, OuterAt, AsleepAt, Guarding, CacheGuards, Deletion, Snapping, AfterTasks, SnapPhases
<1>5. CASE SleepApi(i)
  <2>1. inv[i].at = "sleepApi" /\ UNCHANGED <<lease, url, api, load, metric, cache, snaps, ctl>>
    BY <1>5 DEF SleepApi, cloudVars
  <2>2. inv[i] \in InvocationTypes /\ inv \in [Invocations -> InvocationTypes]
    BY <1>1 DEF TypeInv, TypeOK, ControllerTypeOK
  <2>3. CASE ApiStopped
    <3>1. inv'[i] = [inv[i] EXCEPT !.at = "sleepTasks"]
      BY <1>5, <2>2, <2>3 DEF SleepApi
    <3>2. inv'[i].copy = inv[i].copy /\ inv'[i].inner = inv[i].inner /\ inv'[i].outer = inv[i].outer
          /\ inv'[i].at = "sleepTasks"
      BY <2>2, <3>1 DEF InvocationTypes
    <3> QED
      BY <1>1, <1>3, <1>4, <2>1, <2>3, <3>2 DEF ApiStopped, ServiceStopped
  <2>4. CASE ~ApiStopped
    <3> DEFINE next == IF api.desired # 0 THEN "setZero" ELSE "leaseAgain"
    <3>1. inv'[i] = [inv[i] EXCEPT !.at = "invalidate", !.then = next]
      BY <1>5, <2>2, <2>4 DEF SleepApi
    <3>2. inv'[i].copy = inv[i].copy /\ inv'[i].inner = inv[i].inner /\ inv'[i].outer = inv[i].outer
          /\ inv'[i].at = "invalidate" /\ inv'[i].then \in {"setZero", "leaseAgain"}
      BY <2>2, <3>1 DEF InvocationTypes
    <3>3. api.desired = 1 \/ api.task = "running"
      BY <1>3, <2>4 DEF ApiStopped, ServiceStopped
    <3> QED
      BY <1>1, <1>3, <1>4, <2>1, <3>2, <3>3
  <2> QED
    BY <2>3, <2>4
<1>6. CASE StopApi(i)
  <2>1. /\ inv[i].at = "setZero" /\ api' = [api EXCEPT !.desired = 0]
        /\ UNCHANGED <<lease, url, load, metric, cache, snaps, ctl>>
        /\ inv'[i].copy = inv[i].copy /\ inv'[i].inner = inv[i].inner /\ inv'[i].outer = inv[i].outer
        /\ inv'[i].at = "leaseAgain"
    BY <1>6, <1>1, GoFields DEF StopApi, SetDesired
  <2>2. EngineInv'
    BY <1>1, <1>3, <1>4, <2>1
  <2>3. Current(i)' /\ LabelInv(i)'
    BY <1>1, <1>3, <1>4, <2>1, <2>2
  <2> QED
    BY <2>2, <2>3
<1>7. CASE LeaseAgain(i)
  <2>1. /\ inv[i].at = "leaseAgain" /\ UNCHANGED <<lease, url, api, load, metric, cache, snaps, ctl>>
        /\ inv'[i].copy = inv[i].copy /\ inv'[i].inner = inv[i].inner /\ inv'[i].outer = inv[i].outer
        /\ inv'[i].then = inv[i].then /\ inv'[i].name = inv[i].name /\ inv'[i].host = inv[i].host
    BY <1>7, <1>1, LookFields DEF LeaseAgain
  <2>2. inv'[i].at \in {"finish", "setOneAgain"}
    BY <1>7, <1>1, <1>3, LookFields DEF LeaseAgain
  <2>3. EngineInv'
    BY <1>1, <1>3, <1>4, <2>1, <2>2
  <2>4. Current(i)' /\ LabelInv(i)'
    BY <1>1, <1>3, <1>4, <2>1, <2>2, <2>3
  <2> QED
    BY <2>3, <2>4
<1>8. CASE StartApiAgain(i)
  <2>1. /\ inv[i].at = "setOneAgain" /\ api' = [api EXCEPT !.desired = 1]
        /\ UNCHANGED <<lease, url, load, metric, cache, snaps, ctl>>
        /\ inv'[i].copy = inv[i].copy /\ inv'[i].inner = inv[i].inner /\ inv'[i].outer = inv[i].outer
        /\ inv'[i].at = "finish"
    BY <1>8, <1>1, GoFields DEF StartApiAgain, SetDesired
  <2>2. EngineInv'
    BY <1>1, <1>3, <1>4, <2>1
  <2>3. Current(i)' /\ LabelInv(i)'
    BY <1>1, <1>3, <1>4, <2>1, <2>2
  <2> QED
    BY <2>2, <2>3
<1>9. CASE SleepTasks(i)
  <2> DEFINE ok == ~UnexpectedTasks(FALSE)
             to == IF Hibernation THEN "sleepCache" ELSE "enterSleeping"
  <2>1. /\ inv[i].at = "sleepTasks" /\ Judge(i, ok, to)
        /\ UNCHANGED <<lease, url, api, metric, cache, snaps, ctl>>
        /\ load' = [load EXCEPT !.task = IF load.task = "long" THEN "running" ELSE load.task]
    BY <1>9 DEF SleepTasks, GuardNoTask
  <2>2. ok => load.task = "none" /\ load.worker = "none" /\ api.task = "none"
    BY <1>3 DEF UnexpectedTasks, TaskPhases
  <2> HIDE DEF ok
  <2>3. /\ inv'[i].copy = inv[i].copy /\ inv'[i].inner = inv[i].inner /\ inv'[i].outer = inv[i].outer
        /\ inv'[i].name = inv[i].name
        /\ \/ ok /\ inv'[i].at = to /\ inv'[i].then = inv[i].then
           \/ inv'[i].at = "invalidate" /\ inv'[i].then = "finish"
    BY <1>1, <2>1, JudgeFields
  <2>4. EngineInv'
    BY <1>1, <1>3, <1>4, <2>1, <2>2, <2>3
  <2>5. Current(i)' /\ LabelInv(i)'
    BY <1>1, <1>3, <1>4, <2>1, <2>2, <2>3, <2>4
  <2> QED
    BY <2>4, <2>5
<1>10. CASE SleepCache(i)
  <2>1. /\ inv[i].at = "sleepCache" /\ UNCHANGED <<lease, url, api, load, metric, cache, snaps, ctl>>
        /\ inv'[i].copy = inv[i].copy /\ inv'[i].inner = inv[i].inner /\ inv'[i].outer = inv[i].outer
        /\ inv'[i].then = inv[i].then /\ inv'[i].name = inv[i].name /\ inv'[i].host = cache.endpoint
    BY <1>10, <1>1, DescribedFields DEF SleepCache
  <2>2. \/ inv'[i].at = "sleepSnapshot" /\ cache.status = "absent"
        \/ inv'[i].at = "checkSnapshot" /\ ctl.phase = "SNAPSHOTTING"
        \/ inv'[i].at = "readySnapshot" /\ ctl.phase = "SNAPSHOT_READY"
        \/ inv'[i].at \in {"finish", "noteDeleting"}
        \/ inv'[i].at = "quiesce" /\ cache.status = "available" /\ ctl.phase = "QUIESCING"
        \/ inv'[i].at = "requiesce" /\ cache.status = "available"
    BY <1>10, <1>1, <1>3, DescribedFields DEF SleepCache
  <2>3. EngineInv'
    BY <1>1, <1>3, <1>4, <2>1, <2>2
  <2>4. Current(i)' /\ LabelInv(i)'
    BY <1>1, <1>3, <1>4, <2>1, <2>2, <2>3
  <2> QED
    BY <2>3, <2>4
<1>11. CASE SleepSnapshot(i)
  <2>1. inv[i].at = "sleepSnapshot" /\ UNCHANGED <<lease, url, api, load, metric, cache, snaps, ctl>>
    BY <1>11 DEF SleepSnapshot, cloudVars
  <2>2. Available(ctl.name) /\ Copy(i).name = ctl.name /\ ctl.name # NoName
    BY <1>3, <2>1
  <2>3. inv'[i] = [inv[i] EXCEPT !.name = ctl.name, !.at =
           IF Copy(i).phase = "SLEEPING" THEN "finish" ELSE "enterSleeping"]
    BY <1>11, <1>1, <2>2 DEF SleepSnapshot, TypeInv, TypeOK, ControllerTypeOK
  <2>4. /\ inv'[i].at \in {"finish", "enterSleeping"} /\ inv'[i].name = ctl.name
        /\ inv'[i].copy = inv[i].copy /\ inv'[i].inner = inv[i].inner /\ inv'[i].outer = inv[i].outer
    BY <1>1, <2>3, FieldTypes DEF InvocationTypes
  <2>5. EngineInv'
    BY <1>1, <1>3, <1>4, <2>1, <2>2, <2>3, <2>4
  <2>6. Current(i)' /\ LabelInv(i)'
    BY <1>1, <1>3, <1>4, <2>1, <2>2, <2>3, <2>4, <2>5
  <2> QED
    BY <2>5, <2>6
<1>12. CASE EnterSleeping(i)
  <2> DEFINE item == Item("sleep", "SLEEPING", IF Hibernation THEN inv[i].name ELSE Copy(i).name, "none")
  <2>1. item \in Items
    BY <1>1, <1>3, FieldTypes DEF Item, Items, Phases
  <2>2. inv[i].at = "enterSleeping" /\ Transition(i, item, "finish", FALSE)
    BY <1>12 DEF EnterSleeping, Put
  <2> HIDE DEF item
  <2>3. ctl' = item /\ UNCHANGED <<lease, url, api, load, metric, cache, snaps>>
    BY <2>1, <2>2, TransitionSucceeds DEF Blind
  <2>4. /\ inv'[i].at = "finish" /\ inv'[i].copy = item /\ inv'[i].inner /\ inv'[i].outer = FALSE
        /\ inv'[i].then = inv[i].then /\ inv'[i].name = inv[i].name /\ inv'[i].host = inv[i].host
    BY <2>1, <2>2, TransitionSucceeds DEF Blind
  <2> QED
    BY <1>1, <1>3, <1>4, <2>2, <2>3, <2>4 DEF item, Item, Items
<1>13. CASE CheckSnapshot(i)
  <2>1. /\ inv[i].at = "checkSnapshot" /\ UNCHANGED <<lease, url, api, load, metric, cache, snaps, ctl>>
        /\ inv'[i].copy = inv[i].copy /\ inv'[i].inner = inv[i].inner /\ inv'[i].outer = inv[i].outer
        /\ inv'[i].then = inv[i].then /\ inv'[i].name = inv[i].name /\ inv'[i].host = inv[i].host
    BY <1>13, <1>1, LookFields DEF CheckSnapshot
  <2>2. inv'[i].at \in {"failed", "enterReady", "finish"}
    BY <1>13, <1>1, <1>3, LookFields DEF CheckSnapshot
  <2>3. EngineInv'
    BY <1>1, <1>3, <1>4, <2>1, <2>2
  <2>4. Current(i)' /\ LabelInv(i)'
    BY <1>1, <1>3, <1>4, <2>1, <2>2, <2>3
  <2> QED
    BY <2>3, <2>4
<1>14. CASE EnterReady(i)
  <2> DEFINE item == Item(Copy(i).desired, "SNAPSHOT_READY", Copy(i).name, Copy(i).proof)
  <2>1. item \in Items
    BY <1>1, <1>3, FieldTypes DEF Item, Items, Phases
  <2>2. inv[i].at = "enterReady" /\ Transition(i, item, "finish", FALSE)
    BY <1>14 DEF EnterReady, Put
  <2> HIDE DEF item
  <2>3. ctl' = item /\ UNCHANGED <<lease, url, api, load, metric, cache, snaps>>
    BY <2>1, <2>2, TransitionSucceeds DEF Blind
  <2>4. /\ inv'[i].at = "finish" /\ inv'[i].copy = item /\ inv'[i].inner /\ inv'[i].outer = FALSE
        /\ inv'[i].then = inv[i].then /\ inv'[i].name = inv[i].name /\ inv'[i].host = inv[i].host
    BY <2>1, <2>2, TransitionSucceeds DEF Blind
  <2> QED
    BY <1>1, <1>3, <1>4, <2>2, <2>3, <2>4 DEF item, Item, Items
<1>15. CASE ReadySnapshot(i)
  <2>1. inv[i].at = "readySnapshot" /\ UNCHANGED <<lease, url, api, load, metric, cache, snaps, ctl>>
    BY <1>15 DEF ReadySnapshot, Guarded, Look, cloudVars
  <2>2. inv[i] \in InvocationTypes /\ inv \in [Invocations -> InvocationTypes]
    BY <1>1 DEF TypeInv, TypeOK, ControllerTypeOK
  <2>3. CASE Available(Copy(i).name)
    <3>1. inv'[i] = [inv[i] EXCEPT !.at = "guardLease", !.then = "deleteApi"]
      BY <1>15, <2>2, <2>3 DEF ReadySnapshot, Guarded
    <3>2. inv'[i].copy = inv[i].copy /\ inv'[i].inner = inv[i].inner /\ inv'[i].outer = inv[i].outer
          /\ inv'[i].at = "guardLease" /\ inv'[i].then = "deleteApi"
      BY <2>2, <3>1 DEF InvocationTypes
    <3> QED
      BY <1>1, <1>3, <1>4, <2>1, <2>3, <3>2
  <2>4. CASE ~Available(Copy(i).name)
    <3>1. inv'[i].copy = inv[i].copy /\ inv'[i].inner = inv[i].inner /\ inv'[i].outer = inv[i].outer
          /\ inv'[i].at = "failed"
      BY <1>15, <1>1, <2>4, LookFields DEF ReadySnapshot
    <3> QED
      BY <1>1, <1>3, <1>4, <2>1, <3>1
  <2> QED
    BY <2>3, <2>4
<1>16. CASE DeleteApi(i)
  <2> DEFINE ok == ApiStopped
  <2>1. inv[i].at = "deleteApi" /\ Judge(i, ok, "deleteGroupUp") /\ UNCHANGED <<lease, url, api, load, metric, cache, snaps, ctl>>
    BY <1>16 DEF DeleteApi, Guard, cloudVars
  <2> HIDE DEF ok
  <2>2. /\ inv'[i].copy = inv[i].copy /\ inv'[i].inner = inv[i].inner /\ inv'[i].outer = inv[i].outer
        /\ inv'[i].name = inv[i].name
        /\ \/ ok /\ inv'[i].at = "deleteGroupUp" /\ inv'[i].then = inv[i].then
           \/ inv'[i].at = "invalidate" /\ inv'[i].then = "finish"
    BY <1>1, <2>1, JudgeFields
  <2>3. ok => TRUE
    BY <1>3, <2>1 DEF ok
  <2>4. EngineInv'
    BY <1>1, <1>3, <1>4, <2>1, <2>2, <2>3
  <2>5. Current(i)' /\ LabelInv(i)'
    BY <1>1, <1>3, <1>4, <2>1, <2>2, <2>3, <2>4
  <2> QED
    BY <2>4, <2>5
<1>17. CASE DeleteGroupUp(i)
  <2>1. /\ inv[i].at = "deleteGroupUp" /\ UNCHANGED <<lease, url, api, load, metric, cache, snaps, ctl>>
        /\ inv'[i].copy = inv[i].copy /\ inv'[i].inner = inv[i].inner /\ inv'[i].outer = inv[i].outer
        /\ inv'[i].then = inv[i].then /\ inv'[i].name = inv[i].name /\ inv'[i].host = inv[i].host
    BY <1>17, <1>1, LookFields DEF DeleteGroupUp
  <2>2. inv'[i].at \in {"finish", "enterDeleting"}
    BY <1>17, <1>1, <1>3, LookFields DEF DeleteGroupUp
  <2>3. EngineInv'
    BY <1>1, <1>3, <1>4, <2>1, <2>2
  <2>4. Current(i)' /\ LabelInv(i)'
    BY <1>1, <1>3, <1>4, <2>1, <2>2, <2>3
  <2> QED
    BY <2>3, <2>4
<1>18. CASE EnterDeleting(i)
  <2> DEFINE item == Item(Copy(i).desired, "DELETING", Copy(i).name, Copy(i).proof)
  <2>1. item \in Items
    BY <1>1, <1>3, FieldTypes DEF Item, Items, Phases
  <2>2. inv[i].at = "enterDeleting" /\ Transition(i, item, "deleteGroup", FALSE)
    BY <1>18 DEF EnterDeleting, Put
  <2> HIDE DEF item
  <2>3. ctl' = item /\ UNCHANGED <<lease, url, api, load, metric, cache, snaps>>
    BY <2>1, <2>2, TransitionSucceeds DEF Blind
  <2>4. /\ inv'[i].at = "deleteGroup" /\ inv'[i].copy = item /\ inv'[i].inner /\ inv'[i].outer = FALSE
        /\ inv'[i].then = inv[i].then /\ inv'[i].name = inv[i].name /\ inv'[i].host = inv[i].host
    BY <2>1, <2>2, TransitionSucceeds DEF Blind
  <2> QED
    BY <1>1, <1>3, <1>4, <2>2, <2>3, <2>4 DEF item, Item, Items
<1>19. CASE DeleteReplicationGroup(i)
  <2>1. /\ inv[i].at = "deleteGroup" /\ UNCHANGED <<lease, url, api, load, metric, snaps, ctl>>
        /\ inv'[i].copy = inv[i].copy /\ inv'[i].inner = inv[i].inner /\ inv'[i].outer = inv[i].outer
        /\ inv'[i].at \in {"answered", "failedMutation"}
    BY <1>19, <1>1, GoFields DEF DeleteReplicationGroup
  <2>2. UNCHANGED cache \/ cache' = [cache EXCEPT !.status = "deleting"]
    BY <1>19 DEF DeleteReplicationGroup
  <2>3. EngineInv'
    BY <1>1, <1>3, <1>4, <2>1, <2>2
  <2>4. Current(i)' /\ LabelInv(i)'
    BY <1>1, <1>3, <1>4, <2>1, <2>2, <2>3
  <2> QED
    BY <2>3, <2>4
<1>20. CASE NoteDeleting(i)
  <2> DEFINE item == Item(Copy(i).desired, "DELETING", Copy(i).name, Copy(i).proof)
  <2>1. item \in Items
    BY <1>1, <1>3, FieldTypes DEF Item, Items, Phases
  <2>2. inv[i].at = "noteDeleting" /\ Transition(i, item, "finish", FALSE)
    BY <1>20 DEF NoteDeleting, Put
  <2> HIDE DEF item
  <2>3. ctl' = item /\ UNCHANGED <<lease, url, api, load, metric, cache, snaps>>
    BY <2>1, <2>2, TransitionSucceeds DEF Blind
  <2>4. /\ inv'[i].at = "finish" /\ inv'[i].copy = item /\ inv'[i].inner /\ inv'[i].outer = FALSE
        /\ inv'[i].then = inv[i].then /\ inv'[i].name = inv[i].name /\ inv'[i].host = inv[i].host
    BY <2>1, <2>2, TransitionSucceeds DEF Blind
  <2> QED
    BY <1>1, <1>3, <1>4, <2>2, <2>3, <2>4 DEF item, Item, Items
<1>21. CASE Requiesce(i)
  <2> DEFINE item == Item(Copy(i).desired, "QUIESCING", NoName, IF Copy(i).phase = "DELETING" THEN Copy(i).proof ELSE "none")
  <2>1. item \in Items
    BY <1>1, <1>3, FieldTypes DEF Item, Items, Phases
  <2>2. inv[i].at = "requiesce" /\ Transition(i, item, "quiesce", FALSE)
    BY <1>21 DEF Requiesce, Put
  <2> HIDE DEF item
  <2>3. ctl' = item /\ UNCHANGED <<lease, url, api, load, metric, cache, snaps>>
    BY <2>1, <2>2, TransitionSucceeds DEF Blind
  <2>4. /\ inv'[i].at = "quiesce" /\ inv'[i].copy = item /\ inv'[i].inner /\ inv'[i].outer = FALSE
        /\ inv'[i].then = inv[i].then /\ inv'[i].name = inv[i].name /\ inv'[i].host = inv[i].host
    BY <2>1, <2>2, TransitionSucceeds DEF Blind
  <2> QED
    BY <1>1, <1>3, <1>4, <2>2, <2>3, <2>4 DEF item, Item, Items
<1>22. CASE Quiesce(i)
  <2> DEFINE item == [Copy(i) EXCEPT !.proof = "young"]
  <2>1. inv[i].at = "quiesce" /\ Copy(i) = ctl /\ item \in Items
    BY <1>22, <1>3 DEF Quiesce, Items
  <2>2. CASE Transition(i, item, "finish", FALSE)
    <3> HIDE DEF item
    <3>1. ctl' = item /\ UNCHANGED <<lease, url, api, load, metric, cache, snaps>>
      BY <2>1, <2>2, TransitionSucceeds DEF Blind
    <3>2. inv'[i].at = "finish" /\ inv'[i].copy = item /\ inv'[i].inner
      BY <2>1, <2>2, TransitionSucceeds DEF Blind
    <3> QED
      BY <1>1, <1>3, <1>4, <2>1, <3>1, <3>2 DEF item, Items
  <2>3. CASE Look(i, "finish")
    <3>1. UNCHANGED <<lease, url, api, load, metric, cache, snaps, ctl>> /\ inv'[i].at = "finish"
          /\ inv'[i].copy = inv[i].copy /\ inv'[i].inner = inv[i].inner
      BY <1>1, <2>3, LookFields
    <3> QED
      BY <1>1, <1>3, <1>4, <2>1, <3>1
  <2>4. CASE Guarded(i, "snapshotApi")
    <3>1. /\ inv'[i] = [inv[i] EXCEPT !.at = "guardLease", !.then = "snapshotApi"]
          /\ UNCHANGED <<lease, url, api, load, metric, cache, snaps, ctl>>
      BY <1>1, <2>4 DEF Guarded, cloudVars, TypeInv, TypeOK, ControllerTypeOK
    <3>2. /\ inv'[i].copy = inv[i].copy /\ inv'[i].inner = inv[i].inner /\ inv'[i].outer = inv[i].outer
          /\ inv'[i].at = "guardLease" /\ inv'[i].then = "snapshotApi"
      BY <1>1, <3>1, FieldTypes DEF InvocationTypes
    <3> QED
      BY <1>1, <1>3, <1>4, <2>1, <3>1, <3>2
  <2>5. Copy(i).proof \in {"none", "young", "old"}
    BY <1>3, <2>1 DEF Items
  <2> QED
    BY <1>22, <2>2, <2>3, <2>4, <2>5 DEF Quiesce
<1>23. CASE SnapshotApi(i)
  <2> DEFINE ok == ApiStopped
  <2>1. inv[i].at = "snapshotApi" /\ Judge(i, ok, "enterSnapshotting") /\ UNCHANGED <<lease, url, api, load, metric, cache, snaps, ctl>>
    BY <1>23 DEF SnapshotApi, Guard, cloudVars
  <2> HIDE DEF ok
  <2>2. /\ inv'[i].copy = inv[i].copy /\ inv'[i].inner = inv[i].inner /\ inv'[i].outer = inv[i].outer
        /\ inv'[i].name = inv[i].name
        /\ \/ ok /\ inv'[i].at = "enterSnapshotting" /\ inv'[i].then = inv[i].then
           \/ inv'[i].at = "invalidate" /\ inv'[i].then = "finish"
    BY <1>1, <2>1, JudgeFields
  <2>3. ok => TRUE
    BY <1>3, <2>1 DEF ok
  <2>4. EngineInv'
    BY <1>1, <1>3, <1>4, <2>1, <2>2, <2>3
  <2>5. Current(i)' /\ LabelInv(i)'
    BY <1>1, <1>3, <1>4, <2>1, <2>2, <2>3, <2>4
  <2> QED
    BY <2>4, <2>5
<1>24. CASE EnterSnapshotting(i)
  <2> DEFINE new  == CHOOSE n \in FreeNames : TRUE
             item == Item("sleep", "SNAPSHOTTING", new, Copy(i).proof)
  <2>1. inv[i].at = "enterSnapshotting" /\ Copy(i) = ctl
    BY <1>24, <1>3 DEF EnterSnapshotting, Put
  <2>2. CASE FreeNames = {}
    <3>1. UNCHANGED <<lease, url, api, load, metric, cache, snaps, ctl>> /\ inv'[i].at = "finish"
          /\ inv'[i].copy = inv[i].copy /\ inv'[i].inner = inv[i].inner
      BY <1>24, <1>1, <2>2, LookFields DEF EnterSnapshotting
    <3> QED
      BY <1>1, <1>3, <1>4, <2>1, <3>1
  <2>3. CASE FreeNames # {}
    <3>1. new \in Names /\ snaps.status[new] = "absent" /\ new # NoName
      BY <2>3 DEF FreeNames, Names, NoName
    <3>2. Transition(i, item, "createSnapshot", FALSE)
      BY <1>24, <2>3 DEF EnterSnapshotting, Put
    <3> HIDE DEF new
    <3>3. item \in Items
      BY <1>3, <2>1, <3>1 DEF Item, Items, Phases
    <3> HIDE DEF item
    <3>4. ctl' = item /\ UNCHANGED <<lease, url, api, load, metric, cache, snaps>>
      BY <2>1, <3>2, <3>3, TransitionSucceeds DEF Blind
    <3>5. inv'[i].at = "createSnapshot" /\ inv'[i].copy = item /\ inv'[i].inner
      BY <2>1, <3>2, <3>3, TransitionSucceeds DEF Blind
    <3> QED
      BY <1>1, <1>3, <1>4, <2>1, <3>1, <3>4, <3>5 DEF item, Item
  <2> QED
    BY <2>2, <2>3
<1>25. CASE CreateSnapshot(i)
  <2>1. /\ inv[i].at = "createSnapshot" /\ UNCHANGED <<lease, url, api, load, metric, ctl>>
        /\ inv'[i].copy = inv[i].copy /\ inv'[i].inner = inv[i].inner /\ inv'[i].outer = inv[i].outer
        /\ inv'[i].at \in {"answered", "failedMutation"}
    BY <1>25, <1>1, GoFields DEF CreateSnapshot
  <2>2. Copy(i).name = ctl.name /\ ctl.name \in Names /\ cache.full
    BY <1>3, <2>1
  <2>3. \/ UNCHANGED <<cache, snaps>>
        \/ /\ cache.status = "available" /\ cache' = [cache EXCEPT !.status = "snapshotting"]
           /\ snaps'.status = [snaps.status EXCEPT ![ctl.name] = "creating"]
           /\ snaps'.full = snaps.full \cup {ctl.name}
    BY <1>25, <2>2 DEF CreateSnapshot
  <2>4. EngineInv'
    BY <1>1, <1>3, <1>4, <2>1, <2>2, <2>3
  <2>5. Current(i)' /\ LabelInv(i)'
    BY <1>1, <1>3, <1>4, <2>1, <2>2, <2>3, <2>4
  <2> QED
    BY <2>4, <2>5
<1> QED
  BY <1>5, <1>6, <1>7, <1>8, <1>9, <1>10, <1>11, <1>12, <1>13, <1>14, <1>15, <1>16, <1>17, <1>18, <1>19, <1>20, <1>21, <1>22, <1>23, <1>24, <1>25 DEF ProgressSleep

LEMMA EndKeeps ==
  ASSUME SleepInv, OneInvocation, TasksAreSeen, NEW i \in Invocations,
         Return(i) \/ CallFails(i) \/ MarkError(i) \/ TimeOut(i)
  PROVE  SleepInv'
<1>1. TypeInv' /\ TypeInv
  BY EndTypes DEF SleepInv
<1>2. SUFFICES EngineInv' /\ Current(i)' /\ LabelInv(i)'
  BY <1>1, Alone
<1>3. EngineInv /\ Current(i) /\ LabelInv(i) /\ CloudTypeOK /\ ctl \in Items
  BY Reading
<1>4. (Interrupted <=> InterruptedAt(i)) /\ (Interrupted' <=> InterruptedAt(i)')
  BY <1>1, Alone
<1> USE WindowAssumption DEF CloudTypeOK, Ages, Connected, Gone, Up, Available, Quiet, Silent, EngineOff, At, Copy
<1> USE DEF EngineInv, AwayUnused, Served, NothingLost, Restorable, SnapshotKept, AlwaysOn,
      TasksVisible, InterruptedAt
<1> USE DEF Current, Blind, LabelInv, AwakeAt, RestoreAt, CheckAt, OffAt, GuardAt, AbsentAt, DeletionAt,
      SnapshotAt, OuterAt, AsleepAt, Guarding, CacheGuards, Deletion, Snapping, AfterTasks, SnapPhases
<1>5. CASE Return(i)
  <2>1. inv[i].at \in {"answered", "finish"} /\ inv'[i].at = "idle"
        /\ UNCHANGED <<lease, url, api, load, metric, cache, snaps, ctl>>
    BY <1>1, <1>5, IdleType DEF Return, cloudVars, TypeInv, TypeOK, ControllerTypeOK
  <2> QED
    BY <1>1, <1>3, <1>4, <2>1
<1>6. CASE CallFails(i)
  <2> DEFINE to == IF inv[i].at \in Mutations THEN "failedMutation"
                   ELSE IF inv[i].at \in Unread THEN "failedUnread" ELSE "failed"
  <2>1. /\ inv[i].at \notin Endings /\ Go(i, to)
        /\ UNCHANGED <<lease, url, api, load, metric, cache, snaps, ctl>>
    BY <1>6 DEF CallFails, cloudVars
  <2>2. /\ inv'[i].at = to
        /\ inv'[i].copy = inv[i].copy /\ inv'[i].inner = inv[i].inner /\ inv'[i].outer = inv[i].outer
    BY <1>1, <2>1, GoFields
  <2>3. \/ inv[i].at \notin Blind /\ inv'[i].at \in {"failed", "failedMutation"}
        \/ inv'[i].at = "failedUnread"
    BY <2>1, <2>2 DEF Mutations, Unread, Endings
  <2>4. inv[i].at = "invalidate" => inv'[i].at = "failed"
    BY <2>2 DEF Mutations, Unread
  <2> HIDE DEF to
  <2>5. EngineInv'
    BY <1>1, <1>3, <1>4, <2>1, <2>2, <2>3, <2>4 DEF Endings
  <2>6. Current(i)' /\ LabelInv(i)'
    BY <1>1, <1>3, <2>1, <2>2, <2>3
  <2> QED
    BY <2>5, <2>6
<1>7. CASE MarkError(i)
  <2>1. /\ inv[i].at \in {"failed", "failedMutation", "failedUnread"} /\ inv'[i].at = "idle"
        /\ UNCHANGED <<lease, url, api, load, metric, cache, snaps>>
    BY <1>1, <1>7, IdleType DEF MarkError, Written, cloudVars, TypeInv, TypeOK, ControllerTypeOK
  <2>2. \/ UNCHANGED ctl /\ (inv[i].at = "failed" => ~inv[i].outer)
        \/ ctl' = Item(ctl.desired, "ERROR", ctl.name, "none")
    BY <1>3, <1>7 DEF MarkError
  <2>3. CASE UNCHANGED ctl /\ (inv[i].at = "failed" => ~inv[i].outer)
    BY <1>1, <1>3, <1>4, <2>1, <2>3
  <2>4. CASE ctl' = Item(ctl.desired, "ERROR", ctl.name, "none")
    BY <1>1, <1>3, <1>4, <2>1, <2>4 DEF Item
  <2> QED
    BY <2>2, <2>3, <2>4
<1>8. CASE TimeOut(i)
  <2>1. "longTask" \notin Faults /\ inv'[i].at = "idle"
        /\ UNCHANGED <<lease, url, api, load, metric, cache, snaps, ctl>>
    BY <1>1, <1>8, IdleType DEF TimeOut, TasksAreSeen, cloudVars, TypeInv, TypeOK, ControllerTypeOK
  <2> QED
    BY <1>1, <1>3, <1>4, <2>1
<1> QED
  BY <1>5, <1>6, <1>7, <1>8

LEMMA InvocationKeeps ==
  ASSUME SleepInv, OneInvocation, TasksAreSeen, NEW i \in Invocations, InvocationStep(i)
  PROVE  SleepInv'
  BY WakeKeeps, CheckKeeps, AwakeKeeps, ActivityKeeps, ProgressKeeps, EndKeeps
  DEF InvocationStep, Continue, HandleWake, HandleIdleCheck

LEMMA NextKeeps ==
  ASSUME SleepInv, OneInvocation, TasksAreSeen, [Next]_vars
  PROVE  SleepInv'
<1>1. CASE CloudStep
  BY <1>1, CloudStepKeeps
<1>2. CASE \E i \in Invocations : InvocationStep(i)
  BY <1>2, InvocationKeeps
<1>3. CASE LeaseExpires \/ ProofRipens \/ TaskLaunched \/ UNCHANGED vars
  <2>1. TypeInv' /\ TypeInv
    BY NextTypes DEF SleepInv
  <2>2. SUFFICES ASSUME NEW i \in Invocations
                 PROVE  EngineInv' /\ Current(i)' /\ LabelInv(i)'
    BY <2>1, Alone, InvocationsAssumption
  <2>3. EngineInv /\ Current(i) /\ LabelInv(i) /\ CloudTypeOK /\ ctl \in Items
    BY Reading
  <2>4. (Interrupted <=> InterruptedAt(i)) /\ (Interrupted' <=> InterruptedAt(i)')
    BY <2>1, Alone
  <2> USE DEF CloudTypeOK, Connected, Gone, Up, Available, Quiet, Silent, EngineOff, At, Copy
  <2> USE DEF EngineInv, AwayUnused, Served, NothingLost, Restorable, SnapshotKept, AlwaysOn,
        TasksVisible, InterruptedAt
  <2> USE DEF Current, Blind, LabelInv, AwakeAt, RestoreAt, CheckAt, OffAt, GuardAt, AbsentAt, DeletionAt,
        SnapshotAt, OuterAt, AsleepAt, Guarding, CacheGuards, Deletion, Snapping, AfterTasks, SnapPhases
  <2>5. CASE LeaseExpires
    BY <2>1, <2>3, <2>4, <2>5 DEF LeaseExpires, controllerVars
  <2>6. CASE ProofRipens
    <3>1. /\ UNCHANGED <<lease, url, api, load, metric, cache, snaps>> /\ ctl' = Ripe(ctl)
          /\ inv'[i] = [inv[i] EXCEPT !.copy = Ripe(inv[i].copy)] /\ inv[i] \in InvocationTypes
      BY <2>1, <2>6 DEF ProofRipens, cloudVars, TypeInv, TypeOK, ControllerTypeOK
    <3>2. /\ ctl'.desired = ctl.desired /\ ctl'.phase = ctl.phase /\ ctl'.name = ctl.name
          /\ ctl'.exists = ctl.exists
      BY <2>3, <3>1 DEF Ripe, Items
    <3>3. /\ inv'[i].at = inv[i].at /\ inv'[i].then = inv[i].then /\ inv'[i].inner = inv[i].inner
          /\ inv'[i].outer = inv[i].outer /\ inv'[i].name = inv[i].name /\ inv'[i].host = inv[i].host
          /\ inv'[i].copy = Ripe(inv[i].copy)
      BY <3>1 DEF InvocationTypes
    <3>4. Current(i)'
      BY <2>3, <3>1, <3>3
    <3>5. EngineInv'
      BY <2>3, <2>4, <3>1, <3>2, <3>3
    <3>6. LabelInv(i)'
      BY <2>3, <3>1, <3>2, <3>3
    <3> QED
      BY <3>4, <3>5, <3>6
  <2>7. CASE TaskLaunched
    <3>1. /\ inv[i].at = "idle" /\ Up /\ load.task = "none"
          /\ UNCHANGED <<lease, url, api, metric, cache, snaps, ctl, inv>>
          /\ "longTask" \in Faults /\ load' = [load EXCEPT !.task = "long"]
      BY <2>7 DEF TaskLaunched, Lives, TasksAreSeen, controllerVars
    <3> QED
      BY <2>1, <2>3, <2>4, <3>1
  <2>8. CASE UNCHANGED vars
    BY <2>1, <2>3, <2>4, <2>8 DEF vars, cloudVars, controllerVars
  <2> QED
    BY <1>3, <2>5, <2>6, <2>7, <2>8
<1> QED
  BY <1>1, <1>2, <1>3 DEF Next

LEMMA InitKeeps == Init => SleepInv
<1> SUFFICES ASSUME Init PROVE SleepInv
  OBVIOUS
<1>1. \A i \in Invocations : inv[i].at = "idle" /\ inv[i].then = "idle"
  BY IdleType DEF Init, ControllerInit
<1>2. \A i \in Invocations : Current(i) /\ LabelInv(i)
  BY <1>1 DEF Current, Blind, LabelInv, AwakeAt, RestoreAt, CheckAt, OffAt, GuardAt, AbsentAt,
     DeletionAt, SnapshotAt, OuterAt, AsleepAt, Guarding, CacheGuards, Deletion, Snapping, AfterTasks
<1>3. EngineInv
  BY DEF Init, CloudInit, ControllerInit, NoItem, EngineInv, AwayUnused, Served, NothingLost,
     Restorable, SnapshotKept, AlwaysOn, TasksVisible, Connected, Gone, Up, SnapPhases
<1> QED
  BY <1>2, <1>3, InitTypes DEF SleepInv

LEMMA SleepInvHolds ==
  ASSUME OneInvocation, TasksAreSeen
  PROVE  Spec => []SleepInv
<1>1. SleepInv /\ [Next]_vars => SleepInv'
  BY NextKeeps
<1> QED
  BY <1>1, InitKeeps, PTL DEF Spec

\* As long as there is a cache, it holds every write clients, workers and runners
\* ever made, over any number of sleeps, wakes, errors and restores.
THEOREM SleepLosesNothing ==
  ASSUME OneInvocation, TasksAreSeen
  PROVE  Spec => []NothingLost
<1>1. SleepInv => NothingLost
  BY DEF SleepInv, EngineInv
<1> QED
  BY <1>1, SleepInvHolds, PTL

\* While the cache is deleted or absent, the snapshot the controller item names is
\* available and holds every write.
THEOREM RestorePointExists ==
  ASSUME OneInvocation, TasksAreSeen
  PROVE  Spec => []RestorePointKept
<1>1. SleepInv => RestorePointKept
  BY DEF SleepInv, EngineInv, Restorable, RestorePointKept
<1> QED
  BY <1>1, SleepInvHolds, PTL

\* The cache is deleted, and stays away, only while the API, the worker and every
\* standalone task have exited.
THEOREM CacheNotMissed ==
  ASSUME OneInvocation, TasksAreSeen
  PROVE  Spec => []GoneOnlyWhenUnused
<1>1. SleepInv => GoneOnlyWhenUnused
  BY DEF SleepInv, EngineInv, AwayUnused, Silent, Quiet, EngineOff, GoneOnlyWhenUnused, Gone, Up
<1> QED
  BY <1>1, SleepInvHolds, PTL

\* A running API was started with the address of the cache that exists, also after
\* the cache came back under another one.
THEOREM ApiFindsItsCache ==
  ASSUME OneInvocation, TasksAreSeen
  PROVE  Spec => []ApiHasItsCache
<1>1. SleepInv => ApiHasItsCache
  BY DEF SleepInv, EngineInv, Served, Connected, ApiHasItsCache
<1> QED
  BY <1>1, SleepInvHolds, PTL

(***************************************************************************)
(* The one call that deletes the cache.                                    *)
(***************************************************************************)
LEMMA OnlyDeleteDeletes ==
  ASSUME TypeInv, [Next]_vars, cache'.status = "deleting", cache.status # "deleting"
  PROVE  \E i \in Invocations : DeleteReplicationGroup(i)
<1>1. cache # cache'
  OBVIOUS
<1>2. ~CloudStep
  BY <1>1 DEF CloudStep, LoadStep, ResourceStep, Submit, PublishMetric, WorkerScalesOut, WorkerConsumes,
     WorkerScalesIn, WorkerExits, TaskFinishes, ApiStarts, ApiStops, GroupCreated, GroupDeleted,
     SnapshotEnds, Maintenance, TypeInv, TypeOK, CloudTypeOK
<1>3. PICK i \in Invocations : InvocationStep(i)
  BY <1>1, <1>2 DEF Next, LeaseExpires, ProofRipens, TaskLaunched, vars, cloudVars
<1> USE DEF cloudVars, Look, Transition, Put, Described, SetDesired, Guard, GuardNoTask, Guarded
<1>4. ~HandleWake(i) /\ ~HandleIdleCheck(i)
  BY <1>1 DEF HandleWake, StartWake, WriteLastWake, ReadStateForWake, ClaimWake, HandleIdleCheck,
     StartIdleCheck, ReadLastWake, ReadStateForSleep, Reclaim, SleepingGroup, SleepingSnapshot, BeginSleep
<1>5. ~ReconcileAwake(i)
  <2>1. ~CreateReplicationGroup(i)
    BY <1>1 DEF CreateReplicationGroup, TypeInv, TypeOK, CloudTypeOK
  <2> QED
    BY <1>1, <2>1 DEF ReconcileAwake, AwakeGroup, NoteBusy, CheckUrl, PublishCacheEndpoint, EnterStarting, AwakeApi,
       StartApi, EnterActive, PruneSnapshots, RestorePoint, EnterRestoring
<1>6. ~ActivityGuard(i)
  BY <1>1 DEF ActivityGuard, GuardLease, GuardWorker, GuardMetric, GuardTasks, Invalidate
<1>7. ~Return(i) /\ ~CallFails(i) /\ ~MarkError(i) /\ ~TimeOut(i)
  BY <1>1 DEF Return, CallFails, MarkError, TimeOut
<1>8. ProgressSleep(i)
  BY <1>3, <1>4, <1>5, <1>6, <1>7 DEF InvocationStep, Continue, HandleWake, HandleIdleCheck
<1>9. ~CreateSnapshot(i)
  BY <1>1 DEF CreateSnapshot, TypeInv, TypeOK, CloudTypeOK
<1>10. ~EnterSnapshotting(i) /\ ~Quiesce(i)
  <2>1. ASSUME EnterSnapshotting(i) PROVE UNCHANGED cloudVars
    BY <2>1 DEF EnterSnapshotting
  <2>2. ASSUME Quiesce(i) PROVE UNCHANGED cloudVars
    <3>1. Copy(i).proof \in {"none", "young", "old"}
      BY FieldTypes, ItemFields
    <3> QED
      BY <2>2, <3>1 DEF Quiesce
  <2> QED
    BY <1>1, <2>1, <2>2
<1> QED
  BY <1>1, <1>8, <1>9, <1>10 DEF ProgressSleep, SleepApi, StopApi, LeaseAgain, StartApiAgain, SleepTasks,
     SleepCache, SleepSnapshot, EnterSleeping, CheckSnapshot, EnterReady, ReadySnapshot, DeleteApi,
     DeleteGroupUp, EnterDeleting, NoteDeleting, Requiesce, SnapshotApi

\* The cache is deleted only when the controller's last word is to sleep, its item
\* authorises the deletion and no wake renewed the lease.
THEOREM SleepDeletes ==
  ASSUME OneInvocation, TasksAreSeen
  PROVE  Spec => DeletesOnlyAsleep
<1>1. SleepInv /\ [Next]_vars
        => [cache'.status = "deleting" /\ cache.status # "deleting"
              => ctl.desired = "sleep" /\ ctl.phase = "DELETING" /\ lease = "stale"]_vars
  <2> SUFFICES ASSUME SleepInv, [Next]_vars, cache'.status = "deleting", cache.status # "deleting"
               PROVE  ctl.desired = "sleep" /\ ctl.phase = "DELETING" /\ lease = "stale"
    OBVIOUS
  <2>1. PICK i \in Invocations : DeleteReplicationGroup(i)
    BY OnlyDeleteDeletes DEF SleepInv
  <2>2. inv[i].at = "deleteGroup" /\ LabelInv(i)
    BY <2>1 DEF DeleteReplicationGroup, At, SleepInv
  <2> QED
    BY <2>2 DEF LabelInv, DeletionAt, AsleepAt
<1> QED
  BY <1>1, SleepInvHolds, PTL DEF Spec, DeletesOnlyAsleep
=============================================================================
