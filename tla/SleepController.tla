--------------------------- MODULE SleepController ---------------------------
(***************************************************************************)
(* The wake and sleep Lambda.  An invocation is a sequence of AWS calls;   *)
(* each call is a step and the cloud moves on in between.  The controller  *)
(* item in DynamoDB is the only state that outlives an invocation.         *)
(*                                                                         *)
(* The item's revision is abstracted: an invocation's copy is current as   *)
(* long as nobody else wrote the item since.  The handler and the helper   *)
(* it calls each have a copy, and the helper's writes leave the handler's  *)
(* copy behind: inner and outer say which of the two are current.          *)
(***************************************************************************)
EXTENDS CacheCloud

CONSTANTS
  Invocations,   \* as many as the Lambda's reserved concurrency
  Hibernation,   \* CACHE_HIBERNATION_ENABLED
  Retention,     \* CACHE_SNAPSHOT_RETENTION
  MaxErrors      \* bound: AWS calls that fail in a behaviour

ASSUME InvocationsAssumption == Invocations # {}
ASSUME HibernationAssumption == Hibernation \in BOOLEAN
ASSUME RetentionAssumption   == Retention \in Nat \ {0}
ASSUME ErrorsAssumption      == MaxErrors \in Nat

VARIABLES
  ctl,     \* the controller item
  inv,     \* the invocations
  errors   \* calls that failed so far

controllerVars == <<ctl, inv, errors>>

Phases == {"ACTIVE", "QUIESCING", "SNAPSHOTTING", "SNAPSHOT_READY", "DELETING",
           "SLEEPING", "RESTORING", "API_STARTING", "ERROR"}

\* proof is the quiescence timestamp: at least CACHE_QUIESCENCE_SECONDS old or not.
Items == [exists : BOOLEAN, desired : {"awake", "sleep"}, phase : Phases,
          name : Names \cup {NoName}, proof : {"none", "young", "old"}]

\* What _read_state returns when there is no item yet.
NoItem == [exists |-> FALSE, desired |-> "awake", phase |-> "ACTIVE",
           name |-> NoName, proof |-> "none"]

Endings == {"idle", "failed", "failedMutation", "failedUnread"}
WakeLabels  == {"putLease", "wakeRead", "claimWake"}
AwakeLabels == {"awakeGroup", "noteBusy", "checkUrl", "publish", "enterStarting", "awakeApi",
                "setOne", "enterActive", "prune", "restorePoint",
                "enterRestoring", "createGroup"}
GuardLabels == {"guardLease", "guardWorker", "guardMetric", "guardTasks", "invalidate"}
SleepLabels == {"readLease", "sleepRead", "reclaim", "sleepingGroup", "sleepingSnapshot",
                "beginSleep", "sleepApi", "setZero", "leaseAgain", "setOneAgain",
                "sleepTasks", "sleepCache", "sleepSnapshot", "enterSleeping",
                "checkSnapshot", "enterReady", "readySnapshot", "deleteApi", "deleteGroupUp",
                "enterDeleting", "deleteGroup", "noteDeleting", "requiesce", "quiesce",
                "snapshotApi", "enterSnapshotting", "createSnapshot"}
Labels == Endings \cup WakeLabels \cup AwakeLabels \cup GuardLabels \cup SleepLabels
            \cup {"answered", "finish"}

Idle == [at |-> "idle", then |-> "idle", copy |-> NoItem, inner |-> FALSE, outer |-> FALSE,
         lease |-> "stale", same |-> FALSE, group |-> "absent", host |-> CHOOSE e \in Endpoints : TRUE,
         name |-> NoName]

InvocationTypes ==
  [at : Labels, then : Labels, copy : Items, inner : BOOLEAN, outer : BOOLEAN,
   lease : {"fresh", "stale"},   \* the lease as handle_idle_check read it
   same  : BOOLEAN,              \* nobody renewed it since
   group : Statuses, host : Endpoints,   \* _replication_group
   name  : Names \cup {NoName}]  \* the snapshot at hand

ControllerInit ==
  /\ ctl    = NoItem
  /\ inv    = [i \in Invocations |-> Idle]
  /\ errors = 0

ControllerTypeOK ==
  /\ ctl    \in Items
  /\ inv    \in [Invocations -> InvocationTypes]
  /\ errors \in 0 .. MaxErrors

(***************************************************************************)
(* Steps of an invocation.                                                 *)
(***************************************************************************)
At(i, label)  == inv[i].at = label
Copy(i)       == inv[i].copy
Go(i, label)  == inv' = [inv EXCEPT ![i].at = label]
Finish(i)     == Go(i, "finish")
Look(i, label) == Go(i, label) /\ UNCHANGED <<cloudVars, ctl, errors>>

\* _transition from the copy of invocation i: a conditional write of the item.
\* In a helper (_reconcile_awake, _progress_sleep) the handler's copy stays behind.
Written(i, item, label, inHandler) ==
  [k \in Invocations |->
     IF k = i THEN [inv[i] EXCEPT !.at = label, !.copy = item, !.outer = inHandler]
     ELSE [inv[k] EXCEPT !.inner = FALSE, !.outer = FALSE]]

Transition(i, item, label, inHandler) ==
  /\ IF inv[i].inner
     THEN ctl' = item /\ inv' = Written(i, item, label, inHandler)
     ELSE UNCHANGED ctl /\ inv' = [inv EXCEPT ![i] = Idle]     \* StateConflict
  /\ UNCHANGED <<cloudVars, errors>>

\* The item with some of its fields changed; a write always makes it exist.
Item(desired, phase, name, proof) ==
  [exists |-> TRUE, desired |-> desired, phase |-> phase, name |-> name, proof |-> proof]

Put(i, from, item, to) == At(i, from) /\ Transition(i, item, to, FALSE)

\* get_item: both copies are the item.
Fetched(i, label) ==
  inv' = [inv EXCEPT ![i] = [@ EXCEPT !.at = label, !.copy = ctl, !.inner = TRUE, !.outer = TRUE]]

\* describe_replication_groups
Described(i, label) ==
  /\ inv' = [inv EXCEPT ![i] = [@ EXCEPT !.at = label, !.group = cache.status, !.host = cache.endpoint]]
  /\ UNCHANGED <<cloudVars, ctl, errors>>

(***************************************************************************)
(* _reconcile_awake.                                                       *)
(***************************************************************************)
AwakeStart == IF Hibernation THEN "awakeGroup" ELSE "awakeApi"

\* Mutant: the ElastiCache status is written where the phase belongs.
BusyStatus(status) == status

BusyPhase(status) == IF status = "deleting" THEN "DELETING" ELSE "RESTORING"

AwakeGroup(i) ==
  /\ At(i, "awakeGroup")
  /\ Described(i,
       CASE cache.status = "absent"    -> "restorePoint"
         [] cache.status = "available" -> IF Copy(i).phase = "ACTIVE" THEN "checkUrl" ELSE "publish"
         [] OTHER -> IF Copy(i).phase = BusyPhase(cache.status) THEN "finish" ELSE "noteBusy")

NoteBusy(i) ==
  Put(i, "noteBusy", Item("awake", BusyPhase(inv[i].group), Copy(i).name, Copy(i).proof), "finish")

CheckUrl(i) ==
  /\ At(i, "checkUrl")
  /\ Look(i, IF url = inv[i].host THEN "awakeApi" ELSE "publish")

\* Mutant: the API is started first, the endpoint published never.
PublishNothing(i) ==
  /\ At(i, "publish")
  /\ Look(i, IF Copy(i).phase \in {"ACTIVE", "API_STARTING"} THEN "awakeApi" ELSE "enterStarting")

\* _publish_cache_endpoint: the parameter is written and read back.
PublishCacheEndpoint(i) ==
  /\ At(i, "publish")
  /\ url' = inv[i].host
  /\ Go(i, IF Copy(i).phase \in {"ACTIVE", "API_STARTING"} THEN "awakeApi" ELSE "enterStarting")
  /\ UNCHANGED <<lease, api, load, metric, cache, snaps, ctl, errors>>

EnterStarting(i) ==
  Put(i, "enterStarting", Item(Copy(i).desired, "API_STARTING", Copy(i).name, "none"), "awakeApi")

AfterApi(i) ==
  IF Hibernation /\ (Copy(i).phase = "ACTIVE" \/ api.task # "running") THEN "finish" ELSE "enterActive"

AwakeApi(i) ==
  /\ At(i, "awakeApi")
  /\ Look(i, IF api.desired # 1 THEN "setOne" ELSE AfterApi(i))

\* _set_api_desired_count
SetDesired(i, from, count, to) ==
  /\ At(i, from)
  /\ api' = [api EXCEPT !.desired = count]
  /\ Go(i, to)
  /\ UNCHANGED <<lease, url, load, metric, cache, snaps, ctl, errors>>

StartApi(i) == SetDesired(i, "setOne", 1, AfterApi(i))

EnterActive(i) ==
  Put(i, "enterActive", Item("awake", "ACTIVE", Copy(i).name, "none"),
      IF Hibernation THEN "prune" ELSE "finish")

\* What _prune_snapshots keeps of the available snapshots.
Kept(i) ==
  {n \in Names : Available(n) /\ Cardinality(Younger(n)) < Retention} \cup {Copy(i).name}

PruneSnapshots(i) ==
  /\ At(i, "prune")
  /\ LET Old(n)    == Available(n) /\ n \notin Kept(i)
         Stays(n)  == ~Old(n)
     IN  snaps' = [older  |-> {p \in snaps.older : Stays(p[1]) /\ Stays(p[2])},
                   status |-> [n \in Names |-> IF Old(n) THEN "absent" ELSE snaps.status[n]],
                   full   |-> {n \in snaps.full : Stays(n)}]
  /\ Finish(i)
  /\ UNCHANGED <<lease, url, api, load, metric, cache, ctl, errors>>

\* The snapshot the item names, if there is one, or the latest available one.
RestoreFrom(i) ==
  IF Copy(i).name # NoName /\ snaps.status[Copy(i).name] # "absent"
  THEN Copy(i).name ELSE LatestAvailable

RestorePoint(i) ==
  /\ At(i, "restorePoint")
  /\ LET n == RestoreFrom(i)
         restoring == Copy(i).phase = "RESTORING"
         next == IF Available(n) THEN "createGroup" ELSE "finish"
     IN  inv' = [inv EXCEPT ![i] = [@ EXCEPT !.name = n, !.then = next, !.at =
           IF n = NoName THEN "failed"
           ELSE IF restoring /\ (~Available(n) \/ Copy(i).name = n) THEN next
           ELSE "enterRestoring"]]
  /\ UNCHANGED <<cloudVars, ctl, errors>>

EnterRestoring(i) ==
  Put(i, "enterRestoring", Item("awake", "RESTORING", inv[i].name, Copy(i).proof), inv[i].then)

\* Mutant: an empty group when the restore cannot be asked for.
CreateBlankGroup(i) ==
  /\ At(i, "createGroup") /\ cache.status = "absent"
  /\ \E e \in Endpoints : cache' = [status |-> "creating", endpoint |-> e, full |-> FALSE]
  /\ Go(i, "answered")
  /\ UNCHANGED <<lease, url, api, load, metric, snaps, ctl, errors>>

\* create_replication_group; that the group exists already is ignored.
CreateReplicationGroup(i) ==
  /\ At(i, "createGroup")
  /\ IF cache.status # "absent" THEN Finish(i) /\ UNCHANGED cache
     ELSE IF ~Available(inv[i].name) THEN Go(i, "failedMutation") /\ UNCHANGED cache
     ELSE /\ \E e \in Endpoints :
               cache' = [status |-> "creating", endpoint |-> e, full |-> inv[i].name \in snaps.full]
          /\ Go(i, "answered")
  /\ UNCHANGED <<lease, url, api, load, metric, snaps, ctl, errors>>

ReconcileAwake(i) ==
  \/ AwakeGroup(i)
  \/ NoteBusy(i)
  \/ CheckUrl(i)
  \/ PublishCacheEndpoint(i)
  \/ EnterStarting(i)
  \/ AwakeApi(i)
  \/ StartApi(i)
  \/ EnterActive(i)
  \/ PruneSnapshots(i)
  \/ RestorePoint(i)
  \/ EnterRestoring(i)
  \/ CreateReplicationGroup(i)

(***************************************************************************)
(* handle_wake, for an authorized POST.                                    *)
(***************************************************************************)
StartWake(i) == At(i, "idle") /\ Look(i, "putLease")

WriteLastWake(i) ==
  /\ At(i, "putLease")
  /\ lease' = "fresh"
  /\ inv' = [k \in Invocations |->
       IF k = i THEN [inv[i] EXCEPT !.at = "wakeRead"] ELSE [inv[k] EXCEPT !.same = FALSE]]
  /\ UNCHANGED <<url, api, load, metric, cache, snaps, ctl, errors>>

ReadStateForWake(i) ==
  /\ At(i, "wakeRead")
  /\ Fetched(i, "claimWake")
  /\ UNCHANGED <<cloudVars, ctl, errors>>

ClaimWake(i) ==
  /\ At(i, "claimWake")
  /\ Transition(i, Item("awake", IF Copy(i).exists THEN Copy(i).phase ELSE "API_STARTING",
                        Copy(i).name, "none"), AwakeStart, TRUE)

HandleWake(i) == StartWake(i) \/ WriteLastWake(i) \/ ReadStateForWake(i) \/ ClaimWake(i)

(***************************************************************************)
(* _activity_guard and _invalidate_snapshot_or_quiescence.  "then" is where *)
(* _progress_sleep goes on.                                                *)
(***************************************************************************)
Judge(i, ok, label) ==
  inv' = [inv EXCEPT ![i] =
    IF ok THEN [@ EXCEPT !.at = label] ELSE [@ EXCEPT !.at = "invalidate", !.then = "finish"]]

Guard(i, ok, label) == Judge(i, ok, label) /\ UNCHANGED <<cloudVars, ctl, errors>>

\* _unexpected_running_tasks, which a long task does not escape.
GuardNoTask(i, allowApi, label) ==
  /\ Judge(i, ~UnexpectedTasks(allowApi), label)
  /\ load' = [load EXCEPT !.task = IF @ = "long" THEN "running" ELSE @]
  /\ UNCHANGED <<lease, url, api, metric, cache, snaps, ctl, errors>>

\* The guard, and then label.
Guarded(i, label) ==
  /\ inv' = [inv EXCEPT ![i] = [@ EXCEPT !.at = "guardLease", !.then = label]]
  /\ UNCHANGED <<cloudVars, ctl, errors>>

WakeIsStillStale(i) == inv[i].same /\ lease = "stale"

HasZeroProof(item) ==
  item.phase \in {"QUIESCING", "SNAPSHOTTING", "SNAPSHOT_READY", "DELETING"} /\ item.proof # "none"

\* Mutant: a metric that is missing is never accepted.
GuardMetricStrict(i) == At(i, "guardMetric") /\ Guard(i, QueueMetric = "zero", "guardTasks")

GuardLease(i)  == At(i, "guardLease") /\ Guard(i, WakeIsStillStale(i), "guardWorker")
GuardWorker(i) == At(i, "guardWorker") /\ Guard(i, WorkerStopped, "guardMetric")
GuardMetric(i) ==
  /\ At(i, "guardMetric")
  /\ Guard(i, QueueMetric = "zero" \/ (QueueMetric = "missing" /\ HasZeroProof(Copy(i))), "guardTasks")
GuardTasks(i)  == At(i, "guardTasks") /\ GuardNoTask(i, inv[i].then = "sleepApi", inv[i].then)

\* Mutant: the pointer to the snapshot survives the activity.
InvalidateKeepsSnapshot(i) == At(i, "invalidate") /\ Look(i, inv[i].then)

Invalidate(i) ==
  /\ At(i, "invalidate")
  /\ IF Copy(i).phase \in {"SNAPSHOTTING", "SNAPSHOT_READY"}
     THEN Transition(i, Item(Copy(i).desired, "QUIESCING", NoName, "none"), inv[i].then, FALSE)
     ELSE IF Copy(i).proof # "none"
     THEN Transition(i, [Copy(i) EXCEPT !.proof = "none"], inv[i].then, FALSE)
     ELSE Look(i, inv[i].then)

ActivityGuard(i) ==
  GuardLease(i) \/ GuardWorker(i) \/ GuardMetric(i) \/ GuardTasks(i) \/ Invalidate(i)

(***************************************************************************)
(* handle_idle_check.                                                      *)
(***************************************************************************)
StartIdleCheck(i) ==
  /\ At(i, "idle")
  /\ inv' = [inv EXCEPT ![i] = [@ EXCEPT !.at = "readLease", !.then = "sleepApi"]]
  /\ IF Stopping THEN UNCHANGED metric ELSE MetricAges
  /\ UNCHANGED <<lease, url, api, load, cache, snaps, ctl, errors>>

ReadLastWake(i) ==
  /\ At(i, "readLease")
  /\ inv' = [inv EXCEPT ![i] = [@ EXCEPT !.at = "sleepRead", !.lease = lease, !.same = TRUE]]
  /\ UNCHANGED <<cloudVars, ctl, errors>>

\* A wake that is under way is carried on, however old its lease.
WakeUnderWay(item) ==
  item.desired = "awake" /\ item.phase \in {"DELETING", "RESTORING", "API_STARTING"}

\* Mutants: a check leaves a claimed wake alone; only a fresh lease is carried on; an item that a wake claimed in the
\* middle of a sleep is not begun anew.
AfterReadLeavesWake(i) ==
  IF inv[i].lease = "fresh" THEN IF ctl.desired = "awake" THEN "finish" ELSE "reclaim"
  ELSE IF ctl.desired = "sleep" /\ ctl.phase = "SLEEPING" THEN "sleepingGroup"
  ELSE IF WakeUnderWay(ctl) THEN AwakeStart
  ELSE IF ctl.desired = "awake" \/ ctl.phase = "ACTIVE" THEN "beginSleep"
  ELSE "guardLease"

AfterReadForgetful(i) ==
  IF inv[i].lease = "fresh"
  THEN IF ctl.desired = "awake" THEN AwakeStart ELSE "reclaim"
  ELSE IF ctl.desired = "sleep" /\ ctl.phase = "SLEEPING" THEN "sleepingGroup"
  ELSE IF ctl.desired = "awake" \/ ctl.phase = "ACTIVE" THEN "beginSleep"
  ELSE "guardLease"

AfterReadResumes(i) ==
  IF inv[i].lease = "fresh"
  THEN IF ctl.desired = "awake" THEN AwakeStart ELSE "reclaim"
  ELSE IF ctl.desired = "sleep" /\ ctl.phase = "SLEEPING" THEN "sleepingGroup"
  ELSE IF WakeUnderWay(ctl) THEN AwakeStart
  ELSE IF ctl.phase = "ACTIVE" THEN "beginSleep"
  ELSE "guardLease"

AfterRead(i) ==
  IF inv[i].lease = "fresh"
  THEN IF ctl.desired = "awake" THEN AwakeStart ELSE "reclaim"
  ELSE IF ctl.desired = "sleep" /\ ctl.phase = "SLEEPING" THEN "sleepingGroup"
  ELSE IF WakeUnderWay(ctl) THEN AwakeStart
  ELSE IF ctl.desired = "awake" \/ ctl.phase = "ACTIVE" THEN "beginSleep"
  ELSE "guardLease"

ReadStateForSleep(i) ==
  /\ At(i, "sleepRead")
  /\ Fetched(i, AfterRead(i))
  /\ UNCHANGED <<cloudVars, ctl, errors>>

\* A recent wake that has not claimed the item.
Reclaim(i) ==
  /\ At(i, "reclaim")
  /\ Transition(i, [Copy(i) EXCEPT !.desired = "awake"], AwakeStart, TRUE)

\* Asleep already: the cache is absent and its snapshot is there.
SleepingGroup(i) ==
  /\ At(i, "sleepingGroup")
  /\ Described(i, IF cache.status = "absent" THEN "sleepingSnapshot" ELSE "guardLease")

SleepingSnapshot(i) ==
  /\ At(i, "sleepingSnapshot")
  /\ Look(i, IF Available(Copy(i).name) THEN "finish" ELSE "failed")

BeginSleep(i) ==
  /\ At(i, "beginSleep")
  /\ Transition(i, Item("sleep", "QUIESCING", Copy(i).name, "none"), "guardLease", TRUE)

HandleIdleCheck(i) ==
  \/ StartIdleCheck(i)
  \/ ReadLastWake(i)
  \/ ReadStateForSleep(i)
  \/ Reclaim(i)
  \/ SleepingGroup(i)
  \/ SleepingSnapshot(i)
  \/ BeginSleep(i)

(***************************************************************************)
(* _progress_sleep, after its first guard.                                 *)
(***************************************************************************)
SleepApi(i) ==
  /\ At(i, "sleepApi")
  /\ inv' = [inv EXCEPT ![i] =
       IF ApiStopped THEN [@ EXCEPT !.at = "sleepTasks"]
       ELSE [@ EXCEPT !.at = "invalidate",
                      !.then = IF api.desired # 0 THEN "setZero" ELSE "leaseAgain"]]
  /\ UNCHANGED <<cloudVars, ctl, errors>>

StopApi(i) == SetDesired(i, "setZero", 0, "leaseAgain")

LeaseAgain(i) ==
  /\ At(i, "leaseAgain")
  /\ Look(i, IF WakeIsStillStale(i) THEN "finish" ELSE "setOneAgain")

StartApiAgain(i) == SetDesired(i, "setOneAgain", 1, "finish")

SleepTasks(i) ==
  /\ At(i, "sleepTasks")
  /\ GuardNoTask(i, FALSE, IF Hibernation THEN "sleepCache" ELSE "enterSleeping")

SleepCache(i) ==
  /\ At(i, "sleepCache")
  /\ Described(i,
       IF cache.status = "absent" THEN "sleepSnapshot"
       ELSE IF Copy(i).phase = "SNAPSHOTTING" THEN "checkSnapshot"
       ELSE IF Copy(i).phase = "SNAPSHOT_READY" THEN "readySnapshot"
       ELSE IF cache.status = "deleting"
            THEN IF Copy(i).phase = "DELETING" THEN "finish" ELSE "noteDeleting"
       ELSE IF cache.status # "available" THEN "finish"
       ELSE IF Copy(i).phase = "QUIESCING" THEN "quiesce" ELSE "requiesce")

\* The cache is absent: asleep, if its snapshot is available.
SleepSnapshot(i) ==
  /\ At(i, "sleepSnapshot")
  /\ LET n == IF Copy(i).name # NoName THEN Copy(i).name ELSE LatestAvailable
     IN  inv' = [inv EXCEPT ![i] = [@ EXCEPT !.name = n, !.at =
           IF ~Available(n) THEN "failed"
           ELSE IF Copy(i).phase = "SLEEPING" /\ Copy(i).name = n THEN "finish" ELSE "enterSleeping"]]
  /\ UNCHANGED <<cloudVars, ctl, errors>>

EnterSleeping(i) ==
  Put(i, "enterSleeping",
      Item("sleep", "SLEEPING", IF Hibernation THEN inv[i].name ELSE Copy(i).name, "none"), "finish")

CheckSnapshot(i) ==
  /\ At(i, "checkSnapshot")
  /\ LET s == IF Copy(i).name = NoName THEN "absent" ELSE snaps.status[Copy(i).name]
     IN  Look(i, IF s \in {"absent", "failed"} THEN "failed"
                 ELSE IF s = "available" /\ inv[i].group = "available" THEN "enterReady"
                 ELSE "finish")

EnterReady(i) ==
  Put(i, "enterReady", Item(Copy(i).desired, "SNAPSHOT_READY", Copy(i).name, Copy(i).proof), "finish")

\* The snapshot is ready: every gate once more before the cache is deleted.
ReadySnapshot(i) ==
  /\ At(i, "readySnapshot")
  /\ IF Available(Copy(i).name) THEN Guarded(i, "deleteApi") ELSE Look(i, "failed")

DeleteApi(i) == At(i, "deleteApi") /\ Guard(i, ApiStopped, "deleteGroupUp")

DeleteGroupUp(i) ==
  /\ At(i, "deleteGroupUp")
  /\ Look(i, IF cache.status = "available" THEN "enterDeleting" ELSE "finish")

EnterDeleting(i) ==
  Put(i, "enterDeleting", Item(Copy(i).desired, "DELETING", Copy(i).name, Copy(i).proof), "deleteGroup")

\* delete_replication_group, without a final snapshot.
DeleteReplicationGroup(i) ==
  /\ At(i, "deleteGroup")
  /\ IF cache.status = "available"
     THEN cache' = [cache EXCEPT !.status = "deleting"] /\ Go(i, "answered")
     ELSE Go(i, "failedMutation") /\ UNCHANGED cache
  /\ UNCHANGED <<lease, url, api, load, metric, snaps, ctl, errors>>

NoteDeleting(i) ==
  Put(i, "noteDeleting", Item(Copy(i).desired, "DELETING", Copy(i).name, Copy(i).proof), "finish")

\* From an interrupted deletion, whose proof stays, or from any other phase.
Requiesce(i) ==
  Put(i, "requiesce",
      Item(Copy(i).desired, "QUIESCING", NoName,
           IF Copy(i).phase = "DELETING" THEN Copy(i).proof ELSE "none"), "quiesce")

\* Two clear observations, CACHE_QUIESCENCE_SECONDS apart.
Quiesce(i) ==
  /\ At(i, "quiesce")
  /\ CASE Copy(i).proof = "none" ->
            Transition(i, [Copy(i) EXCEPT !.proof = "young"], "finish", FALSE)
       [] Copy(i).proof = "young" -> Look(i, "finish")
       [] Copy(i).proof = "old" -> Guarded(i, "snapshotApi")

SnapshotApi(i) == At(i, "snapshotApi") /\ Guard(i, ApiStopped, "enterSnapshotting")

\* Names _new_snapshot_name may draw; they differ in nothing but their age.
FreeNames ==
  {n \in Names : snaps.status[n] = "absent" /\ n # ctl.name
                 /\ \A k \in Invocations : n # Copy(k).name /\ n # inv[k].name}

\* Bound: past MaxSnapshots no further snapshot is begun.
EnterSnapshotting(i) ==
  IF FreeNames = {} THEN At(i, "enterSnapshotting") /\ Look(i, "finish")
  ELSE LET new == CHOOSE n \in FreeNames : TRUE
       IN  Put(i, "enterSnapshotting", Item("sleep", "SNAPSHOTTING", new, Copy(i).proof), "createSnapshot")

CreateSnapshot(i) ==
  /\ At(i, "createSnapshot")
  /\ LET n == Copy(i).name
     IN  IF cache.status = "available"
         THEN /\ snaps' = [older  |-> snaps.older \cup {<<m, n>> : m \in {k \in Names : snaps.status[k] # "absent"}},
                           status |-> [snaps.status EXCEPT ![n] = "creating"],
                           full   |-> snaps.full \cup IF cache.full THEN {n} ELSE {}]
              /\ cache' = [cache EXCEPT !.status = "snapshotting"]
              /\ Go(i, "answered")
         ELSE Go(i, "failedMutation") /\ UNCHANGED <<cache, snaps>>
  /\ UNCHANGED <<lease, url, api, load, metric, ctl, errors>>

ProgressSleep(i) ==
  \/ SleepApi(i)
  \/ StopApi(i)
  \/ LeaseAgain(i)
  \/ StartApiAgain(i)
  \/ SleepTasks(i)
  \/ SleepCache(i)
  \/ SleepSnapshot(i)
  \/ EnterSleeping(i)
  \/ CheckSnapshot(i)
  \/ EnterReady(i)
  \/ ReadySnapshot(i)
  \/ DeleteApi(i)
  \/ DeleteGroupUp(i)
  \/ EnterDeleting(i)
  \/ DeleteReplicationGroup(i)
  \/ NoteDeleting(i)
  \/ Requiesce(i)
  \/ Quiesce(i)
  \/ SnapshotApi(i)
  \/ EnterSnapshotting(i)
  \/ CreateSnapshot(i)

(***************************************************************************)
(* Endings.                                                                *)
(***************************************************************************)
Return(i) ==
  /\ inv[i].at \in {"answered", "finish"}
  /\ inv' = [inv EXCEPT ![i] = Idle]
  /\ UNCHANGED <<cloudVars, ctl, errors>>

Mutations == {"createGroup", "deleteGroup", "createSnapshot", "answered"}
Unread    == {"putLease", "wakeRead", "readLease", "sleepRead"}

\* A call fails, or its answer is lost after it took effect.
CallFails(i) ==
  /\ errors < MaxErrors
  /\ inv[i].at \notin Endings \cup {"prune"}
  /\ errors' = errors + 1
  /\ Go(i, IF inv[i].at \in Mutations THEN "failedMutation"
           ELSE IF inv[i].at \in Unread THEN "failedUnread" ELSE "failed")
  /\ UNCHANGED <<cloudVars, ctl>>

\* Mutant: the error clears the pointer to the snapshot too.
MarkErrorForgets(i) ==
  /\ inv[i].at \in {"failed", "failedMutation", "failedUnread"}
  /\ ctl' = Item(ctl.desired, "ERROR", NoName, "none")
  /\ inv' = [inv EXCEPT ![i] = Idle]
  /\ UNCHANGED <<cloudVars, errors>>

\* _mark_error clears the zero-queue proof.  The handler marks the error with
\* its own copy of the item, a failed mutation with the helper's; a copy that
\* is not current marks nothing.
MarkError(i) ==
  /\ inv[i].at \in {"failed", "failedMutation", "failedUnread"}
  /\ LET seen == IF At(i, "failedUnread") THEN ctl ELSE Copy(i)
         current == \/ At(i, "failedUnread")
                    \/ At(i, "failed") /\ inv[i].outer
                    \/ At(i, "failedMutation") /\ inv[i].inner
     IN  IF current
         THEN /\ ctl' = Item(seen.desired, "ERROR", seen.name, "none")
              /\ inv' = [Written(i, ctl, "idle", TRUE) EXCEPT ![i] = Idle]
         ELSE inv' = [inv EXCEPT ![i] = Idle] /\ UNCHANGED ctl
  /\ UNCHANGED <<cloudVars, errors>>

\* The Lambda's timeout, or its sandbox is lost.
TimeOut(i) ==
  /\ "timeout" \in Faults
  /\ ~At(i, "idle")
  /\ inv' = [inv EXCEPT ![i] = Idle]
  /\ UNCHANGED <<cloudVars, ctl, errors>>

Continue(i) ==
  \/ ~At(i, "idle") /\ (HandleWake(i) \/ HandleIdleCheck(i))
  \/ ReconcileAwake(i)
  \/ ActivityGuard(i)
  \/ ProgressSleep(i)
  \/ Return(i)
  \/ MarkError(i)

InvocationStep(i) ==
  \/ StartWake(i)
  \/ StartIdleCheck(i)
  \/ Continue(i)
  \/ CallFails(i)
  \/ TimeOut(i)

(***************************************************************************)
(* Time.  IDLE_TIMEOUT_SECONDS is longer than an invocation can last.      *)
(***************************************************************************)
LeaseExpires ==
  /\ lease = "fresh"
  /\ \A i \in Invocations : At(i, "idle")
  /\ lease' = "stale"
  /\ UNCHANGED <<url, api, load, metric, cache, snaps, controllerVars>>

Ripe(item) == IF item.proof = "young" THEN [item EXCEPT !.proof = "old"] ELSE item

ProofRipens ==
  /\ ctl.proof = "young"
  /\ ctl' = Ripe(ctl)
  /\ inv' = [i \in Invocations |-> [inv[i] EXCEPT !.copy = Ripe(@)]]
  /\ UNCHANGED <<cloudVars, errors>>

Lives == (IF "briefTask" \in Faults THEN {"running"} ELSE {})
           \cup (IF "longTask" \in Faults THEN {"long"} ELSE {})

\* An operator runs a task by hand.  One that is launched in the middle of an
\* invocation does not run before the invocation is over.
TaskLaunched ==
  /\ Up /\ load.task = "none"
  /\ \A i \in Invocations : At(i, "idle")
  /\ \E life \in Lives : load' = [load EXCEPT !.task = life]
  /\ UNCHANGED <<lease, url, api, metric, cache, snaps, controllerVars>>
=============================================================================
