----------------------------- MODULE CacheCloud -----------------------------
(***************************************************************************)
(* The AWS resources the sleep controller observes and changes: the two    *)
(* SSM parameters, the API and worker services with their tasks, the queue *)
(* metric, the ElastiCache replication group and its manual snapshots; and *)
(* what happens to them without the controller.                            *)
(*                                                                         *)
(* Time is abstracted.  A wake lease is fresh until it is older than       *)
(* IDLE_TIMEOUT_SECONDS.  The age of a metric datapoint is the number of   *)
(* scheduled checks since it was published; past Window checks it is out   *)
(* of the metric query.                                                    *)
(***************************************************************************)
EXTENDS Integers, FiniteSets

CONSTANTS
  MaxSnapshots,  \* bound: snapshot names in use at the same time
  Endpoints,     \* addresses a replication group can get
  Window,        \* checks a datapoint stays visible: IDLE_TIMEOUT_SECONDS / schedule
  Traffic,       \* whether clients submit jobs to a running API
  Faults         \* which failures a behaviour may have

ASSUME SnapshotsAssumption == MaxSnapshots \in Nat \ {0}
ASSUME EndpointsAssumption == Endpoints # {}
ASSUME WindowAssumption    == Window \in Nat /\ Window >= 2
ASSUME TrafficAssumption   == Traffic \in BOOLEAN
ASSUME FaultsAssumption    ==
  Faults \subseteq {"timeout", "longTask", "briefTask", "snapshotFails", "maintenance"}

VARIABLES
  lease,    \* the last-wake parameter: "fresh" or "stale"
  url,      \* the host of the Redis URL parameter
  api,      \* the API service: desired count, its task, the host that task was given
  load,     \* the worker service, a standalone task, jobs in the queue
  metric,   \* the age of the newest positive and of the newest zero datapoint
  cache,    \* the replication group; full: no write was lost
  snaps     \* manual snapshots; older: pairs in the order of their creation;
            \* full: those that hold every write

cloudVars == <<lease, url, api, load, metric, cache, snaps>>

Names      == 1 .. MaxSnapshots
NoName     == 0
Ages       == 0 .. Window + 1
TaskPhases == {"none", "running", "stopping"}
Statuses   == {"absent", "creating", "available", "snapshotting", "modifying", "deleting"}

CloudInit ==
  /\ lease  = "stale"
  /\ url    \in Endpoints
  /\ api    \in {[desired |-> 0, task |-> "none", host |-> url],
                 [desired |-> 1, task |-> "running", host |-> url]}
  /\ load   = [worker |-> "none", task |-> "none", backlog |-> FALSE]
  /\ metric = [positive |-> Window + 1, zero |-> Window + 1]
  /\ cache  = [status |-> "available", endpoint |-> url, full |-> TRUE]
  /\ snaps  = [older |-> {}, status |-> [n \in Names |-> "absent"], full |-> {}]

CloudTypeOK ==
  /\ lease  \in {"fresh", "stale"}
  /\ url    \in Endpoints
  /\ api    \in [desired : {0, 1}, task : TaskPhases, host : Endpoints]
  /\ load   \in [worker : TaskPhases, task : {"none", "running", "long"}, backlog : BOOLEAN]
  /\ metric \in [positive : Ages, zero : Ages]
  /\ cache  \in [status : Statuses, endpoint : Endpoints, full : BOOLEAN]
  /\ snaps  \in [older  : SUBSET (Names \X Names),
                 status : [Names -> {"absent", "creating", "available", "failed"}],
                 full   : SUBSET Names]

Gone == cache.status \in {"absent", "deleting"}
Up   == cache.status \in {"available", "snapshotting", "modifying"}

(***************************************************************************)
(* What the controller's queries return.                                   *)
(***************************************************************************)
ServiceStopped(desired, task) == desired = 0 /\ task # "running"
ApiStopped    == ServiceStopped(api.desired, api.task)
WorkerStopped == load.worker # "running"

\* Mutant: without the second ListTasks, for tasks that are stopping.
RunningTasks(allowApi) ==
  load.task # "none" \/ load.worker = "running" \/ (api.task = "running" /\ ~allowApi)

\* ListTasks and DescribeTasks: tasks that are still stopping count as active.
UnexpectedTasks(allowApi) ==
  \/ load.task # "none"
  \/ load.worker # "none"
  \/ api.task = "stopping"
  \/ api.task = "running" /\ ~allowApi

QueueMetric ==
  CASE metric.positive <= Window -> "positive"
    [] metric.positive > Window /\ metric.zero <= Window -> "zero"
    [] OTHER -> "missing"

Available(n) == n # NoName /\ snaps.status[n] = "available"
Younger(n) == {m \in Names : Available(m) /\ <<n, m>> \in snaps.older}
Youngest   == {n \in Names : Available(n) /\ Younger(n) = {}}
LatestAvailable == IF Youngest = {} THEN NoName ELSE CHOOSE n \in Youngest : TRUE

(***************************************************************************)
(* Clients, services and tasks.                                            *)
(***************************************************************************)

\* No snapshot taken so far holds the new write.
Write == snaps' = [snaps EXCEPT !.full = {}]

Submit ==
  /\ Traffic
  /\ api.task # "none" /\ Up /\ api.host = cache.endpoint
  /\ load' = [load EXCEPT !.backlog = TRUE]
  /\ Write
  /\ UNCHANGED <<lease, url, api, metric, cache>>

\* publishQueueDepthMetric of the API and of the worker.
PublishMetric ==
  /\ Up
  /\ api.task = "running" \/ load.worker = "running"
  /\ metric' = IF load.backlog THEN [metric EXCEPT !.positive = 0] ELSE [metric EXCEPT !.zero = 0]
  /\ UNCHANGED <<lease, url, api, load, cache, snaps>>

\* The alarm on a positive datapoint, within two checks of it.
WorkerScalesOut ==
  /\ load.worker = "none"
  /\ metric.positive <= 1
  /\ load' = [load EXCEPT !.worker = "running"]
  /\ UNCHANGED <<lease, url, api, metric, cache, snaps>>

\* A worker empties the queue and launches runner tasks or not.
WorkerConsumes ==
  /\ load.worker = "running" /\ load.backlog /\ Up
  /\ \E launched \in BOOLEAN :
       load' = [load EXCEPT !.backlog = FALSE, !.task = IF launched /\ @ = "none" THEN "running" ELSE @]
  /\ Write
  /\ UNCHANGED <<lease, url, api, metric, cache>>

\* The alarm on five minutes of nothing but zero datapoints: a check came since
\* the last positive one.
WorkerScalesIn ==
  /\ load.worker = "running" /\ ~load.backlog /\ metric.zero = 0 /\ metric.positive > 0
  /\ load' = [load EXCEPT !.worker = "stopping"]
  /\ UNCHANGED <<lease, url, api, metric, cache, snaps>>

WorkerExits ==
  /\ load.worker = "stopping"
  /\ load' = [load EXCEPT !.worker = "none"]
  /\ UNCHANGED <<lease, url, api, metric, cache, snaps>>

\* A task persists its result and exits, a long one after a check looked at it.
TaskFinishes ==
  /\ load.task = "running" /\ Up
  /\ load' = [load EXCEPT !.task = "none"]
  /\ Write
  /\ UNCHANGED <<lease, url, api, metric, cache>>

\* ECS follows the desired count; a task reads its Redis URL when it starts.
ApiStarts ==
  /\ api.desired = 1 /\ api.task = "none"
  /\ api' = [api EXCEPT !.task = "running", !.host = url]
  /\ UNCHANGED <<lease, url, load, metric, cache, snaps>>

ApiStops ==
  /\ \/ api.desired = 0 /\ api.task = "running" /\ api' = [api EXCEPT !.task = "stopping"]
     \/ api.task = "stopping" /\ api' = [api EXCEPT !.task = "none"]
  /\ UNCHANGED <<lease, url, load, metric, cache, snaps>>

(***************************************************************************)
(* ElastiCache.                                                            *)
(***************************************************************************)
GroupCreated ==
  /\ cache.status = "creating"
  /\ cache' = [cache EXCEPT !.status = "available"]
  /\ UNCHANGED <<lease, url, api, load, metric, snaps>>

GroupDeleted ==
  /\ cache.status = "deleting"
  /\ cache' = [cache EXCEPT !.status = "absent"]
  /\ UNCHANGED <<lease, url, api, load, metric, snaps>>

\* The snapshot is complete, or (a fault) failed.
SnapshotEnds ==
  /\ cache.status = "snapshotting"
  /\ cache' = [cache EXCEPT !.status = "available"]
  /\ \E n \in Names, end \in {"available"} \cup IF "snapshotFails" \in Faults THEN {"failed"} ELSE {} :
       /\ snaps.status[n] = "creating"
       /\ snaps' = [snaps EXCEPT !.status[n] = end]
  /\ UNCHANGED <<lease, url, api, load, metric>>

Maintenance ==
  /\ "maintenance" \in Faults
  /\ \/ cache.status = "available" /\ cache' = [cache EXCEPT !.status = "modifying"]
     \/ cache.status = "modifying" /\ cache' = [cache EXCEPT !.status = "available"]
  /\ UNCHANGED <<lease, url, api, load, metric, snaps>>

\* A scheduled check comes: datapoints get older.  ECS stops a task in less
\* time than lies between two checks; a check that finds one stopping is a
\* further delivery of the same event.
Stopping == \/ api.task = "stopping" \/ (api.task = "running" /\ api.desired = 0)
            \/ load.worker = "stopping"
Older(age) == IF age <= Window THEN age + 1 ELSE age
MetricAges == metric' = [positive |-> Older(metric.positive), zero |-> Older(metric.zero)]

LoadStep ==
  \/ Submit
  \/ PublishMetric
  \/ WorkerScalesOut
  \/ WorkerConsumes
  \/ WorkerScalesIn
  \/ WorkerExits
  \/ TaskFinishes

ResourceStep ==
  \/ ApiStarts
  \/ ApiStops
  \/ GroupCreated
  \/ GroupDeleted
  \/ SnapshotEnds
  \/ Maintenance
=============================================================================
