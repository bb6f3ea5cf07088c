-------------------------- MODULE CacheHibernation --------------------------
(***************************************************************************)
(* The sleep controller and the cloud together: a tenant's data survives   *)
(* any number of sleeps and wakes, and both come to an end.                *)
(***************************************************************************)
EXTENDS SleepController

vars == <<cloudVars, controllerVars>>

Init == CloudInit /\ ControllerInit

CloudStep == (LoadStep \/ ResourceStep) /\ UNCHANGED controllerVars

Next ==
  \/ CloudStep
  \/ \E i \in Invocations : InvocationStep(i)
  \/ LeaseExpires
  \/ ProofRipens
  \/ TaskLaunched

(***************************************************************************)
(* EventBridge keeps invoking the idle check, an invocation goes on until  *)
(* it returns, ECS, ElastiCache and the metric publishers do their work.   *)
(* Nothing forces a client to wake the engine or to submit a job.          *)
(***************************************************************************)
Fairness ==
  /\ WF_vars(ApiStarts /\ UNCHANGED controllerVars)
  /\ WF_vars(ApiStops /\ UNCHANGED controllerVars)
  /\ WF_vars(GroupCreated /\ UNCHANGED controllerVars)
  /\ WF_vars(GroupDeleted /\ UNCHANGED controllerVars)
  /\ WF_vars(SnapshotEnds /\ UNCHANGED controllerVars)
  /\ WF_vars(PublishMetric /\ UNCHANGED controllerVars)
  /\ WF_vars(WorkerScalesOut /\ UNCHANGED controllerVars)
  /\ WF_vars(WorkerConsumes /\ UNCHANGED controllerVars)
  /\ SF_vars(WorkerScalesIn /\ UNCHANGED controllerVars)
  /\ WF_vars(WorkerExits /\ UNCHANGED controllerVars)
  /\ WF_vars(TaskFinishes /\ UNCHANGED controllerVars)
  /\ WF_vars(ProofRipens)
  /\ \A i \in Invocations : WF_vars(StartIdleCheck(i)) /\ WF_vars(Continue(i))

\* A running publisher publishes every minute, a check comes every five.
Published == metric.positive = 0 \/ metric.zero = 0
Publishing == Up /\ (api.task = "running" \/ load.worker = "running")
CheckStarts == \E i \in Invocations : At(i, "idle") /\ inv'[i].at = "readLease"
Starting    == api.desired = 1 /\ api.task = "none"
Settled     == ~Stopping /\ ~Starting /\ load.task = "none" /\ (Publishing => Published)
TimelyNext  == Next /\ (CheckStarts => Settled)

Spec       == Init /\ [][Next]_vars
TimelySpec == Init /\ [][TimelyNext]_vars /\ Fairness
-----------------------------------------------------------------------------
\* Every variable holds a value of its type.
TypeOK == CloudTypeOK /\ ControllerTypeOK

\* Whenever there is a cache, it holds every write clients, workers and runners
\* ever made: no sleep and no restore loses one, whatever comes in between.
NothingLost == ~Gone => cache.full

\* While the cache is being deleted or absent, the snapshot the item names is
\* available and holds every write: there is always something to restore.
RestorePointKept == Gone => Available(ctl.name) /\ ctl.name \in snaps.full

\* The cache is away only while nobody can use it.
GoneOnlyWhenUnused ==
  Gone => api.task = "none" /\ load.worker = "none" /\ load.task = "none"

\* A running API was given the address of the cache that exists.
ApiHasItsCache == api.task = "running" => Up /\ api.host = cache.endpoint

\* The controller deletes the cache only in a phase that authorises it and only
\* when its last word was to sleep.
DeletesOnlyAsleep ==
  [][cache'.status = "deleting" /\ cache.status # "deleting"
       => ctl.desired = "sleep" /\ ctl.phase = "DELETING" /\ lease = "stale"]_vars

\* A wake that was claimed ends with a running API and an item that says so.
WakeCompletes == WakeUnderWay(ctl) ~> ctl.phase = "ACTIVE" /\ api.task = "running"

\* While the lease is renewed in time, the API is brought up.
LeaseWakesApi == lease = "fresh" ~> api.task = "running" \/ lease = "stale"

\* Asleep: the item says so, the API is stopped and the cache is gone.
Asleep == ctl.phase = "SLEEPING" /\ ApiStopped /\ (Hibernation => Gone)

\* An engine that served and that nobody wakes any more falls asleep for good.
SleepsWhenUnused ==
  <>[](lease = "stale" /\ ~load.backlog) => (api.task = "running" ~> []Asleep)
=============================================================================
