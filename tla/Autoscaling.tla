---------------------------- MODULE Autoscaling ----------------------------
(***************************************************************************)
(* The number of workers follows the queue: the API and every worker       *)
(* publish how many entries are pending, two CloudWatch alarms judge the   *)
(* maximum of each period, and their policies start a worker or stop all.  *)
(* The two publishers do not count the same: a worker only what waits.     *)
(*                                                                         *)
(* The API is awake and publishes in every period (its interval is half of *)
(* one); it counts in the moment it publishes.  The target tracking policy *)
(* only adds to a running worker and is left out.                          *)
(***************************************************************************)
EXTENDS RunnerPipeline

CONSTANTS
  EmptyPeriods,   \* worker_empty_queue_evaluation_periods
  ListenersEnd    \* whether listeners under way end before a stopped worker exits

ASSUME ScalingAssumption == EmptyPeriods \in Nat \ {0} /\ ListenersEnd \in BOOLEAN

VARIABLES
  fleet,      \* the workers that take jobs
  stopping,   \* those that got a SIGTERM
  above,      \* a datapoint of the present period is above zero
  nonempty,   \* the alarm worker_queue_nonempty
  quiet       \* the periods since then without such a datapoint, up to EmptyPeriods

scalingVars == <<fleet, stopping, above, nonempty, quiet>>
scaledVars  == <<vars, inside, scalingVars>>

ScalingInit ==
  /\ fleet = {} /\ stopping = {}
  /\ above = FALSE /\ nonempty = FALSE /\ quiet = 0

\* Mutants: the API counts like a worker; it counts what has ended as well.
OnlyWaiting == {e \in Entries : queue[e] = "waiting"}
EverAdded   == {e \in Entries : queue[e] # "none"}

\* getJobCounts of the API, getWaitingCount of a worker.
CountedByApi    == {e \in Entries : queue[e] \in Pending}
CountedByWorker == {e \in Entries : queue[e] = "waiting"}

ApiPublishes ==
  /\ above' = (above \/ CountedByApi # {})
  /\ UNCHANGED <<vars, inside, fleet, stopping, nonempty, quiet>>

WorkerPublishes ==
  /\ fleet # {}
  /\ above' = (above \/ CountedByWorker # {})
  /\ UNCHANGED <<vars, inside, fleet, stopping, nonempty, quiet>>

\* A period ends, with a last datapoint of the API, and the alarms are evaluated.
PeriodEnds ==
  /\ nonempty' = (above \/ CountedByApi # {})
  /\ quiet' = IF nonempty' THEN 0 ELSE IF quiet < EmptyPeriods THEN quiet + 1 ELSE quiet
  /\ above' = FALSE
  /\ UNCHANGED <<vars, inside, fleet, stopping>>

\* worker_scale_from_zero: the desired count is one.
ScaleFromZero ==
  /\ nonempty /\ fleet = {}
  /\ \E w \in Workers \ stopping : fleet' = {w}
  /\ UNCHANGED <<vars, inside, stopping, above, nonempty, quiet>>

\* worker_scale_to_zero: all workers get a SIGTERM.
ScaleToZero ==
  /\ quiet = EmptyPeriods /\ fleet # {}
  /\ stopping' = stopping \cup fleet
  /\ fleet' = {}
  /\ UNCHANGED <<vars, inside, above, nonempty, quiet>>

\* shutdown waits for the processors, not for the listeners.
WorkerStops ==
  /\ \E w \in stopping :
       /\ ActiveAt(w) = {}
       /\ ListenersEnd => ListeningAt(w) = {}
       /\ handler' = [f \in Failures |-> IF f \in ListeningAt(w) THEN "lost" ELSE handler[f]]
       /\ stopping' = stopping \ {w}
  /\ UNCHANGED <<storeVars, queueVars, apiVars, taskVars, proc, runBy, result, heardBy, replayVars,
                 inside, fleet, above, nonempty, quiet>>

ScalingStep ==
  \/ ApiPublishes
  \/ WorkerPublishes
  \/ PeriodEnds
  \/ ScaleFromZero
  \/ ScaleToZero
  \/ WorkerStops

\* Workers fetch while they run, and backoffs end while there is one that does.
Staffed ==
  \A e \in Entries : queue'[e] # queue[e] =>
    /\ queue'[e] = "active" => runBy'[e] \in fleet
    /\ queue[e] = "delayed" => fleet # {}

Engine == PipelineNext /\ Staffed /\ UNCHANGED scalingVars

ScaledNext ==
  \/ Engine
  \/ ScalingStep

\* The conditions of PipelineSpec, for workers that run only now and then, and
\* the clock of the alarms.
ScaledFairness ==
  /\ WF_scaledVars(Handlers /\ UNCHANGED <<inside, scalingVars>>)
  /\ WF_scaledVars(Fetches /\ Staffed /\ UNCHANGED <<inside, scalingVars>>)
  /\ WF_scaledVars(Processors /\ UNCHANGED <<inside, scalingVars>>)
  /\ WF_scaledVars(Backoffs /\ Staffed /\ UNCHANGED <<inside, scalingVars>>)
  /\ WF_scaledVars(Listeners /\ UNCHANGED <<inside, scalingVars>>)
  /\ WF_scaledVars(Tasks /\ Consistent /\ UNCHANGED <<inside, scalingVars>>)
  /\ \A a \in TaskIds : WF_scaledVars(PipelineStep(a) /\ UNCHANGED <<vars, scalingVars>>)
  /\ WF_scaledVars(PeriodEnds)
  /\ WF_scaledVars(ScaleFromZero)
  /\ WF_scaledVars(ScaleToZero)
  /\ WF_scaledVars(WorkerStops)

ScaledInit == Init /\ PipelineInit /\ ScalingInit

ScaledSpec ==
  /\ ScaledInit
  /\ [][ScaledNext]_scaledVars
  /\ ScaledFairness
-----------------------------------------------------------------------------
\* In the end, when nothing is pending any more, no worker is left running.
FleetSleeps == <>[](fleet = {} /\ stopping = {})
=============================================================================
