------------------------------ MODULE DlqReplay ------------------------------
(***************************************************************************)
(* scripts/replay-dlq.mjs: one run of the script per member of Replayers.  *)
(* It reads the dead-letter queue once, then adds each payload to the main *)
(* queue under a new id and removes it from the dead-letter queue, one     *)
(* dead letter after the other.  It reserves no quota.                     *)
(***************************************************************************)
EXTENDS WorkerPool

CONSTANT Replayers   \* the runs of the script: operators and the schedule

VARIABLES
  replay,   \* where each run is
  todo,     \* the dead letters it read and did not come to yet
  current   \* the dead letter it is at, as a set of one, or {}

replayVars == <<replay, todo, current>>

ReplayStates == {"idle", "looping", "added", "finished"}

ReplayInit ==
  /\ replay  = [p \in Replayers |-> "idle"]
  /\ todo    = [p \in Replayers |-> {}]
  /\ current = [p \in Replayers |-> {}]

ReplayTypeOK ==
  /\ replay  \in [Replayers -> ReplayStates]
  /\ todo    \in [Replayers -> SUBSET Entries]
  /\ current \in [Replayers -> SUBSET Entries]

Turn(p, from, to) ==
  /\ replay[p] = from
  /\ replay' = [replay EXCEPT ![p] = to]

\* The replays of job j so far are 1 .. r - 1.
NextReplay(j, r) ==
  /\ queue[<<j, r>>] = "none"
  /\ \A k \in 1 .. r - 1 : queue[<<j, k>>] # "none"

\* The pages are read one after the other: what another run removes meanwhile
\* shifts the rest, and dead letters in between are missed.
FetchJobs(p) ==
  /\ Turn(p, "idle", "looping")
  /\ \E seen \in SUBSET dlq :
       /\ seen = dlq \/ \E q \in Replayers \ {p} : replay[q] \in {"looping", "added"}
       /\ todo' = [todo EXCEPT ![p] = seen]
  /\ UNCHANGED <<storeVars, queueVars, apiVars, taskVars, workerVars, current>>

\* Mutant: the dead letter is removed although main.add failed.
RemovedUnadded(p) ==
  /\ Turn(p, "looping", "added")
  /\ \E e \in todo[p] :
       /\ dlq' = dlq \ {e}
       /\ current' = [current EXCEPT ![p] = {e}]
       /\ todo' = [todo EXCEPT ![p] = @ \ {e}]
  /\ UNCHANGED <<storeVars, queue, made, starts, stalls, apiVars, taskVars, workerVars>>

\* main.add under <jobId>-replay-<now>, whatever became of the dead letter since.
AddReplay(p) ==
  /\ Turn(p, "looping", "added")
  /\ \E e \in todo[p], r \in 1 .. MaxReplays :
       /\ NextReplay(JobOf(e), r)
       /\ Add(<<JobOf(e), r>>)
       /\ current' = [current EXCEPT ![p] = {e}]
       /\ todo' = [todo EXCEPT ![p] = @ \ {e}]
  /\ UNCHANGED <<storeVars, apiVars, taskVars, workerVars>>

\* job.remove
RemoveDeadLetter(p) ==
  /\ Turn(p, "added", "looping")
  /\ dlq' = dlq \ current[p]
  /\ current' = [current EXCEPT ![p] = {}]
  /\ UNCHANGED <<storeVars, queue, made, starts, stalls, apiVars, taskVars, workerVars, todo>>

\* The catch block of the loop: main.add or job.remove failed, the run goes on
\* with the next dead letter.
SkipDeadLetter(p) ==
  /\ "replayError" \in Faults
  /\ \/ /\ Turn(p, "looping", "looping")
        /\ \E e \in todo[p] : todo' = [todo EXCEPT ![p] = @ \ {e}]
        /\ UNCHANGED current
     \/ /\ Turn(p, "added", "looping")
        /\ current' = [current EXCEPT ![p] = {}]
        /\ UNCHANGED todo
  /\ UNCHANGED <<storeVars, queueVars, apiVars, taskVars, workerVars>>

FinishReplay(p) ==
  /\ Turn(p, "looping", "finished")
  /\ todo[p] = {}
  /\ UNCHANGED <<storeVars, queueVars, apiVars, taskVars, workerVars, todo, current>>

\* The run ends early, between an add and its remove or between two dead letters.
ReplayCrash(p) ==
  /\ "replayCrash" \in Faults
  /\ \E from \in {"looping", "added"} : Turn(p, from, "finished")
  /\ UNCHANGED <<storeVars, queueVars, apiVars, taskVars, workerVars, todo, current>>

ReplayStep(p) ==
  \/ FetchJobs(p)
  \/ AddReplay(p)
  \/ RemoveDeadLetter(p)
  \/ SkipDeadLetter(p)
  \/ FinishReplay(p)
  \/ ReplayCrash(p)
=============================================================================
