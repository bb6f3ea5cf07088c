----------------------------- MODULE SlotCustody -----------------------------
(***************************************************************************)
(* Who is to give a tenant's slot back.  While a job holds its slot, the   *)
(* duty to release it is with one party at a time: the API handler, the    *)
(* queue and the processor, the "failed" listener of the last attempt, or  *)
(* the runner task.  It moves on with the job; without worker faults and   *)
(* replays no two parties ever have it, so the slot is given back once.    *)
(***************************************************************************)
EXTENDS JobLifecycle

\* The faults that cannot make two parties release one slot.
HarmlessFaults == {"apiCommandError", "apiCrash", "rollbackError", "taskKilled"}

HandlerHasSlot(j)  == api[j] \in {"reserved", "hashed", "listed", "failing"}
QueueHasSlot(e)    == queue[e] \in {"waiting", "delayed"}
ProcessorHasSlot(e)== proc[e] \in {"taken", "running", "executed", "recorded", "charged"}
ListenerHasSlot(f) == f[2] = Attempts /\ handler[f] \in {"notified", "recorded"}
TaskHasSlot(a)     == task[a] \in {"executing", "computed", "recorded", "charged"}

\* Whoever is to release a slot does so for a reservation that is outstanding.
SlotsInCustody ==
  /\ \A j \in Jobs : HandlerHasSlot(j) => j \in holders
  /\ \A e \in Entries : QueueHasSlot(e) \/ ProcessorHasSlot(e) => JobOf(e) \in holders
  /\ \A f \in Failures : ListenerHasSlot(f) => JobOf(f[1]) \in holders
  /\ \A a \in TaskIds : TaskHasSlot(a) => TaskJob(a) \in holders
  /\ \A j \in Jobs : api[j] = "idle" => j \notin holders

\* Until queue.add, or once it can no longer happen, there is no queue entry.
QueuedByHandler ==
  \A j \in Jobs :
    api[j] \in {"idle", "rejected", "reserved", "hashed", "listed", "failing",
                "rolledBack", "deleted", "unavailable"} => queue[<<j, 0>>] = "none"

\* A processor runs for the active entries and for no other.
ProcessorOfActive == \A e \in Entries : queue[e] = "active" <=> proc[e] # "idle"

\* Listeners belong to attempts that failed; only the last one goes further
\* than its HSET, and only when the entry has failed.
ListenersOfFailures ==
  /\ \A e \in Entries : /\ queue[e] = "none" => made[e] = 0
                        /\ queue[e] \in Pending \cup {"completed"} => made[e] < Attempts
  /\ \A f \in Failures :
       /\ handler[f] # "none" => f[2] <= made[f[1]]
       /\ handler[f] = "recorded" => f[2] = Attempts

\* An entry has launched one task at most, in its last start, and its
\* processor has nothing left but markDispatched.
OneRunner ==
  \A a \in TaskIds : task[a] # "none" =>
    /\ a[2] = starts[a[1]]
    /\ proc[a[1]] \in {"launched", "dispatched"} \/ queue[a[1]] = "completed"

\* The duty to release a slot has one bearer, whatever the interleaving of
\* handlers, processors, listeners and runners.
OneCustodian ==
  /\ SlotsInCustody
  /\ QueuedByHandler
  /\ ProcessorOfActive
  /\ ListenersOfFailures
  /\ OneRunner
=============================================================================
