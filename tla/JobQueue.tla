------------------------------ MODULE JobQueue ------------------------------
(***************************************************************************)
(* The BullMQ queues "code-jobs" and "code-jobs-dlq", an external library, *)
(* as the API, the worker and the replay script use them: queue.add with   *)
(* attempts and a custom backoff, a Worker that hands active jobs to the   *)
(* processor, the "failed" event, add and remove on the DLQ.  An entry     *)
(* <<j, r>> is a queue job whose payload is job j: r = 0 is the entry the  *)
(* API adds, r > 0 the r-th replay of j.                                   *)
(* BullMQ's Lua scripts make each operation below atomic.                  *)
(***************************************************************************)
EXTENDS JobStore

CONSTANTS
  MaxReplays,   \* bound: replays of one job
  Attempts,     \* QUEUE_JOB_ATTEMPTS, the attempts option of every add
  MaxStalls     \* BullMQ's maxStalledCount (default 1): redeliveries of one
                \* entry whose worker died; a further stall is not modelled

ASSUME AttemptsAssumption == Attempts \in Nat \ {0}
ASSUME BoundsAssumption   == MaxReplays \in Nat /\ MaxStalls \in Nat

VARIABLES
  queue,     \* where each entry is: one of QueueStates
  made,      \* attemptsMade of each entry: its failed attempts
  starts,    \* how often the entry was handed to a processor
  stalls,    \* how often the entry was redelivered after its worker died
  dlq        \* the dead-lettered entries

queueVars == <<queue, made, starts, stalls, dlq>>

Entries     == Jobs \X (0 .. MaxReplays)
QueueStates == {"none", "waiting", "active", "delayed", "completed", "failed"}
Pending     == {"waiting", "active", "delayed"}

QueueInit ==
  /\ queue  = [e \in Entries |-> "none"]
  /\ made   = [e \in Entries |-> 0]
  /\ starts = [e \in Entries |-> 0]
  /\ stalls = [e \in Entries |-> 0]
  /\ dlq    = {}

QueueTypeOK ==
  /\ queue  \in [Entries -> QueueStates]
  /\ made   \in [Entries -> Nat]
  /\ starts \in [Entries -> Nat]
  /\ stalls \in [Entries -> Nat]
  /\ dlq    \subseteq Entries

JobOf(e) == e[1]

Move(e, from, to) ==
  /\ queue[e] = from
  /\ queue' = [queue EXCEPT ![e] = to]

Add(e) == Move(e, "none", "waiting") /\ UNCHANGED <<made, starts, stalls, dlq>>

\* A worker fetches a waiting entry and runs the processor on it.
Take(e) ==
  /\ Move(e, "waiting", "active")
  /\ starts' = [starts EXCEPT ![e] = @ + 1]
  /\ UNCHANGED <<made, stalls, dlq>>

\* The processor returned.
MoveToCompleted(e) == Move(e, "active", "completed") /\ UNCHANGED <<made, starts, stalls, dlq>>

\* The processor threw: the entry waits out its backoff, or has no attempt left.
AfterFailure(e) == IF made[e] + 1 < Attempts THEN "delayed" ELSE "failed"

MoveToFailed(e) ==
  /\ Move(e, "active", AfterFailure(e))
  /\ made' = [made EXCEPT ![e] = @ + 1]
  /\ UNCHANGED <<starts, stalls, dlq>>

\* The backoff is over.
Promote(e) == Move(e, "delayed", "waiting") /\ UNCHANGED <<made, starts, stalls, dlq>>

\* The stalled check gives the entries whose worker died back to the queue.
Redeliver(lost) ==
  /\ \A e \in lost : stalls[e] < MaxStalls
  /\ queue'  = [e \in Entries |-> IF e \in lost THEN "waiting" ELSE queue[e]]
  /\ stalls' = [e \in Entries |-> IF e \in lost THEN stalls[e] + 1 ELSE stalls[e]]
  /\ UNCHANGED <<made, starts, dlq>>
=============================================================================
