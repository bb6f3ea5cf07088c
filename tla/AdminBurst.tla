----------------------------- MODULE AdminBurst -----------------------------
(***************************************************************************)
(* POST /v1/admin/simulate/burst: the administrator's tenant submits a     *)
(* number of jobs at once, beside the ordinary submissions and the engine. *)
(* The handler counts them all up front, whatever the tenant's limits, and *)
(* then writes them in batches.  The commands of a batch are issued        *)
(* together: the job hash and the history item on the API's connection, in *)
(* this order, the queue entry on the queue's own.  There is no catch      *)
(* block: what was counted is not taken back.                              *)
(***************************************************************************)
EXTENDS JobLifecycle

CONSTANTS
  BurstJobs,    \* bound: the job ids a burst may draw
  BatchSize,    \* batchSize
  BurstFaults   \* of "commandError" and "crash"

ASSUME BurstAssumption ==
  /\ BurstJobs \subseteq Jobs /\ IsFiniteSet(BurstJobs)
  /\ BatchSize \in Nat \ {0}
  /\ \A j, k \in BurstJobs : Owner[j] = Owner[k]
  /\ BurstFaults \subseteq {"commandError", "crash"}

VARIABLES
  burst,      \* where the handler is
  drawn,      \* the jobs of the burst: count is their number
  remaining,  \* those of the batches to come
  sent        \* the commands of the present batch that are not executed yet

burstVars == <<burst, drawn, remaining, sent>>

BurstInit ==
  /\ burst = "idle"
  /\ drawn = {} /\ remaining = {} /\ sent = {}

BurstGoto(from, to) == burst = from /\ burst' = to

\* INCRBY of the active-jobs counter by count; the dateKey is that of now.
CountSlots ==
  /\ BurstGoto("idle", "counted")
  /\ \E B \in SUBSET {j \in BurstJobs : api[j] = "idle"} :
       /\ B # {}
       /\ drawn' = B
       /\ holders' = holders \cup B
       /\ active' = [t \in Tenants |-> active[t] + Cardinality({j \in B : Owner[j] = t})]
       /\ reservedOn' = [j \in Jobs |-> IF j \in B THEN day ELSE reservedOn[j]]
  /\ UNCHANGED <<status, deadLettered, daily, history, charges, queueVars, api, day,
                 taskVars, workerVars, replayVars, remaining, sent>>

\* INCRBY and EXPIRE of the daily counter of that date.
CountSubmissions ==
  /\ BurstGoto("counted", "adding")
  /\ remaining' = drawn
  /\ daily' = [t \in Tenants |-> [d \in Days |->
       daily[t][d] + Cardinality({j \in drawn : Owner[j] = t /\ reservedOn[j] = d})]]
  /\ UNCHANGED <<status, deadLettered, active, history, charges, holders, queueVars, apiVars,
                 taskVars, workerVars, replayVars, drawn, sent>>

BatchOf(B) ==
  \E batch \in SUBSET B :
    /\ Cardinality(batch) = IF Cardinality(B) < BatchSize THEN Cardinality(B) ELSE BatchSize
    /\ remaining' = B \ batch
    /\ sent' = batch \X {"hash", "item", "entry"}

\* Mutant: the loop ends one batch early.
LastBatchMissed ==
  /\ burst = "adding" /\ sent = {} /\ remaining # {}
  /\ IF Cardinality(remaining) <= BatchSize
     THEN remaining' = {} /\ UNCHANGED sent
     ELSE BatchOf(remaining)
  /\ UNCHANGED <<vars, burst, drawn>>

\* The loop: the next batch is issued when Promise.all of the last one is resolved.
NextBatch ==
  /\ burst = "adding" /\ sent = {} /\ remaining # {}
  /\ BatchOf(remaining)
  /\ UNCHANGED <<vars, burst, drawn>>

Executed(j, command) ==
  /\ <<j, command>> \in sent
  /\ sent' = sent \ {<<j, command>>}
  /\ UNCHANGED <<burst, drawn, remaining>>

\* HSET and EXPIRE of the job hash, whatever a worker has written to it.
WriteBurstHash(j) ==
  /\ Executed(j, "hash")
  /\ WriteStatus(j, "queued")
  /\ UNCHANGED <<deadLettered, active, daily, history, charges, holders, queueVars, apiVars,
                 taskVars, workerVars, replayVars>>

AppendBurstItem(j) ==
  /\ Executed(j, "item")
  /\ <<j, "hash">> \notin sent
  /\ AppendHistory(j)
  /\ UNCHANGED <<status, deadLettered, active, daily, charges, holders, queueVars, apiVars,
                 taskVars, workerVars, replayVars>>

AddBurstEntry(j) ==
  /\ Executed(j, "entry")
  /\ Add(<<j, 0>>)
  /\ UNCHANGED <<storeVars, apiVars, taskVars, workerVars, replayVars>>

\* The audit event and the reply.
ReplyQueued ==
  /\ BurstGoto("adding", "replied")
  /\ remaining = {} /\ sent = {}
  /\ UNCHANGED <<vars, drawn, remaining, sent>>

\* A command fails (the daily INCRBY, one of a batch, the audit event): the
\* handler ends with a 500; the rest of the batch is executed all the same.
FailCommand ==
  /\ "commandError" \in BurstFaults
  /\ \/ /\ burst \in {"adding", "failed"}
        /\ \E c \in sent : sent' = sent \ {c}
     \/ /\ burst = "counted" \/ (burst = "adding" /\ remaining = {} /\ sent = {})
        /\ UNCHANGED sent
  /\ burst' = "failed"
  /\ remaining' = {}
  /\ UNCHANGED <<vars, drawn>>

\* The process dies; some of its commands still reach Redis.
CrashBurst ==
  /\ "crash" \in BurstFaults
  /\ burst \in {"counted", "adding"}
  /\ burst' = "crashed"
  /\ remaining' = {}
  /\ sent' \in SUBSET sent
  /\ UNCHANGED <<vars, drawn>>

BurstCommand(j) ==
  \/ WriteBurstHash(j)
  \/ AppendBurstItem(j)
  \/ AddBurstEntry(j)

BurstStep ==
  \/ CountSlots
  \/ CountSubmissions
  \/ NextBatch
  \/ ReplyQueued
  \/ FailCommand
  \/ CrashBurst
  \/ \E j \in BurstJobs : BurstCommand(j)

\* The ids of a burst are not those of other submissions.
OthersSubmit ==
  /\ Next
  /\ \A j \in drawn : api'[j] = api[j]
  /\ UNCHANGED burstVars

BurstNext ==
  \/ BurstStep
  \/ OthersSubmit

BurstSpec == Init /\ BurstInit /\ [][BurstNext]_<<vars, burstVars>>
-----------------------------------------------------------------------------
\* The listener or the runner that should have released the slot of j died.
ReleaseLost(j) ==
  \/ \E f \in Failures : JobOf(f[1]) = j /\ handler[f] = "lost"
  \/ \E a \in TaskIds : TaskJob(a) = j /\ task[a] = "dead"

\* A slot that a burst counted up front has somebody who is to give it back: the
\* handler is still to add its entry, or the entry is pending, or its last
\* attempt is with a listener, or a runner has it.  It leaks only if the burst
\* broke off or whoever was to release it died.
BurstSlotsHaveOwners ==
  \A j \in drawn \cap holders :
    \/ burst = "counted" \/ j \in remaining \/ <<j, "entry">> \in sent
    \/ \E e \in Entries : JobOf(e) = j /\ (queue[e] \in Pending \/ Listening(e))
    \/ \E a \in TaskIds : TaskJob(a) = j /\ task[a] \in {"executing", "computed", "recorded", "charged"}
    \/ burst \in {"failed", "crashed"} /\ queue[<<j, 0>>] = "none"
    \/ ReleaseLost(j)
=============================================================================
