------------------------------ MODULE JobStore ------------------------------
(***************************************************************************)
(* The Redis state the API, the workers and the runners share: the job     *)
(* hashes (job:<id>), the two quota counters of each tenant, the tenant's  *)
(* job history and the tenant's daily cost.  Every operator below is one   *)
(* Redis command or one Lua script, so it is one atomic step; a handler is *)
(* a sequence of such steps and other actors run between them.             *)
(*                                                                         *)
(* A job hash is abstracted to its status, a cost to the number of times   *)
(* the job was charged.  TTLs (JOB_TTL_SECONDS, the daily keys') are not   *)
(* modelled: no key expires during a behaviour.                            *)
(***************************************************************************)
EXTENDS Integers, FiniteSets, Sequences

CONSTANTS
  Jobs,               \* one submission each: the job ids randomUUID() draws
  Tenants,
  Owner,              \* the tenant each submission is authenticated as
  MaxConcurrentJobs,  \* the tenant policy: slots
  MaxDailyJobs,       \* the tenant policy: submissions a day
  HistoryMax,         \* JOB_HISTORY_MAX
  LastDay             \* bound: the behaviour spans days 0..LastDay

ASSUME OwnerAssumption   == Owner \in [Jobs -> Tenants]
ASSUME PolicyAssumption  == /\ MaxConcurrentJobs \in [Tenants -> Nat \ {0}]
                            /\ MaxDailyJobs \in [Tenants -> Nat \ {0}]
ASSUME HistoryAssumption == HistoryMax \in Nat \ {0}
ASSUME LastDayAssumption == LastDay \in Nat

VARIABLES
  status,        \* the status field of each job hash, "absent" without a hash
  deadLettered,  \* jobs whose hash has a deadLetteredAt field
  active,        \* tenant:<t>:active_jobs
  daily,         \* tenant:<t>:daily_jobs:<date>
  history,       \* the tenant's job history, oldest first
  charges,       \* how often each job was added to its tenant's daily cost
  holders        \* auxiliary: jobs whose reservation was not given back yet

storeVars == <<status, deadLettered, active, daily, history, charges, holders>>

Days     == 0 .. LastDay
Terminal == {"succeeded", "failed"}
Statuses == {"absent", "queued", "running", "retrying", "dispatched"} \cup Terminal

StoreInit ==
  /\ status       = [j \in Jobs |-> "absent"]
  /\ deadLettered = {}
  /\ active       = [t \in Tenants |-> 0]
  /\ daily        = [t \in Tenants |-> [d \in Days |-> 0]]
  /\ history      = [t \in Tenants |-> <<>>]
  /\ charges      = [j \in Jobs |-> 0]
  /\ holders      = {}

StoreTypeOK ==
  /\ status       \in [Jobs -> Statuses]
  /\ deadLettered \subseteq Jobs
  /\ active       \in [Tenants -> Nat]
  /\ daily        \in [Tenants -> [Days -> Nat]]
  /\ history      \in [Tenants -> Seq(Jobs)]
  /\ charges      \in [Jobs -> Nat]
  /\ holders      \subseteq Jobs

(***************************************************************************)
(* The quota scripts.                                                      *)
(***************************************************************************)

\* Mutants: a limit that lets one more job in; a script without the daily limit.
HasQuotaOneMore(t, d)   == active[t] <= MaxConcurrentJobs[t] /\ daily[t][d] < MaxDailyJobs[t]
HasQuotaSlotsOnly(t, d) == active[t] < MaxConcurrentJobs[t]

\* reserveScript's two early returns: max_concurrent_jobs, max_daily_jobs.
HasQuota(t, d) ==
  /\ active[t] < MaxConcurrentJobs[t]
  /\ daily[t][d] < MaxDailyJobs[t]

\* reserveScript's two INCRs.
ReserveSlot(j, d) ==
  /\ active'  = [active EXCEPT ![Owner[j]] = @ + 1]
  /\ daily'   = [daily EXCEPT ![Owner[j]][d] = @ + 1]
  /\ holders' = holders \cup {j}

\* Mutant: the guard is x > 1.
FlooredDecrKeepsOne(n) == IF n > 1 THEN n - 1 ELSE n

\* A DECR guarded by "if x > 0": the counter never goes below zero.
FlooredDecr(n) == IF n > 0 THEN n - 1 ELSE 0

\* Mutant: only the submission is given back, not the slot.
RollbackDailyOnly(j, d) ==
  /\ daily'   = [daily EXCEPT ![Owner[j]][d] = FlooredDecr(@)]
  /\ holders' = holders \ {j}
  /\ UNCHANGED active

\* rollbackScript: the slot and the submission of day d are given back.
RollbackSlot(j, d) ==
  /\ active'  = [active EXCEPT ![Owner[j]] = FlooredDecr(@)]
  /\ daily'   = [daily EXCEPT ![Owner[j]][d] = FlooredDecr(@)]
  /\ holders' = holders \ {j}

\* decrementActiveQuota of the worker, releaseScript of the runner.
ReleaseSlot(j) ==
  /\ active'  = [active EXCEPT ![Owner[j]] = FlooredDecr(@)]
  /\ holders' = holders \ {j}

(***************************************************************************)
(* The other commands.                                                     *)
(***************************************************************************)

\* HSET of the status field; it creates the hash when there is none.
WriteStatus(j, s) == status' = [status EXCEPT ![j] = s]

\* DEL of the hash.
DeleteHash(j) ==
  /\ status' = [status EXCEPT ![j] = "absent"]
  /\ deadLettered' = deadLettered \ {j}

\* INCRBYFLOAT of the tenant's daily cost by the cost of job j.
ChargeCost(j) == charges' = [charges EXCEPT ![j] = @ + 1]

\* historyTrimScript: only the newest HistoryMax items stay.
Trimmed(s) ==
  IF Len(s) > HistoryMax THEN SubSeq(s, Len(s) - HistoryMax + 1, Len(s)) ELSE s

\* appendHistoryItem: ZADD with the current time, then the trim script.
AppendHistory(j) ==
  history' = [history EXCEPT ![Owner[j]] = Trimmed(Append(@, j))]

InHistory(j) == \E i \in 1 .. Len(history[Owner[j]]) : history[Owner[j]][i] = j

\* A sequence without its i-th item.
DropItem(s, i) == SubSeq(s, 1, i - 1) \o SubSeq(s, i + 1, Len(s))

\* ZREM of a history item; a job is in the history once at most.
DropHistory(j) ==
  IF InHistory(j)
  THEN LET i == CHOOSE i \in 1 .. Len(history[Owner[j]]) : history[Owner[j]][i] = j
       IN  history' = [history EXCEPT ![Owner[j]] = DropItem(@, i)]
  ELSE UNCHANGED history

HoldersOf(t) == {j \in holders : Owner[j] = t}
=============================================================================
