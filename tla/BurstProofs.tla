----------------------------- MODULE BurstProofs -----------------------------
(***************************************************************************)
(* Bursts beside the engine.  The slots that a burst counts up front have  *)
(* owners, on either backend, whatever fails: a job of the burst is in the *)
(* hands of its handler until its entry is added, and of the queue from    *)
(* then on, where what is known of ordinary jobs holds of it: nobody gets  *)
(* past its release and leaves the slot behind.  The counter never runs    *)
(* above the slots that are held, and where workers die it is as far       *)
(* behind, and a job charged as often, as without bursts.                  *)
(***************************************************************************)
EXTENDS AdminBurst, CustodyProofs

\* The handler is still to add the entry of j.
ToAdd(j) == burst = "counted" \/ j \in remaining \/ <<j, "entry">> \in sent

Commands == {"hash", "item", "entry"}

\* The burst draws jobs that are nobody's and has each until it is on the queue.
Drawing ==
  /\ drawn \subseteq BurstJobs /\ remaining \subseteq drawn /\ sent \subseteq drawn \X Commands
  /\ burst = "idle" => drawn = {} /\ remaining = {} /\ sent = {}
  /\ \A j \in drawn : /\ api[j] = "idle"
                      /\ queue[<<j, 0>>] = "none" => ToAdd(j) \/ burst \in {"failed", "crashed"}
  /\ \A j \in Jobs \ drawn : api[j] = "idle" => queue[<<j, 0>>] = "none"

BurstInv ==
  /\ LineageInv
  /\ Returned
  /\ Drawing

LEMMA BurstInitially == Init /\ BurstInit => BurstInv
<1> SUFFICES ASSUME Init, BurstInit PROVE BurstInv
  OBVIOUS
<1>1. LineageInv /\ Returned
  BY LineageInit, ReturnedInit
<1>2. \A j \in Jobs : queue[<<j, 0>>] = "none"
  BY EntriesShape DEF Init, QueueInit
<1>3. Drawing
  BY <1>2 DEF BurstInit, Drawing
<1>4. QED
  BY <1>1, <1>3 DEF BurstInv

\* Whoever changes nothing but what Redis keeps of jobs and quotas leaves the
\* entries, their attempts and their copies as they were.
LEMMA LineageFrame ==
  ASSUME LineageInv, TypeOK', UNCHANGED <<queueVars, taskVars, workerVars, replayVars>>
  PROVE  LineageInv'
<1>1. UNCHANGED <<queue, made, starts, stalls, dlq, proc, handler, result, task, outcome, todo, current>>
  BY DEF queueVars, taskVars, workerVars, replayVars
<1>2. TypeInv'
  BY <1>1 DEF LineageInv, AttemptInv, TypeInv, ResultsKnown
<1>3. Counted'
  BY <1>1, CountedFrame DEF LineageInv, AttemptInv, Counted
<1>4. Lineage'
  BY <1>1 DEF LineageInv, Lineage, Replayed
<1>5. QED
  BY <1>2, <1>3, <1>4 DEF LineageInv, AttemptInv, Counted

LEMMA ReturnedFrame ==
  ASSUME Returned, UNCHANGED <<queueVars, taskVars, workerVars, holders>>
  PROVE  Returned'
BY DEF Returned, queueVars, taskVars, workerVars

\* A burst's step that writes no queue entry and takes no slot.
LEMMA BurstFrame ==
  ASSUME BurstInv, TypeOK', UNCHANGED <<queueVars, apiVars, taskVars, workerVars, replayVars, holders>>
  PROVE  /\ LineageInv' /\ Returned'
         /\ UNCHANGED <<queue, api>>
BY LineageFrame, ReturnedFrame DEF BurstInv, queueVars, apiVars

LEMMA CountingSlots == BurstInv /\ CountSlots => BurstInv'
<1> SUFFICES ASSUME BurstInv, CountSlots PROVE BurstInv'
  OBVIOUS
<1>1. TypeOK /\ LineageInv /\ Returned /\ Drawing
  BY DEF BurstInv, LineageInv, AttemptInv, TypeInv
<1>2. PICK B \in SUBSET {j \in BurstJobs : api[j] = "idle"} :
        /\ drawn' = B
        /\ holders' = holders \cup B
        /\ active' = [t \in Tenants |-> active[t] + Cardinality({j \in B : Owner[j] = t})]
        /\ reservedOn' = [j \in Jobs |-> IF j \in B THEN day ELSE reservedOn[j]]
  BY DEF CountSlots
<1>3. /\ burst = "idle" /\ burst' = "counted"
      /\ UNCHANGED <<status, deadLettered, daily, history, charges, queueVars, api, day,
                     taskVars, workerVars, replayVars, remaining, sent>>
  BY DEF CountSlots, BurstGoto
<1>4. \A t : Cardinality({j \in B : Owner[j] = t}) \in Nat
  <2>1. IsFiniteSet(B)
    BY BurstAssumption, FS_Subset
  <2>2. \A t : IsFiniteSet({j \in B : Owner[j] = t})
    BY <2>1, FS_Subset
  <2>3. QED
    BY <2>2, FS_CardinalityType
<1>5. StoreTypeOK'
  <2>1. active' \in [Tenants -> Nat]
    <3> DEFINE n(t) == Cardinality({j \in B : Owner[j] = t})
    <3>1. active' = [t \in Tenants |-> active[t] + n(t)] /\ \A t : n(t) \in Nat
      BY <1>2, <1>4
    <3> HIDE DEF n
    <3>2. \A t \in Tenants : active[t] + n(t) \in Nat
      BY <1>1, <3>1 DEF TypeOK, StoreTypeOK
    <3>3. QED
      BY <3>1, <3>2
  <2>2. holders' \subseteq Jobs
    BY <1>1, <1>2, BurstAssumption DEF TypeOK, StoreTypeOK
  <2>3. QED
    BY <1>1, <1>3, <2>1, <2>2 DEF TypeOK, StoreTypeOK
<1>6. ApiTypeOK'
  BY <1>1, <1>2, <1>3 DEF TypeOK, ApiTypeOK
<1>7. TypeOK'
  BY <1>1, <1>3, <1>5, <1>6, FrameType DEF TypeOK
<1>8. LineageInv'
  BY <1>1, <1>3, <1>7, LineageFrame
<1>9. \A j \in B : j \in Jobs /\ queue[<<j, 0>>] = "none"
  BY <1>1, <1>3, BurstAssumption DEF Drawing
<1>10. Returned'
  <2>1. UNCHANGED <<queue, proc, handler, task>>
    BY <1>3 DEF queueVars, taskVars, workerVars
  <2>2. \A e \in Entries : (queue[e] # "none" \/ proc[e] # "idle") /\ JobOf(e) \notin holders
          => JobOf(e) \notin holders'
    BY <1>1, <1>2, <1>9, WorkWasQueued
  <2>3. \A f \in Failures : handler[f] # "none" /\ JobOf(f[1]) \notin holders
          => JobOf(f[1]) \notin holders'
    BY <1>1, <1>2, <1>9, WorkWasQueued
  <2>4. \A a \in TaskIds : task[a] # "none" /\ TaskJob(a) \notin holders
          => TaskJob(a) \notin holders'
    BY <1>1, <1>2, <1>9, WorkWasQueued
  <2>5. QED
    BY <1>1, <2>1, <2>2, <2>3, <2>4 DEF Returned
<1>11. Drawing'
  BY <1>1, <1>2, <1>3 DEF Drawing, ToAdd, queueVars
<1>12. QED
  BY <1>8, <1>10, <1>11 DEF BurstInv

LEMMA CountingSubmissions == BurstInv /\ CountSubmissions => BurstInv'
<1> SUFFICES ASSUME BurstInv, CountSubmissions PROVE BurstInv'
  OBVIOUS
<1>1. TypeOK /\ Drawing
  BY DEF BurstInv, LineageInv, AttemptInv, TypeInv
<1>2. /\ burst = "counted" /\ burst' = "adding" /\ remaining' = drawn
      /\ UNCHANGED <<status, deadLettered, active, history, charges, holders, queueVars, apiVars,
                     taskVars, workerVars, replayVars, drawn, sent>>
  BY DEF CountSubmissions, BurstGoto
<1>3. \A t, d : Cardinality({j \in drawn : Owner[j] = t /\ reservedOn[j] = d}) \in Nat
  <2>1. IsFiniteSet(drawn)
    BY <1>1, BurstAssumption, FS_Subset DEF Drawing
  <2>2. \A t, d : IsFiniteSet({j \in drawn : Owner[j] = t /\ reservedOn[j] = d})
    BY <2>1, FS_Subset
  <2>3. QED
    BY <2>2, FS_CardinalityType
<1>4. daily' \in [Tenants -> [Days -> Nat]]
  <2> DEFINE n(t, d) == Cardinality({j \in drawn : Owner[j] = t /\ reservedOn[j] = d})
  <2>1. daily' = [t \in Tenants |-> [d \in Days |-> daily[t][d] + n(t, d)]] /\ \A t, d : n(t, d) \in Nat
    BY <1>3 DEF CountSubmissions
  <2> HIDE DEF n
  <2>2. \A t \in Tenants, d \in Days : daily[t][d] + n(t, d) \in Nat
    BY <1>1, <2>1 DEF TypeOK, StoreTypeOK
  <2>3. QED
    BY <2>1, <2>2
<1>5. TypeOK'
  BY <1>1, <1>2, <1>4, FrameType DEF TypeOK, StoreTypeOK
<1>6. LineageInv' /\ Returned' /\ UNCHANGED <<queue, api>>
  BY <1>2, <1>5, BurstFrame
<1>7. Drawing'
  BY <1>1, <1>2, <1>6 DEF Drawing, ToAdd
<1>8. QED
  BY <1>6, <1>7 DEF BurstInv

\* The handler by itself: its batches, its end and what cuts it short.
LEMMA HandlersLoop ==
  ASSUME BurstInv, NextBatch \/ ReplyQueued \/ FailCommand \/ CrashBurst
  PROVE  BurstInv'
<1>1. UNCHANGED vars /\ UNCHANGED drawn
  BY DEF NextBatch, ReplyQueued, FailCommand, CrashBurst
<1>2. TypeOK /\ Drawing
  BY DEF BurstInv, LineageInv, AttemptInv, TypeInv
<1>3. TypeOK'
  BY <1>1, <1>2, FrameType DEF TypeOK, vars
<1>4. LineageInv' /\ Returned' /\ UNCHANGED <<queue, api>>
  BY <1>1, <1>3, BurstFrame DEF vars, storeVars
<1>5. burst' # "idle" /\ remaining' \subseteq drawn /\ sent' \subseteq drawn \X Commands
  BY <1>2 DEF NextBatch, BatchOf, ReplyQueued, FailCommand, CrashBurst, BurstGoto, Drawing, Commands
<1>6. ASSUME NEW j \in drawn, ToAdd(j) \/ burst \in {"failed", "crashed"}
      PROVE  ToAdd(j)' \/ burst' \in {"failed", "crashed"}
  <2>1. CASE NextBatch
    BY <1>6, <2>1 DEF NextBatch, BatchOf, ToAdd
  <2>2. CASE ReplyQueued
    BY <1>6, <2>2 DEF ReplyQueued, BurstGoto, ToAdd
  <2>3. CASE FailCommand \/ CrashBurst
    BY <2>3 DEF FailCommand, CrashBurst
  <2>4. QED
    BY <2>1, <2>2, <2>3
<1>7. Drawing'
  BY <1>1, <1>2, <1>4, <1>5, <1>6 DEF Drawing
<1>8. QED
  BY <1>4, <1>7 DEF BurstInv

\* One command of a batch.
LEMMA CommandExecuted ==
  ASSUME BurstInv, NEW j \in BurstJobs, BurstCommand(j)
  PROVE  BurstInv'
<1>1. /\ TypeOK /\ LineageInv /\ AttemptInv /\ Returned /\ Drawing
      /\ j \in Jobs /\ <<j, 0>> \in Entries
  BY BurstAssumption, EntriesShape DEF BurstInv, LineageInv, AttemptInv, TypeInv
<1>2. CASE WriteBurstHash(j) \/ AppendBurstItem(j)
  <2>1. /\ UNCHANGED <<deadLettered, active, daily, charges, holders, queueVars, apiVars,
                       taskVars, workerVars, replayVars, burst, drawn, remaining>>
        /\ sent' \subseteq sent /\ (<<j, "entry">> \in sent' <=> <<j, "entry">> \in sent)
        /\ burst # "idle"
        /\ \A k : k # j => (<<k, "entry">> \in sent' <=> <<k, "entry">> \in sent)
    BY <1>1, <1>2 DEF WriteBurstHash, AppendBurstItem, Executed, Drawing
  <2>2. status' \in [Jobs -> Statuses] /\ history' \in [Tenants -> Seq(Jobs)]
    BY <1>1, <1>2, StoreOpsType
       DEF WriteBurstHash, AppendBurstItem, TypeOK, StoreTypeOK, Statuses
  <2>3. TypeOK'
    BY <1>1, <2>1, <2>2, FrameType DEF TypeOK, StoreTypeOK
  <2>4. LineageInv' /\ Returned' /\ UNCHANGED <<queue, api>>
    BY <2>1, <2>3, BurstFrame
  <2>5. Drawing'
    BY <1>1, <2>1, <2>4 DEF Drawing, ToAdd
  <2>6. QED
    BY <2>4, <2>5 DEF BurstInv
<1>3. CASE AddBurstEntry(j)
  <2>1. /\ Add(<<j, 0>>)
        /\ UNCHANGED <<storeVars, apiVars, taskVars, workerVars, replayVars, burst, drawn, remaining>>
        /\ sent' \subseteq sent /\ burst # "idle"
        /\ \A k : k # j => (<<k, "entry">> \in sent' <=> <<k, "entry">> \in sent)
    BY <1>1, <1>3 DEF Drawing, AddBurstEntry, Executed
  <2>2. /\ queue[<<j, 0>>] = "none" /\ queue'[<<j, 0>>] = "waiting"
        /\ \A e \in Entries : e # <<j, 0>> => queue'[e] = queue[e]
        /\ UNCHANGED <<made, starts, stalls, dlq>>
    BY <1>1, <2>1 DEF Add, Move, TypeOK, QueueTypeOK
  <2>3. UNCHANGED <<api, holders, proc, result, handler, task, outcome, todo, current>>
    BY <2>1 DEF storeVars, apiVars, taskVars, workerVars, replayVars
  <2>4. QueueTypeOK'
    BY <1>1, <2>1 DEF Add, Move, TypeOK, QueueTypeOK, QueueStates
  <2>5. TypeInv'
    BY <1>1, <2>1, <2>3, <2>4, FrameType DEF TypeOK, AttemptInv, TypeInv, ResultsKnown
  <2>6. Counted'
    BY <1>1, <2>1, <2>3, AddedCounted
  <2>7. Lineage'
    <3>1. \A e \in Entries : /\ queue[e] # "none" => queue'[e] # "none"
                             /\ queue[e] = "failed" => queue'[e] = "failed"
      BY <2>2
    <3>2. ASSUME NEW k \in Jobs, NEW r \in 0 .. MaxReplays, NEW n \in 0 .. r, queue'[<<k, r>>] # "none"
          PROVE  queue'[<<k, n>>] # "none"
      <4>1. <<k, r>> \in Entries /\ <<k, n>> \in Entries
        BY BoundsAssumption DEF Entries
      <4>2. CASE <<k, r>> = <<j, 0>>
        BY <2>2, <4>2
      <4>3. CASE <<k, r>> # <<j, 0>>
        BY <1>1, <2>2, <3>1, <3>2, <4>1, <4>3 DEF LineageInv, Lineage
      <4>4. QED
        BY <4>2, <4>3
    <3>3. \A e \in Entries : Replayed(e) => Replayed(e)'
      <4>1. \A e \in Entries, r \in 1 .. MaxReplays : <<JobOf(e), r>> \in Entries
        BY BoundsAssumption DEF Entries, JobOf
      <4>2. QED
        BY <3>1, <4>1 DEF Replayed
    <3>4. /\ dlq \subseteq Entries
          /\ \A p \in Replayers : todo[p] \subseteq Entries /\ current[p] \subseteq Entries
      BY <1>1 DEF TypeOK, QueueTypeOK, ReplayTypeOK
    <3>5. QED
      BY <1>1, <2>2, <2>3, <3>1, <3>2, <3>3, <3>4 DEF LineageInv, Lineage
  <2>8. LineageInv'
    BY <2>5, <2>6, <2>7 DEF LineageInv, AttemptInv, Counted
  <2>9. Returned'
    BY <1>1, <2>2, <2>3 DEF Returned
  <2>10. Drawing'
    <3>1. \A k \in Jobs : k # j => queue'[<<k, 0>>] = queue[<<k, 0>>]
      BY <2>2, EntriesShape
    <3>2. \A k : k # j => (ToAdd(k) <=> ToAdd(k)')
      BY <2>1 DEF ToAdd
    <3>3. j \in drawn
      BY <1>1, <1>3 DEF AddBurstEntry, Executed, Drawing
    <3>4. QED
      BY <1>1, <2>1, <2>2, <2>3, <3>1, <3>2, <3>3, BurstAssumption DEF Drawing
  <2>11. QED
    BY <2>8, <2>9, <2>10 DEF BurstInv
<1>4. QED
  BY <1>2, <1>3 DEF BurstCommand

\* The rest of the engine goes on beside the burst.
LEMMA EngineBeside == BurstInv /\ OthersSubmit => BurstInv'
<1> SUFFICES ASSUME BurstInv, OthersSubmit PROVE BurstInv'
  OBVIOUS
<1>1. TypeOK /\ LineageInv /\ Returned /\ Drawing
  BY DEF BurstInv, LineageInv, AttemptInv, TypeInv
<1>2. Next /\ UNCHANGED <<burst, drawn, remaining, sent>> /\ \A j \in drawn : api'[j] = api[j]
  BY DEF OthersSubmit, burstVars
<1>3. LineageInv'
  BY <1>1, <1>2, LineageStep
<1>4. ASSUME NEW j \in Jobs, j \notin holders, queue[<<j, 0>>] # "none"
      PROVE  j \notin holders'
  <2>1. ~Reserves(j)
    BY <1>1, <1>2, <1>4 DEF Reserves, Drawing
  <2>2. QED
    BY <1>1, <1>2, <1>4, <2>1, StepsOnQuota DEF QuotaStep, Reserves, Releases, ReleaseSlot
<1>5. Returned'
  BY <1>1, <1>2, <1>4, ReturnedStep
<1>6. ASSUME NEW j \in drawn
      PROVE  /\ api'[j] = "idle"
             /\ queue'[<<j, 0>>] = "none" => ToAdd(j)' \/ burst' \in {"failed", "crashed"}
  <2>1. <<j, 0>> \in Entries
    BY <1>1, BurstAssumption, EntriesShape DEF Drawing
  <2>2. queue'[<<j, 0>>] = "none" => queue[<<j, 0>>] = "none"
    BY <1>1, <1>2, <2>1, QueueGrows
  <2>3. QED
    BY <1>1, <1>2, <2>2 DEF Drawing, ToAdd
<1>7. ASSUME NEW j \in Jobs \ drawn, api'[j] = "idle"
      PROVE  queue'[<<j, 0>>] = "none"
  <2>1. api[j] = "idle" /\ queue[<<j, 0>>] = "none" /\ <<j, 0>> \in Entries
    BY <1>1, <1>2, <1>7, StepsOnQuota, EntriesShape DEF Drawing
  <2>2. \A k \in Jobs : EnqueueJob(k) => <<j, 0>> # <<k, 0>>
    BY <2>1 DEF EnqueueJob, Goto
  <2>3. QED
    BY <1>1, <1>2, <2>1, <2>2, QueueGrows
<1>8. Drawing'
  BY <1>1, <1>2, <1>6, <1>7 DEF Drawing
<1>9. QED
  BY <1>3, <1>5, <1>8 DEF BurstInv

LEMMA BurstStepKeeps ==
  ASSUME BurstInv, [BurstNext]_<<vars, burstVars>>
  PROVE  BurstInv'
<1>1. CASE BurstStep
  BY <1>1, CountingSlots, CountingSubmissions, HandlersLoop, CommandExecuted DEF BurstStep
<1>2. CASE OthersSubmit
  BY <1>2, EngineBeside
<1>3. CASE UNCHANGED <<vars, burstVars>>
  <2>1. TypeOK'
    BY <1>3, FrameType DEF BurstInv, LineageInv, AttemptInv, TypeInv, TypeOK, vars
  <2>2. LineageInv' /\ Returned' /\ UNCHANGED <<queue, api>>
    BY <1>3, <2>1, BurstFrame DEF vars, storeVars
  <2>3. Drawing'
    BY <1>3, <2>2 DEF BurstInv, Drawing, ToAdd, burstVars
  <2>4. QED
    BY <2>2, <2>3 DEF BurstInv
<1>4. QED
  BY <1>1, <1>2, <1>3 DEF BurstNext

\* Whatever cuts a burst or the engine short, on either backend: a slot it counted
\* up front is with the handler, the queue, a listener or a runner, unless one of
\* them broke off.
THEOREM BurstSlotsKeepOwners == BurstSpec => []BurstSlotsHaveOwners
<1>1. Init /\ BurstInit => BurstInv
  BY BurstInitially
<1>2. BurstInv /\ [BurstNext]_<<vars, burstVars>> => BurstInv'
  BY BurstStepKeeps
<1>3. BurstInv => BurstSlotsHaveOwners
  <2> SUFFICES ASSUME BurstInv, NEW j \in drawn, j \in holders
               PROVE  \/ ToAdd(j)
                      \/ \E e \in Entries : JobOf(e) = j /\ (queue[e] \in Pending \/ Listening(e))
                      \/ \E a \in TaskIds : TaskJob(a) = j
                           /\ task[a] \in {"executing", "computed", "recorded", "charged"}
                      \/ burst \in {"failed", "crashed"} /\ queue[<<j, 0>>] = "none"
                      \/ ReleaseLost(j)
    BY DEF BurstSlotsHaveOwners, ToAdd
  <2>1. CASE queue[<<j, 0>>] = "none"
    BY <2>1 DEF BurstInv, Drawing
  <2>2. CASE queue[<<j, 0>>] # "none"
    BY <2>2, HeldByOwner DEF BurstInv, ReleaseLost
  <2>3. QED
    BY <2>1, <2>2
<1>4. QED
  BY <1>1, <1>2, <1>3, PTL DEF BurstSpec

(***************************************************************************)
(* The counter beside a burst never runs above the slots that are held: a  *)
(* burst takes slots for jobs that hold none.                              *)
(***************************************************************************)

\* A job outside the burst is admitted like any other.
Outside == \A j \in Jobs \ drawn : Admitted(j)

LEMMA OutsideStep ==
  ASSUME BurstInv, Outside, [BurstNext]_<<vars, burstVars>>
  PROVE  Outside'
<1>1. LineageInv /\ Drawing /\ TypeOK
  BY DEF BurstInv, LineageInv, AttemptInv, TypeInv
<1>2. CASE OthersSubmit
  <2>1. Next /\ UNCHANGED drawn
    BY <1>2 DEF OthersSubmit, burstVars
  <2>2. \A j \in Jobs \ drawn : Admitted(j)'
    BY <1>1, <2>1, AdmittedStep DEF Outside
  <2>3. QED
    BY <2>1, <2>2 DEF Outside, Admitted, HandlerHasSlot
<1>3. CASE CountSlots
  <2>1. /\ drawn = {} /\ UNCHANGED <<queue, api>>
        /\ \E B : drawn' = B /\ holders' = holders \cup B
    BY <1>1, <1>3 DEF CountSlots, BurstGoto, Drawing, queueVars
  <2>2. QED
    BY <2>1 DEF Outside, Admitted, HandlerHasSlot
<1>4. ASSUME NEW j \in BurstJobs, AddBurstEntry(j)
      PROVE  Outside'
  <2>1. j \in drawn /\ UNCHANGED <<drawn, api, holders>>
    BY <1>1, <1>4 DEF AddBurstEntry, Executed, Drawing, apiVars, storeVars
  <2>2. \A e \in Entries : e # <<j, 0>> => queue'[e] = queue[e]
    BY <1>1, <1>4 DEF AddBurstEntry, Add, Move, TypeOK, QueueTypeOK
  <2>3. \A k \in Jobs \ drawn : queue'[<<k, 0>>] = queue[<<k, 0>>]
    BY <2>1, <2>2, EntriesShape
  <2>4. QED
    BY <2>1, <2>3 DEF Outside, Admitted, HandlerHasSlot
<1>5. CASE UNCHANGED <<holders, api, queue, drawn>>
  BY <1>5 DEF Outside, Admitted, HandlerHasSlot
<1>6. QED
  BY <1>2, <1>3, <1>4, <1>5
     DEF BurstNext, BurstStep, CountSubmissions, NextBatch, ReplyQueued, FailCommand, CrashBurst,
         BurstCommand, WriteBurstHash, AppendBurstItem, Executed, burstVars, vars, storeVars,
         apiVars, queueVars

\* A job of the burst is not submitted by anybody else.
LEMMA FreshReservations ==
  ASSUME BurstInv, Outside, OthersSubmit
  PROVE  \A j \in Jobs : api[j] = "idle" /\ api'[j] # "idle" => j \notin drawn /\ j \notin holders
BY DEF OthersSubmit, BurstInv, Drawing, Outside, Admitted

CountInv ==
  /\ BurstInv /\ Outside
  /\ IsFiniteSet(holders) /\ NeverOvercounts

LEMMA CountInvStep ==
  ASSUME CountInv, [BurstNext]_<<vars, burstVars>>
  PROVE  CountInv'
<1>1. BurstInv' /\ Outside'
  BY BurstStepKeeps, OutsideStep DEF CountInv
<1>2. /\ TypeOK /\ Drawing /\ Outside /\ BurstInv
      /\ IsFiniteSet(holders) /\ NeverOvercounts
  BY DEF CountInv, BurstInv, LineageInv, AttemptInv, TypeInv
<1>3. CASE OthersSubmit
  <2>1. \A j \in Jobs : Reserves(j) => j \notin holders
    BY <1>2, <1>3, FreshReservations DEF Reserves
  <2>2. QED
    BY <1>1, <1>2, <1>3, <2>1, CounterBelow DEF CountInv, OthersSubmit
<1>4. CASE CountSlots
  <2>1. PICK B \in SUBSET {j \in BurstJobs : api[j] = "idle"} :
          /\ holders' = holders \cup B
          /\ active' = [t \in Tenants |-> active[t] + Cardinality({j \in B : Owner[j] = t})]
    BY <1>4 DEF CountSlots
  <2>2. IsFiniteSet(B)
    BY BurstAssumption, FS_Subset
  <2>3. B \cap holders = {}
    BY <1>2, <1>4, <2>1, BurstAssumption DEF CountSlots, BurstGoto, Drawing, Outside, Admitted
  <2>4. ASSUME NEW t \in Tenants PROVE active'[t] <= Cardinality(HoldersOf(t)')
    <3> DEFINE C == {j \in B : Owner[j] = t}
    <3>1. IsFiniteSet(C) /\ Cardinality(C) \in Nat
      BY <2>2, FS_Subset, FS_CardinalityType
    <3>2. /\ HoldersOf(t)' = HoldersOf(t) \cup C /\ HoldersOf(t) \cap C = {}
          /\ active'[t] = active[t] + Cardinality(C)
      BY <2>1, <2>3 DEF HoldersOf
    <3> HIDE DEF C
    <3>3. IsFiniteSet(HoldersOf(t)) /\ Cardinality(HoldersOf(t)) \in Nat
      BY <1>2, HoldersFinite
    <3>4. Cardinality(HoldersOf(t)') = Cardinality(HoldersOf(t)) + Cardinality(C)
      <4>1. Cardinality(HoldersOf(t) \cup C)
              = Cardinality(HoldersOf(t)) + Cardinality(C) - Cardinality(HoldersOf(t) \cap C)
        BY <3>1, <3>3, FS_Union
      <4>2. Cardinality(HoldersOf(t) \cap C) = 0
        BY <3>2, FS_EmptySet
      <4>3. QED
        BY <3>1, <3>2, <3>3, <4>1, <4>2
    <3>5. active[t] \in Nat /\ active[t] <= Cardinality(HoldersOf(t))
      BY <1>2 DEF NeverOvercounts, TypeOK, StoreTypeOK
    <3>6. QED
      BY <3>1, <3>2, <3>3, <3>4, <3>5
  <2>5. IsFiniteSet(holders')
    BY <1>2, <2>1, <2>2, FS_Union
  <2>6. QED
    BY <1>1, <2>4, <2>5 DEF CountInv, NeverOvercounts
<1>5. ASSUME UNCHANGED <<active, holders>>
      PROVE  CountInv'
  BY <1>1, <1>2, <1>5 DEF CountInv, NeverOvercounts, HoldersOf
<1>6. QED
  BY <1>3, <1>4, <1>5
     DEF BurstNext, BurstStep, CountSubmissions, NextBatch, ReplyQueued, FailCommand, CrashBurst,
         BurstCommand, WriteBurstHash, AppendBurstItem, AddBurstEntry, vars, storeVars

\* Under every fault, on either backend, the counter that a burst raises by its
\* count stays at most the number of slots that are held.
THEOREM BurstsNeverOvercount == BurstSpec => []NeverOvercounts
<1>1. Init /\ BurstInit => CountInv
  <2> SUFFICES ASSUME Init, BurstInit PROVE CountInv
    OBVIOUS
  <2>1. BurstInv /\ CounterInv /\ Admission
    BY BurstInitially, CounterInit, AdmissionInit DEF AdmissionInv
  <2>2. QED
    BY <2>1 DEF CountInv, CounterInv, Outside, Admission
<1>2. CountInv /\ [BurstNext]_<<vars, burstVars>> => CountInv'
  BY CountInvStep
<1>3. CountInv => NeverOvercounts
  BY DEF CountInv
<1>4. QED
  BY <1>1, <1>2, <1>3, PTL DEF BurstSpec

(***************************************************************************)
(* Bursts while processes die, on the "local" backend: the counter and the *)
(* charges keep the bounds that they have without bursts.                  *)
(***************************************************************************)

\* A job of the burst has its slot when its entry is added.
Apart ==
  /\ Outside
  /\ \A j \in drawn : queue[<<j, 0>>] = "none" => j \in holders

BoundsInv == BurstInv /\ StartsCharge /\ BoundedDrift /\ Apart

LEMMA BoundsInitially == Init /\ BurstInit => BoundsInv
<1> SUFFICES ASSUME Init, BurstInit PROVE BoundsInv
  OBVIOUS
<1>1. BurstInv /\ StartsCharge /\ BoundedDrift /\ Admission
  BY BurstInitially, CrashChargeInit, DriftInit DEF CrashChargeInv, DriftInv, AdmissionInv
<1>2. drawn = {}
  BY DEF BurstInit
<1>3. QED
  BY <1>1, <1>2 DEF BoundsInv, Apart, Outside, Admission

\* The engine beside a burst.
LEMMA BoundsBeside ==
  ASSUME RedeliveredOnce, BoundsInv, OthersSubmit
  PROVE  BoundsInv'
<1>1. /\ BurstInv /\ Drawing /\ LineageInv /\ AttemptInv /\ TypeOK
      /\ StartsCharge /\ BoundedDrift /\ Apart /\ MaxReplays = 0
  BY DEF BoundsInv, BurstInv, LineageInv, AttemptInv, TypeInv, RedeliveredOnce
<1>2. Next /\ UNCHANGED drawn /\ \A j \in drawn : api'[j] = api[j]
  BY DEF OthersSubmit, burstVars
<1>3. BurstInv'
  BY <1>1, EngineBeside
<1>4. StartsCharge'
  BY <1>1, <1>2, CrashChargeStep DEF CrashChargeInv
<1>5. OrderlyHandlers
  <2> SUFFICES ASSUME NEW j \in Jobs
               PROVE  /\ HandlerHasSlot(j) => j \in holders
                      /\ api[j] = "failing" => queue[<<j, 0>>] = "none"
                      /\ ReserveQuota(j) => j \notin holders
    BY DEF OrderlyHandlers
  <2>1. j \in drawn => ~HandlerHasSlot(j) /\ api[j] # "failing"
    BY <1>1 DEF Drawing, HandlerHasSlot
  <2>2. /\ HandlerHasSlot(j) => j \in holders
        /\ api[j] = "failing" => queue[<<j, 0>>] = "none"
    BY <1>1, <2>1 DEF Apart, Outside, Admitted
  <2>3. ReserveQuota(j) => api[j] = "idle" /\ api'[j] # "idle"
    BY <1>1 DEF ReserveQuota, Goto, TypeOK, ApiTypeOK
  <2>4. ReserveQuota(j) => j \notin holders
    BY <1>1, <2>3, FreshReservations DEF Apart
  <2>5. QED
    BY <2>2, <2>4
<1>6. BoundedDrift'
  BY <1>1, <1>2, <1>5, BoundedDriftStep
<1>7. Outside'
  BY <1>1, OutsideStep DEF Apart, BurstNext
<1>8. ASSUME NEW j \in drawn, queue'[<<j, 0>>] = "none"
      PROVE  j \in holders'
  <2>1. j \in Jobs /\ <<j, 0>> \in Entries /\ api[j] = "idle" /\ api'[j] = "idle"
    BY <1>1, <1>2, BurstAssumption, EntriesShape DEF Drawing
  <2>2. queue[<<j, 0>>] = "none" /\ j \in holders
    BY <1>1, <1>2, <1>8, <2>1, QueueGrows DEF Apart
  <2>3. ~Releases(j)
    BY <1>1, <2>1, <2>2, ReleasedWasQueued DEF Releases
  <2>4. QED
    BY <1>1, <1>2, <2>2, <2>3, StepsOnQuota DEF QuotaStep, Reserves, Releases, ReleaseSlot
<1>9. Apart'
  BY <1>2, <1>7, <1>8 DEF Apart
<1>10. QED
  BY <1>3, <1>4, <1>6, <1>9 DEF BoundsInv

\* A step that leaves the counter and the entries alone.
LEMMA BoundsFrame ==
  ASSUME BoundsInv, UNCHANGED <<active, holders, charges, api, queue, stalls, proc, handler>>
  PROVE  StartsCharge' /\ BoundedDrift' /\ (UNCHANGED drawn => Apart')
<1>1. StartsCharge'
  BY DEF BoundsInv, StartsCharge, EntryCharged
<1>2. \A t : HoldersOf(t)' = HoldersOf(t) /\ Drifted(t)' = Drifted(t)
  BY DEF HoldersOf, Drifted, EntryReleased
<1>3. FirstStartHolds' /\ Queued' = Queued
  BY DEF BoundsInv, BoundedDrift, FirstStartHolds, EntryReleased, Queued
<1>4. BoundedDrift'
  BY <1>2, <1>3 DEF BoundsInv, BoundedDrift
<1>5. UNCHANGED drawn => Apart'
  BY DEF BoundsInv, Apart, Outside, Admitted, HandlerHasSlot
<1>6. QED
  BY <1>1, <1>4, <1>5

\* A burst takes as many slots as it counts.
LEMMA BoundsCounted ==
  ASSUME BoundsInv, CountSlots
  PROVE  BoundsInv'
<1>1. /\ BurstInv /\ Drawing /\ AttemptInv /\ TypeOK
      /\ StartsCharge /\ BoundedDrift /\ Apart
  BY DEF BoundsInv, BurstInv, LineageInv, AttemptInv, TypeInv
<1>2. PICK B \in SUBSET {j \in BurstJobs : api[j] = "idle"} :
        /\ drawn' = B
        /\ holders' = holders \cup B
        /\ active' = [t \in Tenants |-> active[t] + Cardinality({j \in B : Owner[j] = t})]
  BY DEF CountSlots
<1>3. /\ burst = "idle" /\ drawn = {}
      /\ UNCHANGED <<charges, api, queue, stalls, proc, handler>>
  BY <1>1 DEF CountSlots, BurstGoto, Drawing, queueVars, workerVars
<1>4. BurstInv'
  BY <1>1, CountingSlots
<1>5. StartsCharge'
  BY <1>1, <1>3 DEF StartsCharge, EntryCharged
<1>6. IsFiniteSet(B)
  BY BurstAssumption, FS_Subset
<1>7. ASSUME NEW t \in Tenants
      PROVE  Cardinality(HoldersOf(t)') <= active'[t] + Cardinality(Drifted(t)')
  <2> DEFINE C == {j \in B : Owner[j] = t}
  <2>1. IsFiniteSet(C) /\ Cardinality(C) \in Nat
    BY <1>6, FS_Subset, FS_CardinalityType
  <2>2. HoldersOf(t)' = HoldersOf(t) \cup C /\ active'[t] = active[t] + Cardinality(C)
    BY <1>2 DEF HoldersOf
  <2> HIDE DEF C
  <2>3. IsFiniteSet(HoldersOf(t)) /\ Cardinality(HoldersOf(t)) \in Nat
    BY <1>1, HoldersFinite DEF BoundedDrift
  <2>4. Cardinality(HoldersOf(t) \cap C) \in Nat
    BY <2>1, FS_Subset, FS_CardinalityType
  <2>5. Cardinality(HoldersOf(t)') <= Cardinality(HoldersOf(t)) + Cardinality(C)
    BY <2>1, <2>2, <2>3, <2>4, FS_Union
  <2>6. Drifted(t)' = Drifted(t) /\ Cardinality(Drifted(t)) \in Nat /\ active[t] \in Nat
    <3>1. Drifted(t)' = Drifted(t)
      BY <1>3 DEF Drifted, EntryReleased
    <3>2. QED
      BY <1>1, <3>1, DriftedFinite DEF BoundedDrift, TypeOK, StoreTypeOK
  <2>7. Cardinality(HoldersOf(t)) <= active[t] + Cardinality(Drifted(t))
    BY <1>1 DEF BoundedDrift
  <2>8. Cardinality(HoldersOf(t)') \in Nat
    BY <2>1, <2>2, <2>3, FS_Union, FS_CardinalityType
  <2>9. QED
    BY <2>1, <2>2, <2>3, <2>5, <2>6, <2>7, <2>8
<1>8. IsFiniteSet(holders') /\ Queued' = Queued
  BY <1>1, <1>2, <1>3, <1>6, FS_Union DEF BoundedDrift, Queued
<1>9. FirstStartHolds'
  BY <1>1, <1>2, <1>3 DEF BoundedDrift, FirstStartHolds, EntryReleased
<1>10. BoundedDrift'
  BY <1>1, <1>7, <1>8, <1>9 DEF BoundedDrift
<1>11. Apart'
  BY <1>1, <1>2, OutsideStep DEF Apart, BurstNext, BurstStep
<1>12. QED
  BY <1>4, <1>5, <1>10, <1>11 DEF BoundsInv

\* An entry comes on the queue with its job's slot held.
LEMMA BoundsAdded ==
  ASSUME BoundsInv, NEW j \in BurstJobs, AddBurstEntry(j)
  PROVE  BoundsInv'
<1>1. /\ BurstInv /\ Drawing /\ LineageInv /\ AttemptInv /\ TypeOK
      /\ StartsCharge /\ BoundedDrift /\ Apart
      /\ j \in Jobs /\ <<j, 0>> \in Entries
  BY BurstAssumption, EntriesShape DEF BoundsInv, BurstInv, LineageInv, AttemptInv, TypeInv
<1>2. /\ queue[<<j, 0>>] = "none" /\ queue'[<<j, 0>>] = "waiting"
      /\ \A e \in Entries : e # <<j, 0>> => queue'[e] = queue[e]
      /\ UNCHANGED <<active, holders, charges, api, stalls, proc, handler, drawn>>
  BY <1>1
     DEF AddBurstEntry, Executed, Add, Move, TypeOK, QueueTypeOK, storeVars, apiVars, workerVars
<1>3. BurstInv'
  BY <1>1, CommandExecuted DEF BurstCommand
<1>4. j \in drawn /\ j \in holders
  BY <1>1, <1>2 DEF AddBurstEntry, Executed, Drawing, Apart
<1>5. stalls[<<j, 0>>] = 0
  BY <1>1, <1>2 DEF AttemptInv, AttemptsCounted
<1>6. \A e \in Entries : /\ EntryCharged(e)' <=> EntryCharged(e)
                         /\ e # <<j, 0>> => (EntryReleased(e)' <=> EntryReleased(e))
  BY <1>2 DEF EntryCharged, EntryReleased
<1>7. StartsCharge'
  <2>1. \A e \in Entries : charges'[JobOf(e)] <= stalls'[e] + (IF EntryCharged(e)' THEN 1 ELSE 0)
    BY <1>1, <1>2, <1>6 DEF StartsCharge
  <2>2. QED
    BY <2>1 DEF StartsCharge, EntryCharged
<1>8. \A t : HoldersOf(t)' = HoldersOf(t) /\ Drifted(t)' = Drifted(t)
  <2>1. \A e \in Entries : (stalls'[e] > 0 /\ EntryReleased(e)') <=> (stalls[e] > 0 /\ EntryReleased(e))
    BY <1>2, <1>5, <1>6
  <2>2. \A t : Drifted(t)' = {e \in Entries : Owner[JobOf(e)] = t /\ stalls'[e] > 0 /\ EntryReleased(e)'}
    BY DEF Drifted, EntryReleased
  <2>3. \A t : Drifted(t)' = Drifted(t)
    BY <2>1, <2>2 DEF Drifted
  <2>4. QED
    BY <1>2, <2>3 DEF HoldersOf
<1>9. IsFiniteSet(Queued')
  <2>1. Queued' \subseteq Queued \cup {<<j, 0>>}
    BY <1>2 DEF Queued
  <2>2. QED
    BY <1>1, <2>1, FS_AddElement, FS_Subset DEF BoundedDrift
<1>10. FirstStartHolds'
  <2> SUFFICES ASSUME NEW e \in Entries, queue'[e] # "none", ~EntryReleased(e)', stalls'[e] = 0
               PROVE  JobOf(e) \in holders'
    BY DEF FirstStartHolds, EntryReleased
  <2>1. CASE e = <<j, 0>>
    BY <1>2, <1>4, <2>1 DEF JobOf
  <2>2. CASE e # <<j, 0>>
    BY <1>1, <1>2, <1>6, <2>2 DEF BoundedDrift, FirstStartHolds
  <2>3. QED
    BY <2>1, <2>2
<1>11. BoundedDrift'
  BY <1>1, <1>2, <1>8, <1>9, <1>10 DEF BoundedDrift
<1>12. Apart'
  <2>1. Outside'
    BY <1>1, OutsideStep DEF Apart, BurstNext, BurstStep, BurstCommand
  <2>2. \A i \in drawn : i # j => queue'[<<i, 0>>] = queue[<<i, 0>>]
    BY <1>1, <1>2, BurstAssumption, EntriesShape DEF Drawing
  <2>3. QED
    BY <1>1, <1>2, <1>4, <2>1, <2>2 DEF Apart
<1>13. QED
  BY <1>3, <1>7, <1>11, <1>12 DEF BoundsInv

LEMMA BoundsStep ==
  ASSUME RedeliveredOnce, BoundsInv, [BurstNext]_<<vars, burstVars>>
  PROVE  BoundsInv'
<1>1. BurstInv'
  BY BurstStepKeeps DEF BoundsInv
<1>2. ASSUME UNCHANGED <<active, holders, charges, api, queue, stalls, proc, handler, drawn>>
      PROVE  BoundsInv'
  BY <1>1, <1>2, BoundsFrame DEF BoundsInv
<1>3. ASSUME NEW j \in BurstJobs, WriteBurstHash(j) \/ AppendBurstItem(j)
      PROVE  BoundsInv'
  BY <1>2, <1>3
     DEF WriteBurstHash, AppendBurstItem, Executed, apiVars, queueVars, workerVars
<1>4. CASE CountSubmissions
  BY <1>2, <1>4 DEF CountSubmissions, apiVars, queueVars, workerVars
<1>5. CASE NextBatch \/ ReplyQueued \/ FailCommand \/ CrashBurst \/ UNCHANGED <<vars, burstVars>>
  BY <1>2, <1>5
     DEF NextBatch, ReplyQueued, FailCommand, CrashBurst, burstVars, vars, storeVars, apiVars,
         queueVars, workerVars
<1>6. QED
  BY <1>3, <1>4, <1>5, BoundsBeside, BoundsCounted, BoundsAdded
     DEF BurstNext, BurstStep, BurstCommand

\* However workers of the "local" backend and API processes die, also in the middle
\* of a burst, a job is charged once for its result and once more if it was
\* redelivered.
THEOREM BurstsChargeOnce ==
  ASSUME RedeliveredOnce
  PROVE  BurstSpec => []ChargesBounded
<1>1. BoundsInv /\ [BurstNext]_<<vars, burstVars>> => BoundsInv'
  BY BoundsStep
<1>2. BoundsInv => ChargesBounded
  BY ChargesAreBounded DEF BoundsInv, BurstInv, LineageInv, CrashChargeInv
<1>3. QED
  BY <1>1, <1>2, BoundsInitially, PTL DEF BurstSpec

\* Under the same assumptions the counter that a burst raises by its count falls
\* behind the slots that are held by one for each redelivered entry at most.
THEOREM BurstsDriftOnce ==
  ASSUME RedeliveredOnce
  PROVE  BurstSpec => []DriftBounded
<1>1. BoundsInv /\ [BurstNext]_<<vars, burstVars>> => BoundsInv'
  BY BoundsStep
<1>2. BoundsInv => DriftBounded
  BY DriftIsBounded DEF BoundsInv, BurstInv, LineageInv
<1>3. QED
  BY <1>1, <1>2, BoundsInitially, PTL DEF BurstSpec
=============================================================================
