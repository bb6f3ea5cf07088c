-------------------------- MODULE ExecutionService --------------------------
(***************************************************************************)
(* What the engine promises its tenants, without Redis, queues, attempts   *)
(* and processes: a submission is refused only at a limit of the tenant's  *)
(* policy, an admitted one holds one of the tenant's slots until it gets   *)
(* its verdict or is given up, and the verdict is never revised.           *)
(***************************************************************************)
EXTENDS Naturals, FiniteSets

CONSTANTS Jobs, Tenants, Owner, MaxConcurrentJobs, MaxDailyJobs, LastDay

VARIABLES
  phase,       \* "new", "refused", "holding" a slot, or "settled"
  verdict,     \* "none" or the outcome a client reads
  admittedOn,  \* the day an admitted job counts for
  today

serviceVars == <<phase, verdict, admittedOn, today>>

Verdicts == {"succeeded", "failed"}

Holding(t)      == {j \in Jobs : Owner[j] = t /\ phase[j] = "holding"}
AdmittedOn(t,d) == {j \in Jobs : Owner[j] = t /\ admittedOn[j] = d
                                 /\ phase[j] \in {"holding", "settled"}}

AtLimit(t) ==
  \/ Cardinality(Holding(t)) >= MaxConcurrentJobs[t]
  \/ Cardinality(AdmittedOn(t, today)) >= MaxDailyJobs[t]

Init ==
  /\ phase      = [j \in Jobs |-> "new"]
  /\ verdict    = [j \in Jobs |-> "none"]
  /\ admittedOn = [j \in Jobs |-> 0]
  /\ today      = 0

NextDay ==
  /\ today < LastDay
  /\ today' = today + 1
  /\ UNCHANGED <<phase, verdict, admittedOn>>

Refuse(j) ==
  /\ phase[j] = "new"
  /\ AtLimit(Owner[j])
  /\ phase' = [phase EXCEPT ![j] = "refused"]
  /\ UNCHANGED <<verdict, admittedOn, today>>

Admit(j) ==
  /\ phase[j] = "new"
  /\ ~AtLimit(Owner[j])
  /\ phase' = [phase EXCEPT ![j] = "holding"]
  /\ admittedOn' = [admittedOn EXCEPT ![j] = today]
  /\ UNCHANGED <<verdict, today>>

\* The submission cannot be carried out; it leaves no trace on the quota.
GiveUp(j) ==
  /\ phase[j] = "holding"
  /\ verdict[j] = "none"
  /\ phase' = [phase EXCEPT ![j] = "refused"]
  /\ UNCHANGED <<verdict, admittedOn, today>>

Decide(j) ==
  /\ phase[j] = "holding"
  /\ verdict[j] = "none"
  /\ \E v \in Verdicts : verdict' = [verdict EXCEPT ![j] = v]
  /\ UNCHANGED <<phase, admittedOn, today>>

Settle(j) ==
  /\ phase[j] = "holding"
  /\ verdict[j] # "none"
  /\ phase' = [phase EXCEPT ![j] = "settled"]
  /\ UNCHANGED <<verdict, admittedOn, today>>

Next ==
  \/ NextDay
  \/ \E j \in Jobs : Refuse(j) \/ Admit(j) \/ GiveUp(j) \/ Decide(j) \/ Settle(j)

Spec == Init /\ [][Next]_serviceVars
=============================================================================
