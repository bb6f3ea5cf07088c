------------------------------ MODULE Analysis ------------------------------
(***************************************************************************)
(* The explanation of an execution: the API reads the job hash, asks a     *)
(* language model with retries or falls back to a heuristic, and writes    *)
(* the explanation into the hash.  Seconds pass between the read and the   *)
(* write, and the job goes on meanwhile.                                   *)
(*                                                                         *)
(* An explanation is abstracted to what it explains.  One request per job  *)
(* is followed: of several, what counts is the one that writes last.       *)
(***************************************************************************)
EXTENDS JobLifecycle

CONSTANT Calls   \* calls to the model: AI_ANALYSIS_RETRIES + 1, none without a provider

ASSUME CallsAssumption == Calls \in Nat

VARIABLES
  recorded,  \* the result field of each job hash
  analyst,   \* the analysis handler of each job
  analysis   \* the analysis field of each job hash

analysisVars  == <<recorded, analyst, analysis>>
analysedVars  == <<vars, analysisVars>>

Unasked == [at |-> "idle", about |-> "missing", calls |-> 0]
Explained(subject) == [at |-> "explained", about |-> subject, calls |-> 0]
Replied == [at |-> "replied", about |-> "missing", calls |-> 0]

AnalysisInit ==
  /\ recorded = [j \in Jobs |-> "none"]
  /\ analyst  = [j \in Jobs |-> Unasked]
  /\ analysis = [j \in Jobs |-> "none"]

\* Mutant: the status alone tells how the execution ended.
SubjectOfStatus(j) == IF status[j] \in Terminal THEN status[j] ELSE "progress"

\* What generateHeuristicExecutionAnalysis, and the model, are given to explain.
Subject(j) ==
  IF recorded[j] # "none" THEN recorded[j]
  ELSE IF status[j] = "failed" THEN "missing" ELSE "progress"

\* HGETALL; a hash without a status is not found.
ReadForAnalysis(j) ==
  /\ analyst[j].at = "idle" /\ status[j] # "absent"
  /\ analyst' = [analyst EXCEPT ![j] = [at |-> "asking", about |-> Subject(j), calls |-> 0]]
  /\ UNCHANGED <<recorded, analysis>>

\* An answer, or an error, a timeout or an answer that does not parse.
AskModel(j) ==
  /\ analyst[j].at = "asking" /\ analyst[j].calls < Calls
  /\ \/ analyst' = [analyst EXCEPT ![j] = Explained(@.about)]
     \/ analyst' = [analyst EXCEPT ![j].calls = @ + 1]
  /\ UNCHANGED <<recorded, analysis>>

FallBack(j) ==
  /\ analyst[j].at = "asking" /\ analyst[j].calls = Calls
  /\ analyst' = [analyst EXCEPT ![j] = Explained(@.about)]
  /\ UNCHANGED <<recorded, analysis>>

\* The HSET does not look whether the hash has changed, or is there at all.
StoreAnalysis(j) ==
  /\ analyst[j].at = "explained"
  /\ analysis' = [analysis EXCEPT ![j] = analyst[j].about]
  /\ analyst'  = [analyst EXCEPT ![j] = Replied]
  /\ UNCHANGED recorded

AnalysisStep(j) == ReadForAnalysis(j) \/ AskModel(j) \/ FallBack(j) \/ StoreAnalysis(j)

\* The result the job's hash gets in this step: markCompleted and
\* persistResultToRedis write it along with the status, nothing else does.
Persisted(j) ==
  {result[e] : e \in {e \in Entries : JobOf(e) = j /\ proc[e] = "executed" /\ proc'[e] = "recorded"}}
    \cup {outcome[a] : a \in {a \in TaskIds : JobOf(a[1]) = j /\ task[a] = "computed"
                                                /\ task'[a] = "recorded"}}

LifecycleStep ==
  /\ Next
  /\ recorded' = [j \in Jobs |-> IF Persisted(j) # {} THEN CHOOSE r \in Persisted(j) : TRUE
                                 ELSE IF status[j] # "absent" /\ status'[j] = "absent" THEN "none"
                                 ELSE recorded[j]]
  /\ UNCHANGED <<analyst, analysis>>

AnalysisNext == LifecycleStep \/ \E j \in Jobs : AnalysisStep(j) /\ UNCHANGED vars

AnalysisSpec == Init /\ AnalysisInit /\ [][AnalysisNext]_analysedVars
-----------------------------------------------------------------------------
\* Two runs of the replay script may queue a job twice; its copies then run side
\* by side and either may have the last word.
ReplayedOnce(j) == Cardinality({e \in Entries : JobOf(e) = j /\ queue[e] # "none"}) <= 2

\* An explanation of how the program ended is about the way the job ended for
\* good, however long it took to write and whatever was replayed meanwhile.
ExplainsTheVerdict ==
  \A j \in Jobs : analysis[j] \in Terminal /\ ReplayedOnce(j) => status[j] = analysis[j]
=============================================================================
