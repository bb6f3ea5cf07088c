--------------------------- MODULE PipelineProofs ---------------------------
(***************************************************************************)
(* What a runner reports is what its pipeline came to, and its children    *)
(* keep to the time limit, for every plan, every time limit and every      *)
(* fleet.  The argument goes along the labels of a pipeline: which codes   *)
(* it has gathered, and how its clock and its timer add up, at each.       *)
(***************************************************************************)
EXTENDS Autoscaling, JobLifecycleProofs

Labels == {"parsing", "ready", "running", "exited", "decided", "threw"}
Codes  == {"zero", "other", "killed"}
Insides ==
  [at: Labels, steps: Nat, codes: Seq(Codes), clock: Nat, left: Nat, late: BOOLEAN, held: BOOLEAN]

Gathered(r) == Len(r.codes)

\* The first n children ended with zero.
ZeroUpTo(r, n) == \A i \in 1 .. n : r.codes[i] = "zero"

\* A step is run only after all before it ended with zero and in time.
StepsInOrder(r) ==
  /\ r.at = "parsing" => r.codes = <<>> /\ r.clock = 0 /\ ~r.late
  /\ r.at \in {"ready", "running"} =>
       Gathered(r) < r.steps /\ ZeroUpTo(r, Gathered(r)) /\ ~r.late
  /\ r.at \in {"exited", "decided"} =>
       Gathered(r) \in 1 .. r.steps /\ ZeroUpTo(r, Gathered(r) - 1)
  /\ r.at = "decided" => r.late \/ r.codes[Gathered(r)] # "zero" \/ Gathered(r) = r.steps

\* With k children behind it, a pipeline is at most k units past its limit when
\* the timer of the next one fires.
ClockBounded(r) ==
  /\ r.at = "ready" => r.clock < TimeLimit + Gathered(r)
  /\ r.at = "running" => r.clock + r.left <= TimeLimit + Gathered(r)
  /\ r.at = "exited" /\ ~r.late => r.clock + r.left < TimeLimit + Gathered(r)
  /\ r.at \in {"exited", "decided"} /\ ~Lingering => ~r.held /\ r.clock < TimeLimit + Gathered(r)

Earned(r) == r.codes = [n \in 1 .. r.steps |-> "zero"] /\ ~r.late

\* Only a runner that is done executing has a result or has thrown.
ResultsAfterExecution ==
  \A a \in TaskIds : outcome[a] # "none" \/ a \in fallback => task[a] \notin {"none", "executing"}

PipelineInv ==
  /\ TaskTypeOK /\ ResultsAfterExecution
  /\ inside \in [TaskIds -> Insides]
  /\ \A a \in TaskIds :
       /\ StepsInOrder(inside[a]) /\ ClockBounded(inside[a])
       /\ outcome[a] = "succeeded" => Earned(inside[a])

LEMMA PipelineInvInit == Init /\ PipelineInit => PipelineInv
<1> SUFFICES ASSUME Init, PipelineInit PROVE PipelineInv
  OBVIOUS
<1>1. TaskTypeOK /\ ResultsAfterExecution /\ \A a \in TaskIds : outcome[a] = "none"
  BY DEF Init, TaskInit, TaskTypeOK, TaskStates, Outcomes, ResultsAfterExecution
<1>2. inside \in [TaskIds -> Insides]
  <2>1. <<>> \in Seq(Codes)
    OBVIOUS
  <2>2. QED
    BY <2>1 DEF PipelineInit, Insides, Labels
<1>3. \A a \in TaskIds : inside[a].at = "parsing" /\ inside[a].codes = <<>>
                          /\ inside[a].clock = 0 /\ ~inside[a].late
  BY DEF PipelineInit
<1>4. \A a \in TaskIds : StepsInOrder(inside[a]) /\ ClockBounded(inside[a])
  BY <1>3 DEF StepsInOrder, ClockBounded
<1>5. QED
  BY <1>1, <1>2, <1>4 DEF PipelineInv

(***************************************************************************)
(* The pipeline's own steps.                                               *)
(***************************************************************************)

\* A step of one pipeline keeps the invariant if it leaves that pipeline in order.
LEMMA BecomeInv ==
  ASSUME PipelineInv, NEW a \in TaskIds, NEW new \in Insides, Become(a, new),
         task[a] = "executing", UNCHANGED vars, StepsInOrder(new), ClockBounded(new)
  PROVE  PipelineInv'
<1>1. UNCHANGED <<task, outcome, fallback>>
  BY DEF vars, taskVars
<1>2. TaskTypeOK' /\ ResultsAfterExecution'
  BY <1>1 DEF PipelineInv, TaskTypeOK, ResultsAfterExecution
<1>3. inside' \in [TaskIds -> Insides] /\ inside'[a] = new
      /\ \A b \in TaskIds : b # a => inside'[b] = inside[b]
  BY DEF PipelineInv, Become
<1>4. outcome[a] = "none"
  BY DEF PipelineInv, ResultsAfterExecution
<1>5. \A b \in TaskIds :
        /\ StepsInOrder(inside'[b]) /\ ClockBounded(inside'[b])
        /\ outcome'[b] = "succeeded" => Earned(inside'[b])
  BY <1>1, <1>3, <1>4 DEF PipelineInv
<1>6. QED
  BY <1>2, <1>3, <1>5 DEF PipelineInv, StepsInOrder, ClockBounded, Earned, ZeroUpTo, Gathered

\* A child ends in order, by itself or killed when its time is up.
LEMMA EndedInv ==
  ASSUME PipelineInv, NEW a \in TaskIds, NEW code \in Codes, NEW late \in BOOLEAN,
         At(a, "running"), Ended(a, code, late), UNCHANGED vars, late => inside[a].left = 0,
         ~late => code # "killed"
  PROVE  PipelineInv'
<1> DEFINE r == inside[a]
<1>1. r \in Insides /\ task[a] = "executing" /\ r.at = "running"
      /\ StepsInOrder(r) /\ ClockBounded(r)
  BY DEF PipelineInv, At
<1>2. PICK held \in {FALSE, Lingering} :
        Become(a, [r EXCEPT !.at = "exited", !.codes = Append(@, code), !.late = late, !.held = held])
  BY DEF Ended
<1> DEFINE new == [r EXCEPT !.at = "exited", !.codes = Append(@, code), !.late = late, !.held = held]
<1>3. r.codes \in Seq(Codes) /\ r.clock \in Nat /\ r.left \in Nat /\ r.steps \in Nat
  BY <1>1 DEF Insides
<1>4. new.codes \in Seq(Codes) /\ Len(new.codes) = Len(r.codes) + 1
      /\ \A i \in 1 .. Len(r.codes) : new.codes[i] = r.codes[i]
  BY <1>1, <1>3 DEF Insides
<1>5. new \in Insides
  BY <1>1, <1>4, PipelineAssumption DEF Insides, Labels
<1>6. /\ new.at = "exited" /\ new.late = late /\ new.held = held
      /\ new.clock = r.clock /\ new.left = r.left /\ new.steps = r.steps
  BY <1>1 DEF Insides
<1>7. Len(r.codes) \in Nat /\ Len(new.codes) \in Nat
  BY <1>3, <1>4
<1>8. ~Lingering => ~held
  OBVIOUS
<1> HIDE DEF r, new
<1>9. StepsInOrder(new)
  BY <1>1, <1>3, <1>4, <1>6, <1>7 DEF StepsInOrder, ZeroUpTo, Gathered
<1>10. r.clock + r.left <= TimeLimit + Len(r.codes)
  BY <1>1 DEF ClockBounded, Gathered
<1>11. r.clock + r.left < TimeLimit + Len(new.codes) /\ r.clock < TimeLimit + Len(new.codes)
  BY <1>3, <1>4, <1>7, <1>10, PipelineAssumption
<1>12. ClockBounded(new)
  BY <1>6, <1>8, <1>11 DEF ClockBounded, Gathered
<1>13. QED
  BY <1>1, <1>2, <1>5, <1>9, <1>12, BecomeInv DEF r, new

LEMMA PipelineStepInv ==
  ASSUME PipelineInv, NEW a \in TaskIds, PipelineStep(a) \/ ProgramStep(a), UNCHANGED vars
  PROVE  PipelineInv'
<1>1. PICK r \in Insides : r = inside[a]
  BY DEF PipelineInv
<1>2. StepsInOrder(r) /\ ClockBounded(r)
  BY <1>1 DEF PipelineInv
<1>3. /\ r.codes \in Seq(Codes) /\ r.clock \in Nat /\ r.left \in Nat /\ r.steps \in Nat
      /\ r.late \in BOOLEAN /\ r.held \in BOOLEAN /\ r.at \in Labels
  BY DEF Insides
<1>4. Len(r.codes) \in Nat
  BY <1>3
<1>5. ASSUME NEW new \in Insides, Become(a, new), task[a] = "executing",
             StepsInOrder(new), ClockBounded(new)
      PROVE  PipelineInv'
  BY <1>5, BecomeInv
<1>6. CASE Prepare(a)
  <2>1. PICK n \in Plans : Become(a, [r EXCEPT !.at = "ready", !.steps = n])
    BY <1>1, <1>6 DEF Prepare
  <2>2. n \in Nat /\ n > 0
    BY PipelineAssumption
  <2>3. PICK new \in Insides : new = [r EXCEPT !.at = "ready", !.steps = n]
    BY <2>2 DEF Insides, Labels
  <2>4. /\ new.at = "ready" /\ new.steps = n /\ new.codes = r.codes /\ new.clock = r.clock
        /\ new.late = r.late
    BY <2>3 DEF Insides
  <2>5. task[a] = "executing" /\ r.codes = <<>> /\ r.clock = 0 /\ ~r.late
    BY <1>1, <1>2, <1>6 DEF Prepare, At, StepsInOrder
  <2>6. StepsInOrder(new) /\ ClockBounded(new)
    BY <2>2, <2>4, <2>5, PipelineAssumption DEF StepsInOrder, ClockBounded, ZeroUpTo, Gathered
  <2>7. QED
    BY <1>5, <2>1, <2>3, <2>5, <2>6
<1>7. CASE Spawn(a)
  <2>1. PICK n \in Int : n = TimeLimit - r.clock
    BY <1>3, PipelineAssumption
  <2>2. PICK left \in Nat : left = IF n < 1 THEN 1 ELSE n
    BY <2>1
  <2>3. Become(a, [r EXCEPT !.at = "running", !.left = left])
    BY <1>1, <1>7, <2>1, <2>2 DEF Spawn
  <2>4. PICK new \in Insides : new = [r EXCEPT !.at = "running", !.left = left]
    BY DEF Insides, Labels
  <2>5. /\ new.at = "running" /\ new.left = left /\ new.steps = r.steps /\ new.codes = r.codes
        /\ new.clock = r.clock /\ new.late = r.late
    BY <2>4 DEF Insides
  <2>6. task[a] = "executing" /\ r.at = "ready" /\ r.clock < TimeLimit + Len(r.codes)
    BY <1>1, <1>2, <1>7 DEF Spawn, At, ClockBounded, Gathered
  <2>7. r.clock + left <= TimeLimit + Len(r.codes)
    BY <1>3, <1>4, <2>1, <2>2, <2>6, PipelineAssumption
  <2>8. StepsInOrder(new)
    BY <1>2, <2>5, <2>6 DEF StepsInOrder, ZeroUpTo, Gathered
  <2>9. ClockBounded(new)
    BY <2>5, <2>7 DEF ClockBounded, Gathered
  <2>10. QED
    BY <1>5, <2>3, <2>4, <2>6, <2>8, <2>9
<1>8. CASE Tick(a)
  <2>1. PICK left \in Nat : left = IF r.left > 0 THEN r.left - 1 ELSE 0
    BY <1>3
  <2>2. PICK clock \in Nat : clock = r.clock + 1
    BY <1>3
  <2>3. Become(a, [r EXCEPT !.clock = clock, !.left = left])
    BY <1>1, <1>8, <2>1, <2>2 DEF Tick
  <2>4. PICK new \in Insides : new = [r EXCEPT !.clock = clock, !.left = left]
    BY DEF Insides
  <2>5. /\ new.at = r.at /\ new.left = left /\ new.steps = r.steps /\ new.codes = r.codes
        /\ new.clock = clock /\ new.late = r.late /\ new.held = r.held
    BY <2>4 DEF Insides
  <2>6. /\ task[a] = "executing" /\ (r.at = "running" \/ (r.at = "exited" /\ r.held))
        /\ (r.left > 0 \/ r.late)
    BY <1>1, <1>8 DEF Tick, At
  <2>7. StepsInOrder(new)
    BY <1>2, <2>5, <2>6 DEF StepsInOrder, ZeroUpTo, Gathered
  <2>8. r.left > 0 => clock + left = r.clock + r.left
    BY <1>3, <2>1, <2>2
  <2>9. r.at = "running" => ~r.late
    BY <1>2 DEF StepsInOrder
  <2>10. ClockBounded(new)
    BY <1>2, <2>5, <2>6, <2>8, <2>9 DEF ClockBounded, Gathered
  <2>11. QED
    BY <1>5, <2>3, <2>4, <2>6, <2>7, <2>10
<1>9. CASE TimerFires(a)
  <2>1. CASE At(a, "running")
    <3>1. Ended(a, "killed", TRUE) /\ inside[a].left = 0
      BY <1>9, <2>1 DEF TimerFires, At
    <3>2. QED
      BY <2>1, <3>1, EndedInv DEF Codes
  <2>2. CASE At(a, "exited")
    <3>1. Become(a, [r EXCEPT !.late = TRUE])
      BY <1>1, <1>9, <2>2 DEF TimerFires, At
    <3>2. PICK new \in Insides : new = [r EXCEPT !.late = TRUE]
      BY DEF Insides
    <3>3. /\ new.at = r.at /\ new.steps = r.steps /\ new.codes = r.codes
          /\ new.clock = r.clock /\ new.late /\ new.held = r.held
      BY <3>2 DEF Insides
    <3>4. task[a] = "executing" /\ r.at = "exited"
      BY <1>1, <2>2 DEF At
    <3>5. StepsInOrder(new) /\ ClockBounded(new)
      BY <1>2, <3>3, <3>4 DEF StepsInOrder, ClockBounded, ZeroUpTo, Gathered
    <3>6. QED
      BY <1>5, <3>1, <3>2, <3>4, <3>5
  <2>3. QED
    BY <1>9, <2>1, <2>2 DEF TimerFires
<1>10. CASE Close(a)
  <2>1. PICK at \in {"decided", "ready"} :
          at = IF r.late \/ LastCode(a) # "zero" \/ LastStep(a) THEN "decided" ELSE "ready"
    OBVIOUS
  <2>2. Become(a, [r EXCEPT !.at = at])
    BY <1>1, <1>10, <2>1 DEF Close
  <2>3. PICK new \in Insides : new = [r EXCEPT !.at = at]
    BY DEF Insides, Labels
  <2>4. /\ new.at = at /\ new.steps = r.steps /\ new.codes = r.codes
        /\ new.clock = r.clock /\ new.late = r.late /\ new.held = r.held
    BY <2>3 DEF Insides
  <2>5. task[a] = "executing" /\ r.at = "exited" /\ Gathered(r) \in 1 .. r.steps
        /\ ZeroUpTo(r, Gathered(r) - 1)
    BY <1>1, <1>2, <1>10 DEF Close, At, StepsInOrder
  <2>6. /\ at = "decided" => r.late \/ r.codes[Gathered(r)] # "zero" \/ Gathered(r) = r.steps
        /\ at = "ready" => ~r.late /\ r.codes[Gathered(r)] = "zero" /\ Gathered(r) # r.steps
    BY <1>1, <2>1 DEF LastCode, LastStep, Gathered
  <2>7. at = "ready" => Gathered(r) < r.steps /\ ZeroUpTo(r, Gathered(r))
    BY <1>3, <1>4, <2>5, <2>6 DEF ZeroUpTo, Gathered
  <2>8. StepsInOrder(new)
    BY <2>4, <2>5, <2>6, <2>7 DEF StepsInOrder, ZeroUpTo, Gathered
  <2>9. at = "ready" => r.clock < TimeLimit + Len(r.codes)
    BY <1>2, <1>3, <1>4, <2>5, <2>6, PipelineAssumption DEF ClockBounded, Gathered
  <2>10. ClockBounded(new)
    BY <1>2, <2>4, <2>5, <2>9 DEF ClockBounded, Gathered
  <2>11. QED
    BY <1>5, <2>2, <2>3, <2>5, <2>8, <2>10
<1>11. CASE OutputReleased(a)
  <2>1. Become(a, [r EXCEPT !.held = FALSE])
    BY <1>1, <1>11 DEF OutputReleased
  <2>2. PICK new \in Insides : new = [r EXCEPT !.held = FALSE]
    BY DEF Insides
  <2>3. /\ new.at = r.at /\ new.steps = r.steps /\ new.codes = r.codes /\ new.left = r.left
        /\ new.clock = r.clock /\ new.late = r.late /\ ~new.held
    BY <2>2 DEF Insides
  <2>4. task[a] = "executing"
    BY <1>11 DEF OutputReleased, At
  <2>5. StepsInOrder(new) /\ ClockBounded(new)
    BY <1>2, <2>3 DEF StepsInOrder, ClockBounded, ZeroUpTo, Gathered
  <2>6. QED
    BY <1>5, <2>1, <2>2, <2>4, <2>5
<1>12. CASE ChildExits(a)
  <2>1. PICK code \in {"zero", "other"} : Ended(a, code, FALSE)
    BY <1>12 DEF ChildExits
  <2>2. code \in Codes /\ code # "killed" /\ At(a, "running")
    BY <1>12 DEF ChildExits, Codes
  <2>3. QED
    BY <2>1, <2>2, EndedInv
<1>13. CASE ExecutionThrows(a)
  <2>1. Become(a, [r EXCEPT !.at = "threw"]) /\ task[a] = "executing"
    BY <1>1, <1>13 DEF ExecutionThrows, At
  <2>2. PICK new \in Insides : new = [r EXCEPT !.at = "threw"]
    BY DEF Insides, Labels
  <2>3. new.at = "threw"
    BY <2>2 DEF Insides
  <2>4. StepsInOrder(new) /\ ClockBounded(new)
    BY <2>3 DEF StepsInOrder, ClockBounded
  <2>5. QED
    BY <1>5, <2>1, <2>2, <2>4
<1>14. QED
  BY <1>6, <1>7, <1>8, <1>9, <1>10, <1>11, <1>12, <1>13 DEF PipelineStep, ProgramStep

(***************************************************************************)
(* The steps of the engine.                                                *)
(***************************************************************************)

\* What a step may do to a task: nothing, launch it, end its execution with a
\* result or in the catch block, kill it, or take it on after that.
TaskMove(a) ==
  \/ task'[a] = task[a] /\ outcome'[a] = outcome[a] /\ (a \in fallback' => a \in fallback)
  \/ /\ task[a] = "none" /\ task'[a] = "executing"
     /\ outcome'[a] = outcome[a] /\ (a \in fallback' => a \in fallback)
  \/ /\ task[a] = "executing" /\ task'[a] = "computed"
     /\ outcome'[a] = "failed" \/ (a \in fallback' => a \in fallback)
  \/ /\ task[a] = "executing" /\ task'[a] = "dead"
     /\ outcome'[a] = outcome[a]
  \/ /\ task[a] \notin {"none", "executing"} /\ task'[a] \notin {"none", "executing"}
     /\ outcome'[a] \in {outcome[a], "failed"}

LEMMA RunnerMoves ==
  ASSUME TaskTypeOK, NEW b \in TaskIds, RunTask(b) \/ BreakTask(b)
  PROVE  TaskTypeOK' /\ \A a \in TaskIds : TaskMove(a)
<1>1. ASSUME NEW from, NEW to \in TaskStates, Advance(b, from, to)
      PROVE  /\ task' \in [TaskIds -> TaskStates] /\ task[b] = from /\ task'[b] = to
             /\ \A a \in TaskIds : a # b => task'[a] = task[a]
  BY <1>1 DEF Advance, TaskTypeOK
<1>2. CASE ExecuteUserCode(b)
  <2>1. task' \in [TaskIds -> TaskStates] /\ task[b] = "executing" /\ task'[b] = "computed"
        /\ \A a \in TaskIds : a # b => task'[a] = task[a]
    BY <1>1, <1>2 DEF ExecuteUserCode, TaskStates
  <2>2. PICK r \in Outcomes : outcome' = [outcome EXCEPT ![b] = r]
    BY <1>2 DEF ExecuteUserCode
  <2>3. outcome' \in [TaskIds -> Outcomes \cup {"none"}] /\ UNCHANGED fallback
        /\ \A a \in TaskIds : a # b => outcome'[a] = outcome[a]
    BY <1>2, <2>2 DEF ExecuteUserCode, TaskTypeOK
  <2>4. QED
    BY <2>1, <2>3 DEF TaskTypeOK, TaskMove
<1>3. CASE EnterFallback(b)
  <2>1. PICK from \in {"executing", "computed", "recorded", "charged", "released"} :
          Advance(b, from, "computed")
    BY <1>3 DEF EnterFallback
  <2>2. task' \in [TaskIds -> TaskStates] /\ task[b] = from /\ task'[b] = "computed"
        /\ \A a \in TaskIds : a # b => task'[a] = task[a]
    BY <1>1, <2>1 DEF TaskStates
  <2>3. /\ outcome' = [outcome EXCEPT ![b] = "failed"]
        /\ fallback' = fallback \cup {b}
    BY <1>3 DEF EnterFallback
  <2>4. /\ outcome' \in [TaskIds -> Outcomes \cup {"none"}] /\ outcome'[b] = "failed"
        /\ \A a \in TaskIds : a # b => outcome'[a] = outcome[a]
    BY <2>3 DEF TaskTypeOK, Outcomes
  <2>5. QED
    BY <2>2, <2>3, <2>4 DEF TaskTypeOK, TaskMove
<1>4. CASE RecordTaskResult(b) \/ ChargeTask(b) \/ ReleaseTaskSlot(b) \/ ExitTask(b) \/ BreakTask(b)
  <2>1. UNCHANGED <<outcome, fallback>>
    BY <1>4
       DEF RecordTaskResult, ChargeTask, ReleaseTaskSlot, ExitTask, BreakTask, FallbackThrows, KillTask
  <2>2. \E from \in TaskStates \ {"none"}, to \in TaskStates \ {"none", "executing"} :
          Advance(b, from, to) /\ (from = "executing" => to = "dead")
    BY <1>4
       DEF RecordTaskResult, ChargeTask, ReleaseTaskSlot, ExitTask, BreakTask, FallbackThrows,
           KillTask, TaskStates
  <2>3. /\ task' \in [TaskIds -> TaskStates] /\ task[b] # "none"
        /\ task'[b] \notin {"none", "executing"} /\ (task[b] = "executing" => task'[b] = "dead")
        /\ \A a \in TaskIds : a # b => task'[a] = task[a]
    BY <1>1, <2>2
  <2>4. QED
    BY <2>1, <2>3 DEF TaskTypeOK, TaskMove
<1>5. QED
  BY <1>2, <1>3, <1>4 DEF RunTask

LEMMA StepsOnTasks ==
  ASSUME TaskTypeOK, [Next]_vars
  PROVE  TaskTypeOK' /\ \A a \in TaskIds : TaskMove(a)
<1>1. CASE UNCHANGED taskVars
  BY <1>1 DEF taskVars, TaskTypeOK, TaskMove
<1>2. ASSUME NEW b, Launch(b)
      PROVE  TaskTypeOK' /\ \A a \in TaskIds : TaskMove(a)
  <2>1. task[b] = "none" /\ task' = [task EXCEPT ![b] = "executing"] /\ UNCHANGED <<outcome, fallback>>
    BY <1>2 DEF Launch, Advance
  <2>2. TaskTypeOK'
    BY <2>1 DEF TaskTypeOK, TaskStates
  <2>3. \A a \in TaskIds :
          task'[a] = task[a] \/ (task[a] = "none" /\ task'[a] = "executing")
    BY <2>1 DEF TaskTypeOK
  <2>4. QED
    BY <2>1, <2>2, <2>3 DEF TaskMove
<1>3. ASSUME NEW e \in Entries, ProcessorStep(e)
      PROVE  UNCHANGED taskVars \/ Launch(<<e, starts[e]>>)
  BY <1>3
     DEF ProcessorStep, MarkRunning, ExecuteLocalRunner, RecordResult, IncrementDailyCost,
         DecrementActiveQuota, DispatchEcsRunner, MarkDispatched, FinishAttempt, AttemptThrows,
         DispatchAnswerLost
<1>4. ASSUME NEW f \in Failures, HandlerStep(f)
      PROVE  UNCHANGED taskVars
  BY <1>4
     DEF HandlerStep, MarkRetrying, MarkFailed, ReleaseFailed, CopyToDlq, MarkDeadLettered
<1>5. ASSUME NEW p \in Replayers, ReplayStep(p)
      PROVE  UNCHANGED taskVars
  BY <1>5 DEF ReplayStep, FetchJobs, AddReplay, RemoveDeadLetter, SkipDeadLetter, FinishReplay,
              ReplayCrash
<1>6. CASE Submissions \/ Fetches \/ Backoffs \/ Crashes \/ UNCHANGED vars
  BY <1>1, <1>6 DEF Submissions, Fetches, TakeJob, Backoffs, PromoteDelayed, Crashes, WorkerCrash, vars
<1>7. CASE Tasks \/ BrokenTasks
  BY <1>7, RunnerMoves DEF Tasks, BrokenTasks
<1>8. QED
  BY <1>1, <1>2, <1>3, <1>4, <1>5, <1>6, <1>7 DEF Next, Processors, Listeners, Replays

\* A step that moves the tasks consistently with their pipelines.
LEMMA MovesInv ==
  ASSUME PipelineInv, TaskTypeOK', \A a \in TaskIds : TaskMove(a), Consistent, UNCHANGED inside
  PROVE  PipelineInv'
<1>1. ResultsAfterExecution'
  BY DEF PipelineInv, ResultsAfterExecution, TaskMove
<1>2. ASSUME NEW a \in TaskIds, outcome'[a] = "succeeded"
      PROVE  Earned(inside[a])
  <2>1. CASE outcome[a] = "succeeded"
    BY <2>1 DEF PipelineInv
  <2>2. CASE outcome[a] # "succeeded"
    <3>1. task[a] = "executing" /\ task'[a] = "computed" /\ (a \in fallback' => a \in fallback)
      BY <1>2, <2>2 DEF TaskMove
    <3>2. a \notin fallback'
      BY <3>1 DEF PipelineInv, ResultsAfterExecution
    <3>3. inside[a].at = "decided" /\ Verdict(a) = "succeeded"
      BY <1>2, <3>1, <3>2 DEF Consistent
    <3>4. PICK r \in Insides : r = inside[a]
      BY DEF PipelineInv
    <3>5. r.at = "decided" /\ r.codes[Len(r.codes)] = "zero" /\ ~r.late
      BY <3>3, <3>4 DEF Verdict, LastCode
    <3>6. /\ Len(r.codes) \in 1 .. r.steps /\ Len(r.codes) = r.steps
          /\ \A i \in 1 .. Len(r.codes) - 1 : r.codes[i] = "zero"
      BY <3>4, <3>5 DEF PipelineInv, StepsInOrder, ZeroUpTo, Gathered
    <3>7. r.codes \in Seq(Codes) /\ r.steps \in Nat
      BY DEF Insides
    <3>8. \A i \in 1 .. r.steps : r.codes[i] = "zero"
      BY <3>5, <3>6, <3>7
    <3>9. r.codes = [n \in 1 .. r.steps |-> "zero"]
      BY <3>6, <3>7, <3>8
    <3>10. QED
      BY <3>4, <3>5, <3>9 DEF Earned
  <2>3. QED
    BY <2>1, <2>2
<1>3. QED
  BY <1>1, <1>2 DEF PipelineInv, StepsInOrder, ClockBounded, Earned, ZeroUpTo, Gathered

LEMMA PipelineInvStep ==
  ASSUME PipelineInv, [PipelineNext]_pipelineVars
  PROVE  PipelineInv'
<1>1. CASE Next /\ Consistent /\ UNCHANGED inside
  BY <1>1, StepsOnTasks, MovesInv DEF PipelineInv
<1>2. CASE \E a \in TaskIds : (PipelineStep(a) \/ ProgramStep(a)) /\ UNCHANGED vars
  BY <1>2, PipelineStepInv
<1>3. CASE UNCHANGED <<taskVars, inside>>
  BY <1>3
     DEF PipelineInv, TaskTypeOK, ResultsAfterExecution, taskVars, StepsInOrder, ClockBounded,
         Earned, ZeroUpTo, Gathered
<1>4. QED
  BY <1>1, <1>2, <1>3 DEF PipelineNext, pipelineVars, vars

\* The coming and going of workers disturbs no pipeline.
LEMMA ScaledInvStep ==
  ASSUME PipelineInv, [ScaledNext]_scaledVars
  PROVE  PipelineInv'
<1>1. CASE Engine
  BY <1>1, PipelineInvStep DEF Engine
<1>2. CASE UNCHANGED <<taskVars, inside>>
  BY <1>2
     DEF PipelineInv, TaskTypeOK, ResultsAfterExecution, taskVars, StepsInOrder, ClockBounded,
         Earned, ZeroUpTo, Gathered
<1>3. ScalingStep => UNCHANGED <<taskVars, inside>>
  BY DEF ScalingStep, ApiPublishes, WorkerPublishes, PeriodEnds, ScaleFromZero, ScaleToZero,
         WorkerStops, vars
<1>4. QED
  BY <1>1, <1>2, <1>3 DEF ScaledNext, scaledVars, vars

(***************************************************************************)
(* The theorems.                                                           *)
(***************************************************************************)

LEMMA ClockAllowed ==
  ASSUME PipelineInv
  PROVE  TimeLimitKept /\ (~Lingering => VerdictInTime)
<1>1. ASSUME NEW a \in TaskIds
      PROVE  /\ At(a, "running") => inside[a].clock <= Allowed(a)
             /\ At(a, "decided") /\ ~Lingering => inside[a].clock <= Allowed(a)
  <2>1. PICK r \in Insides : r = inside[a]
    BY DEF PipelineInv
  <2>2. StepsInOrder(r) /\ ClockBounded(r)
    BY <2>1 DEF PipelineInv
  <2>3. PICK k \in Nat : k = Len(r.codes)
    BY DEF Insides
  <2>4. r.clock \in Nat /\ r.left \in Nat /\ r.steps \in Nat
    BY DEF Insides
  <2>5. Allowed(a) = TimeLimit + (IF r.steps > 1 THEN r.steps - 1 ELSE 0)
    BY <2>1 DEF Allowed
  <2>6. r.at = "running" => r.clock <= Allowed(a)
    <3>1. r.at = "running" => k < r.steps /\ r.clock + r.left <= TimeLimit + k
      BY <2>2, <2>3 DEF StepsInOrder, ClockBounded, Gathered
    <3>2. QED
      BY <2>4, <2>5, <3>1, PipelineAssumption
  <2>7. r.at = "decided" /\ ~Lingering => r.clock <= Allowed(a)
    <3>1. r.at = "decided" /\ ~Lingering => k \in 1 .. r.steps /\ r.clock < TimeLimit + k
      BY <2>2, <2>3 DEF StepsInOrder, ClockBounded, Gathered
    <3>2. QED
      BY <2>4, <2>5, <3>1, PipelineAssumption
  <2>8. QED
    BY <2>1, <2>6, <2>7 DEF At
<1>2. QED
  BY <1>1 DEF TimeLimitKept, VerdictInTime

LEMMA EarnedResults ==
  ASSUME PipelineInv
  PROVE  SuccessIsEarned
BY DEF PipelineInv, Earned, SuccessIsEarned

\* A job is reported as succeeded only if each step of its plan ended with zero
\* and in time, on a standing fleet and on one that is scaled, whatever else
\* happens to the runner before it has persisted the result.
THEOREM SuccessEarned == (PipelineSpec => []SuccessIsEarned) /\ (ScaledSpec => []SuccessIsEarned)
<1>1. PipelineInv => SuccessIsEarned
  BY EarnedResults
<1>2. PipelineInv /\ [PipelineNext]_pipelineVars => PipelineInv'
  BY PipelineInvStep
<1>3. PipelineInv /\ [ScaledNext]_scaledVars => PipelineInv'
  BY ScaledInvStep
<1>4. PipelineSpec => []SuccessIsEarned
  BY <1>1, <1>2, PipelineInvInit, PTL DEF PipelineSpec
<1>5. ScaledSpec => []SuccessIsEarned
  BY <1>1, <1>3, PipelineInvInit, PTL DEF ScaledSpec, ScaledInit
<1>6. QED
  BY <1>4, <1>5

\* No child runs past the time limit and its plan's allowance, whatever the
\* steps before it used up and whatever processes they left behind.
THEOREM LimitKept == (PipelineSpec => []TimeLimitKept) /\ (ScaledSpec => []TimeLimitKept)
<1>1. PipelineInv => TimeLimitKept
  BY ClockAllowed
<1>2. PipelineInv /\ [PipelineNext]_pipelineVars => PipelineInv'
  BY PipelineInvStep
<1>3. PipelineInv /\ [ScaledNext]_scaledVars => PipelineInv'
  BY ScaledInvStep
<1>4. PipelineSpec => []TimeLimitKept
  BY <1>1, <1>2, PipelineInvInit, PTL DEF PipelineSpec
<1>5. ScaledSpec => []TimeLimitKept
  BY <1>1, <1>3, PipelineInvInit, PTL DEF ScaledSpec, ScaledInit
<1>6. QED
  BY <1>4, <1>5

\* As long as no program leaves processes behind, the verdict is there in time as
\* well: the output that is held open is the only thing the pipeline waits for
\* beyond its limit.
THEOREM VerdictInTimeUnlessLingering ==
  ASSUME ~Lingering
  PROVE  PipelineSpec => []VerdictInTime
<1>1. PipelineInv => VerdictInTime
  BY ClockAllowed
<1>2. PipelineInv /\ [PipelineNext]_pipelineVars => PipelineInv'
  BY PipelineInvStep
<1>3. QED
  BY <1>1, <1>2, PipelineInvInit, PTL DEF PipelineSpec

(***************************************************************************)
(* The lifecycle below.                                                    *)
(***************************************************************************)

\* A worker that stops with listeners under way is, for them, one that dies.
LEMMA StoppedWorker ==
  ASSUME TypeInv, WorkerStops, ListenersEnd \/ "workerCrash" \in Faults
  PROVE  [Next]_vars
<1>1. PICK w \in stopping :
        /\ ActiveAt(w) = {}
        /\ ListenersEnd => ListeningAt(w) = {}
        /\ handler' = [f \in Failures |-> IF f \in ListeningAt(w) THEN "lost" ELSE handler[f]]
  BY DEF WorkerStops
<1>2. UNCHANGED <<storeVars, queueVars, apiVars, taskVars, proc, runBy, result, heardBy, replayVars>>
  BY DEF WorkerStops
<1>3. CASE ListeningAt(w) = {}
  <2>1. handler' = handler
    BY <1>1, <1>3 DEF TypeInv, TypeOK, WorkerTypeOK
  <2>2. QED
    BY <1>2, <2>1 DEF vars, workerVars
<1>4. CASE ListeningAt(w) # {}
  <2>1. w \in Workers /\ "workerCrash" \in Faults
    BY <1>1, <1>4 DEF ListeningAt, TypeInv, TypeOK, WorkerTypeOK
  <2>2. Redeliver(ActiveAt(w))
    BY <1>1, <1>2 DEF Redeliver, queueVars, TypeInv, TypeOK, QueueTypeOK
  <2>3. /\ proc' = [e \in Entries |-> IF e \in ActiveAt(w) THEN "idle" ELSE proc[e]]
        /\ Discard(ActiveAt(w))
    BY <1>1, <1>2 DEF Discard, TypeInv, TypeOK, WorkerTypeOK
  <2>4. WorkerCrash(w) /\ UNCHANGED replayVars
    BY <1>1, <1>2, <1>4, <2>1, <2>2, <2>3 DEF WorkerCrash
  <2>5. QED
    BY <2>1, <2>4 DEF Next, Crashes
<1>5. QED
  BY <1>3, <1>4

\* A runner that goes through its pipeline does to the store and the queues what
\* the lifecycle says of a task, and a fleet that is scaled is one of workers that
\* take jobs now and then: what is proved of the lifecycle holds of both, as long
\* as a stopped worker ends its listeners or the lifecycle has workers that die.
THEOREM PipelinesRunTheEngine ==
  /\ PipelineSpec => Spec
  /\ ListenersEnd \/ "workerCrash" \in Faults => (ScaledSpec => Spec)
<1>1. [PipelineNext]_pipelineVars => [Next]_vars
  BY DEF PipelineNext, pipelineVars
<1>2. PipelineSpec => Spec
  BY <1>1, PTL DEF PipelineSpec, Spec
<1>3. ASSUME ListenersEnd \/ "workerCrash" \in Faults
      PROVE  ScaledSpec => Spec
  <2>1. TypeInv /\ [ScaledNext]_scaledVars => [Next]_vars
    <3>1. Engine => [Next]_vars
      BY DEF Engine, PipelineNext
    <3>2. TypeInv /\ ScalingStep => [Next]_vars
      BY <1>3, StoppedWorker
         DEF ScalingStep, ApiPublishes, WorkerPublishes, PeriodEnds, ScaleFromZero, ScaleToZero
    <3>3. QED
      BY <3>1, <3>2 DEF ScaledNext, scaledVars
  <2>2. TypeInv /\ [ScaledNext]_scaledVars => TypeInv'
    BY <2>1, StepType
  <2>3. Init => TypeInv
    BY InitType DEF Init, WorkerInit, TaskInit, TypeInv, ResultsKnown
  <2>4. QED
    BY <2>1, <2>2, <2>3, PTL DEF ScaledSpec, ScaledInit, Spec
<1>4. QED
  BY <1>2, <1>3
=============================================================================
