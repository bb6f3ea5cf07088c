--------------------------- MODULE RunnerPipeline ---------------------------
(***************************************************************************)
(* What happens inside a runner task while it executes the user's code:    *)
(* executeUserCode goes through the steps of the language's plan, and      *)
(* runLimitedProcess runs each of them under a timer that kills it.        *)
(*                                                                         *)
(* Time is counted in units of 100 ms, the least a step is given.  A timer *)
(* fires on time, but the process may end at that very moment: the exit,   *)
(* the timer and the "close" event then come in either order.              *)
(***************************************************************************)
EXTENDS JobLifecycle

CONSTANTS
  TimeLimit,  \* timeoutMs of the request
  Plans,      \* lengths of the languages' plans: run only, or compile and run
  Lingering   \* whether a program may leave processes behind

ASSUME PipelineAssumption ==
  TimeLimit \in Nat \ {0} /\ Plans \subseteq Nat \ {0} /\ Lingering \in BOOLEAN

\* Bound: a little more than any plan may take.
MaxClock == TimeLimit + 3

VARIABLE inside   \* what each task is at

pipelineVars == <<vars, inside>>

PipelineInit ==
  inside = [a \in TaskIds |->
    [at    |-> "parsing", \* then "ready" for the next step, "running", "exited" while
                          \* the output is not closed, "decided", or "threw"
     steps |-> 0,         \* the length of the plan
     codes |-> <<>>,      \* how the child of each step ended: "zero", "other", "killed"
     clock |-> 0,         \* time since startedAt
     left  |-> 0,         \* time until the step's timer fires
     late  |-> FALSE,     \* timedOut
     held  |-> FALSE]]    \* a process the child left behind holds its output open

At(a, label) == task[a] = "executing" /\ inside[a].at = label
Become(a, new) == inside' = [inside EXCEPT ![a] = new]

Prepare(a) ==
  /\ At(a, "parsing")
  /\ \E n \in Plans : Become(a, [inside[a] EXCEPT !.at = "ready", !.steps = n])

\* Mutant: every step gets the whole time limit.
SpawnAfresh(a) ==
  /\ At(a, "ready")
  /\ Become(a, [inside[a] EXCEPT !.at = "running", !.left = TimeLimit])

\* What is left until the deadline, but 100 ms at least.
Spawn(a) ==
  /\ At(a, "ready")
  /\ LET left == TimeLimit - inside[a].clock
     IN  Become(a, [inside[a] EXCEPT !.at = "running", !.left = IF left < 1 THEN 1 ELSE left])

\* Time passes for a child that runs, and while its output is held open, but
\* not past the time of a timer that is still to fire.
Tick(a) ==
  /\ At(a, "running") \/ (At(a, "exited") /\ inside[a].held)
  /\ inside[a].left > 0 \/ inside[a].late
  /\ inside[a].clock < MaxClock
  /\ Become(a, [inside[a] EXCEPT !.clock = @ + 1, !.left = IF @ > 0 THEN @ - 1 ELSE 0])

\* The child ends, by itself or killed; its own children do not end with it.
Ended(a, code, late) ==
  \E held \in {FALSE, Lingering} :
    Become(a, [inside[a] EXCEPT !.at = "exited", !.codes = Append(@, code),
                                !.late = late, !.held = held])

ChildExits(a) ==
  /\ At(a, "running")
  /\ \E code \in {"zero", "other"} : Ended(a, code, FALSE)

\* SIGKILL, which does nothing to a child that has exited.
TimerFires(a) ==
  /\ inside[a].left = 0 /\ ~inside[a].late
  /\ \/ At(a, "running") /\ Ended(a, "killed", TRUE)
     \/ At(a, "exited") /\ Become(a, [inside[a] EXCEPT !.late = TRUE])

\* What was left behind ends, or closes its output.
OutputReleased(a) ==
  /\ At(a, "exited") /\ inside[a].held
  /\ Become(a, [inside[a] EXCEPT !.held = FALSE])

LastCode(a) == inside[a].codes[Len(inside[a].codes)]
LastStep(a) == Len(inside[a].codes) = inside[a].steps

\* Mutant: a step is run although the one before it failed.
CloseGoesOn(a) ==
  /\ At(a, "exited") /\ ~inside[a].held
  /\ Become(a, [inside[a] EXCEPT !.at = IF inside[a].late \/ LastStep(a) THEN "decided" ELSE "ready"])

\* The "close" event, and the loop's two breaks.
Close(a) ==
  /\ At(a, "exited") /\ ~inside[a].held
  /\ Become(a, [inside[a] EXCEPT !.at =
       IF inside[a].late \/ LastCode(a) # "zero" \/ LastStep(a) THEN "decided" ELSE "ready"])

\* The payload does not parse, the workspace cannot be written or, in the
\* finally block, removed, or the child cannot be started ("error").
ExecutionThrows(a) ==
  /\ At(a, "parsing") \/ At(a, "running") \/ At(a, "decided")
  /\ Become(a, [inside[a] EXCEPT !.at = "threw"])

Verdict(a) == IF LastCode(a) = "zero" /\ ~inside[a].late THEN "succeeded" ELSE "failed"

\* executeUserCode returns or rejects only when the pipeline has come to it.
Consistent ==
  \A a \in TaskIds : task[a] = "executing" /\ task'[a] = "computed" =>
    \/ a \in fallback' /\ inside[a].at = "threw"
    \/ a \notin fallback' /\ inside[a].at = "decided" /\ outcome'[a] = Verdict(a)

\* Nobody but the program decides when its child ends, and nothing makes the
\* runner break; but what the program left behind ends some time.
PipelineStep(a) == Prepare(a) \/ Spawn(a) \/ Tick(a) \/ TimerFires(a) \/ Close(a) \/ OutputReleased(a)
ProgramStep(a)  == ChildExits(a) \/ ExecutionThrows(a)

PipelineNext ==
  \/ Next /\ Consistent /\ UNCHANGED inside
  \/ \E a \in TaskIds : (PipelineStep(a) \/ ProgramStep(a)) /\ UNCHANGED vars

PipelineSpec ==
  /\ Init /\ PipelineInit
  /\ [][PipelineNext]_pipelineVars
  /\ ProcessFairness
  /\ WF_pipelineVars(Tasks /\ Consistent /\ UNCHANGED inside)
  /\ \A a \in TaskIds : WF_pipelineVars(PipelineStep(a) /\ UNCHANGED vars)
-----------------------------------------------------------------------------
\* A job succeeds only if every step of its plan was run, each after the one
\* before it had exited with zero, and no timer fired.
SuccessIsEarned ==
  \A a \in TaskIds : outcome[a] = "succeeded" =>
    /\ inside[a].codes = [n \in 1 .. inside[a].steps |-> "zero"]
    /\ ~inside[a].late

\* The longest a plan may take: the time limit and, for each step after the
\* first, the 100 ms it is given after the deadline.
Allowed(a) == TimeLimit + (IF inside[a].steps > 1 THEN inside[a].steps - 1 ELSE 0)

\* No child of the pipeline runs past that time, whatever the steps before it
\* used up and whatever processes they left behind.
TimeLimitKept == \A a \in TaskIds : At(a, "running") => inside[a].clock <= Allowed(a)

\* The job's result is there by then as well, so that the runner goes on to
\* persist it and the slot is given back.
VerdictInTime == \A a \in TaskIds : At(a, "decided") => inside[a].clock <= Allowed(a)
=============================================================================
