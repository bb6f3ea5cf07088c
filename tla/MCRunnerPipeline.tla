-------------------------- MODULE MCRunnerPipeline --------------------------
(***************************************************************************)
(* Model-checking values for the job lifecycle with the runner's pipeline. *)
(***************************************************************************)
EXTENDS MCJobLifecycle, RunnerPipeline
=============================================================================
