----------------------------- MODULE MCAnalysis -----------------------------
(***************************************************************************)
(* Model-checking values for the job lifecycle with the explanations.      *)
(***************************************************************************)
EXTENDS MCJobLifecycle, Analysis
=============================================================================
