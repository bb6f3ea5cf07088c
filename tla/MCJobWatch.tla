----------------------------- MODULE MCJobWatch -----------------------------
(***************************************************************************)
(* Model-checking values for the job lifecycle with the pages that follow  *)
(* the jobs.                                                               *)
(***************************************************************************)
EXTENDS MCJobLifecycle, JobWatch
=============================================================================
