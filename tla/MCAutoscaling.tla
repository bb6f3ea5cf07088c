--------------------------- MODULE MCAutoscaling ---------------------------
(***************************************************************************)
(* Model-checking values for the job lifecycle with the runner's pipeline  *)
(* and the scaling of the workers.                                         *)
(***************************************************************************)
EXTENDS MCJobLifecycle, Autoscaling

\* A period lasts a minute, a listener some milliseconds: counterexamples are to
\* do without one that is still under way when a period ends.
ShortListeners == PeriodEnds => \A w \in Workers : ListeningAt(w) = {}
=============================================================================
