---------------------------- MODULE MCAdminBurst ----------------------------
(***************************************************************************)
(* Model-checking values for AdminBurst: those of JobLifecycle.            *)
(***************************************************************************)
EXTENDS AdminBurst, MCJobLifecycle
=============================================================================
