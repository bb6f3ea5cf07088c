------------------------- MODULE MCCacheHibernation -------------------------
(***************************************************************************)
(* CacheHibernation for TLC: all values are given in the configurations.   *)
(***************************************************************************)
EXTENDS CacheHibernation
=============================================================================
