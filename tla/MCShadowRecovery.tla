-------------------------- MODULE MCShadowRecovery --------------------------
(***************************************************************************)
(* Instances of ShadowRecovery for TLC: two worker tasks, two instruments  *)
(* that both have to be ingested, a gap of two sessions.                   *)
(***************************************************************************)
EXTENDS ShadowRecovery

CONSTANTS t1, t2, i1, i2
=============================================================================
