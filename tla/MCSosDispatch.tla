---------------------------- MODULE MCSosDispatch ----------------------------
(***************************************************************************)
(* SosDispatch for TLC.  Emergencies are interchangeable, and so are the   *)
(* control room's calls; only runs without a liveness property use that.   *)
(***************************************************************************)
EXTENDS SosDispatch, TLC

Symmetry == Permutations(Emergencies) \cup Permutations(Calls)
=============================================================================
