---------------------------- MODULE MCReplayCamera ---------------------------
(***************************************************************************)
(* Small instances of ReplayCamera for TLC.                                *)
(***************************************************************************)
EXTENDS ReplayCameraProperties, TLC

Symmetry == Permutations(Threads)
=============================================================================
