--------------------------- MODULE MCVirtualMotion ---------------------------
(***************************************************************************)
(* Small instances of VirtualMotion for TLC.                               *)
(***************************************************************************)
EXTENDS VirtualMotionProperties, TLC

Symmetry == Permutations(Handlers)
=============================================================================
