--------------------------- MODULE MCModelRegistry ---------------------------
(***************************************************************************)
(* Small instances of ModelRegistry for TLC.                               *)
(***************************************************************************)
EXTENDS ModelRegistryProperties, TLC

Symmetry == Permutations(Users)
=============================================================================
