------------------------- MODULE MCWorkflowRepository ------------------------
(***************************************************************************)
(* Small instances of WorkflowRepository for TLC.                          *)
(***************************************************************************)
EXTENDS WorkflowRepositoryProperties, TLC

Symmetry == Permutations(Editors)
=============================================================================
