--------------------------- MODULE MCTrainingJobs ---------------------------
(***************************************************************************)
(* Small instances of TrainingJobs for TLC.                                *)
(***************************************************************************)
EXTENDS TrainingJobsProperties

CONSTANTS j1, j2, q1
=============================================================================
