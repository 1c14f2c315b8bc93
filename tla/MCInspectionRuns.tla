-------------------------- MODULE MCInspectionRuns --------------------------
(***************************************************************************)
(* Small instances of InspectionRuns for TLC.                              *)
(***************************************************************************)
EXTENDS InspectionRunsProperties, TLC

CONSTANTS r1, r2, q1, q2, plc, mes

EveryReport == Report

\* One report per branch of the pose check, in position, in position with an
\* open interlock, not homed.
ReportPerBranch ==
    {[fresh |-> TRUE, safe |-> TRUE, homed |-> TRUE, placed |-> TRUE],
     [fresh |-> TRUE, safe |-> FALSE, homed |-> TRUE, placed |-> TRUE],
     [fresh |-> TRUE, safe |-> TRUE, homed |-> FALSE, placed |-> FALSE]}

\* Runs and requests are interchangeable; sound for safety properties only.
RunSymmetry == Permutations(Runs) \cup Permutations(Requests)
=============================================================================
