CONSTANTS
    r1 = r1
    r2 = r2
    q1 = q1
    q2 = q2
    plc = plc
    mes = mes
    Runs = {r1, r2}
    Requests = {q1}
    Channels = {}
    Verdicts = {"PASS"}
    Reports <- ReportPerBranch
    Modes = {"simulation-uncommissioned"}
    StageIsSimulated = TRUE
    DatabaseMayFail = FALSE
    MaxActivations = 1
    MaxCrashes = 1
SPECIFICATION Spec
SYMMETRY RunSymmetry
INVARIANTS
    OverlapOnlyAfterCancel
    NoOrphanedRun
PROPERTIES
    FinalUnlessCancelled
    KeepsLedger
CHECK_DEADLOCK FALSE
