CONSTANTS
    r1 = r1
    r2 = r2
    q1 = q1
    q2 = q2
    plc = plc
    mes = mes
    Runs = {r1}
    Requests = {q1, q2}
    Channels = {plc, mes}
    Verdicts = {"PASS", "FAIL"}
    Reports <- EveryReport
    Modes = {"simulation-uncommissioned", "simulation", "hardware-pilot", "production"}
    StageIsSimulated = TRUE
    DatabaseMayFail = TRUE
    MaxActivations = 2
    MaxCrashes = 1
SPECIFICATION FairSpec
INVARIANTS
    PublicationIsWhole
    AtMostOneCommandAfterCancel
    CommandsAreJustified
PROPERTIES
    TimelyCancelHolds
    RunSettles
    CancelSettles
CHECK_DEADLOCK FALSE
