CONSTANTS
    j1 = j1
    j2 = j2
    q1 = q1
    Jobs = {j1, j2}
    Requests = {}
    PoolSize = 2
    StatusWidth = 16
    ActionMayFail = FALSE
    DatabaseMayFail = FALSE
    MaxCrashes = 0
SPECIFICATION FairSpec
PROPERTIES
    SoundJobCompletes
CHECK_DEADLOCK FALSE
