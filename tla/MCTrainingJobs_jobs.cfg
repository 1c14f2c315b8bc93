CONSTANTS
    j1 = j1
    j2 = j2
    q1 = q1
    Jobs = {j1, j2}
    Requests = {q1}
    PoolSize = 1
    StatusWidth = 32
    ActionMayFail = TRUE
    DatabaseMayFail = TRUE
    MaxCrashes = 1
SPECIFICATION FairSpec
INVARIANTS
    OutputsAreEarned
    NoOrphanedJob
PROPERTIES
    UncontestedFollowTable
    CancelWithoutThreadHolds
    JobSettles
CHECK_DEADLOCK FALSE
