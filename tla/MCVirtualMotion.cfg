CONSTANTS
    Handlers = {h1, h2}
    Commands = {c1}
    Reach = 1
    MaxRevision = 3
    None = none
SPECIFICATION HistorySpec
SYMMETRY Symmetry
INVARIANTS
    StatesAreConsistent
    LastChangeIsAnnounced
PROPERTIES
    FaultsLatch
CHECK_DEADLOCK FALSE
