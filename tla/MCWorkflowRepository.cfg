CONSTANTS
    Editors = {e1, e2, e3}
    MaxSaves = 3
    MaxCrashes = 2
    None = none
SPECIFICATION HistorySpec
SYMMETRY Symmetry
INVARIANTS
    SynchronizedSavesSurvive
    OriginalIsKept
PROPERTIES
    EditsAreNotOverwritten
