CONSTANTS
    Users = {u1, u2, u3}
    Aliases = {"champion"}
    MaxVersions = 2
    MaxEvents = 5
    None = none
SPECIFICATION Spec
SYMMETRY Symmetry
INVARIANTS
    EventsFormAChain
    PreviewedTargetIsRestored
    RollbacksUndoTheLastChange
