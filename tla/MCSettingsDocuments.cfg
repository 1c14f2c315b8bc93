CONSTANTS
    Clients = {c1, c2}
    Keys = {k1, k2}
    MaxRevision = 2
    None = none
SPECIFICATION FairSpec
INVARIANTS
    AuditsFormAChain
PROPERTIES
    AbstractSpec
    RequestsAreServed
