CONSTANTS
    a = a
    b = b
    c = c
    d = d
    Nodes <- MCNodes
    Outputs <- MCNodes
    Keys <- MCKeys
    Workflows <- MCWorkflows
    MaxSteps = 20
SPECIFICATION FairSpec
INVARIANTS
    TokensAreConserved
    BarrierWaitsForAll
    DataFlowIsNeverStuck
PROPERTIES
    Terminates
CHECK_DEADLOCK FALSE
