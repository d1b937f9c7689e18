SPECIFICATION FairSpec
CHECK_DEADLOCK FALSE
CONSTANTS
    N = 2
    Keys = {1, 2, 3}
    Values <- MCValues
    d1 = d1
    d2 = d2
    d3 = d3
    Databases = {d1, d2, d3}
    FoldOf <- MCFoldOf
INVARIANTS
    StandaloneInv
    ValuesResolved
    AliasNeverMissed
PROPERTIES
    FailureEndsAll
