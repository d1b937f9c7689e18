SPECIFICATION MCSpec
CONSTANTS
    Keys = {k1, k2}
    RetryLimits = {0, 1}
    RetryDelay = 1
    PipelineLen = 2
    MaxRuns = 3
    MaxCommands = 2
    MaxTime = 1
SYMMETRY KeySymmetry
INVARIANTS
    StoreInv
PROPERTIES
    HistoryIsFinal
    ImplementsLifecycle
