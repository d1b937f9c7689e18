SPECIFICATION FairPoolSpec
CONSTANTS
    i1 = i1
    i2 = i2
    w1 = w1
    w2 = w2
    Keys = {k1}
    RetryLimits = {0, 1}
    RetryDelay = 1
    PipelineLen = 2
    Instances = {i1}
    Workers = {w1, w2}
    InstanceOf <- OneInstance
    MaxCrashes = 1
    MaxStops = 1
    MaxFaults = 1
    MaxRejects = 1
    MaxIdleTime = 0
INVARIANTS
    PoolInv
    HeldRunsAreOpen
    OpenCommandsHaveOpenRuns
    AbandonedOnlyByFaults
PROPERTIES
    EveryJobEnds
    StopCompletes
