SPECIFICATION PoolSpec
CONSTANTS
    i1 = i1
    i2 = i2
    w1 = w1
    w2 = w2
    Keys = {k1}
    RetryLimits = {1}
    RetryDelay = 1
    PipelineLen = 2
    Instances = {i1, i2}
    Workers = {w1, w2}
    InstanceOf <- TwoInstances
    MaxCrashes = 1
    MaxStops = 0
    MaxFaults = 1
    MaxRejects = 0
    MaxIdleTime = 0
INVARIANTS
    OneLiveAttempt
    PipelineInOrder
