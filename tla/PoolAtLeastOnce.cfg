SPECIFICATION PoolSpec
CONSTANTS
    i1 = i1
    i2 = i2
    w1 = w1
    w2 = w2
    Keys = {k1}
    RetryLimits = {0}
    RetryDelay = 1
    PipelineLen = 1
    Instances = {i1}
    Workers = {w1, w2}
    InstanceOf <- OneInstance
    MaxCrashes = 0
    MaxStops = 1
    MaxFaults = 0
    MaxRejects = 0
    MaxIdleTime = 0
INVARIANTS
    AtLeastOnce
