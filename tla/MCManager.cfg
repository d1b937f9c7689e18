SPECIFICATION FairSpec
CHECK_DEADLOCK FALSE
CONSTANTS
    Configs = {c1, c2}
    Requests = {q1, q2}
    NoConfig = NoConfig
    MaxStarts = 2
    MaxCrashes = 1
    MaxSignals = 1
    MaxStops = 1
    MaxFaults = 1
INVARIANTS
    ManagerInv
    CancelledOnlyIfAsked
    StoppedStaysStopped
PROPERTIES
    ImplementsInstances
    StopsReturn
    DesiredIsRestored
