SPECIFICATION FairSpec
CHECK_DEADLOCK FALSE
CONSTANTS
    Files = {f1, f2}
    ReprocessOnChange = TRUE
    ProcessExisting = TRUE
    SettlePolls = 1
    MaxPending = 2
    MaxDelivered = 1
    MaxChanges = 3
    MaxRemovals = 0
    MaxFaults = 1
INVARIANTS
    NoLostFile
PROPERTIES
    EveryFileQueued
