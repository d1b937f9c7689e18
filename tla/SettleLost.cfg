SPECIFICATION Spec
CHECK_DEADLOCK FALSE
CONSTANTS
    Files = {f1}
    ReprocessOnChange = TRUE
    ProcessExisting = TRUE
    SettlePolls = 1
    MaxPending = 1
    MaxDelivered = 1
    MaxChanges = 2
    MaxRemovals = 1
    MaxFaults = 0
INVARIANTS
    NoLostFile
