SPECIFICATION Spec
CHECK_DEADLOCK FALSE
CONSTANTS
    Files = {f1, f2}
    ReprocessOnChange = TRUE
    ProcessExisting = TRUE
    SettlePolls = 1
    MaxPending = 1
    MaxDelivered = 1
    MaxChanges = 3
    MaxRemovals = 1
    MaxFaults = 1
SYMMETRY FileSymmetry
INVARIANTS
    SettleInv
