SPECIFICATION MCSpec
CHECK_DEADLOCK FALSE
CONSTANTS
    Dirs = {s1, s2}
    Sockets = {k1, k2}
    Addresses = {a1}
    NoWeb = NoWeb
    MaxProcesses = 2
INVARIANTS
    OwnershipInv
    ServingIsReachable
PROPERTIES
    RefusedByTheLiving
    EveryStepCompletes
