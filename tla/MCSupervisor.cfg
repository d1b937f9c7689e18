SPECIFICATION FairSpec
CHECK_DEADLOCK FALSE
CONSTANTS
    p1 = p1
    p2 = p2
    p3 = p3
    c1 = c1
    c2 = c2
    Configs = {c1, c2}
    Paths = {p1, p2, p3}
    FileOf <- MCFileOf
    NoPath = NoPath
    q1 = q1
    q2 = q2
    Requests = {q1, q2}
    Kinds <- MCKinds
    Names = {4}
    AutoNames = {1, 2, 3, 4}
    Ids = {4, 5, 6, 7}
    AnyId = 0
    Retained = 1
    InitialUses <- MCInitialUses
    EditsTo <- MCEditsTo
    MaxRuntimes = 3
    MaxRequests = 3
    MaxEdits = 1
INVARIANTS
    SupervisorInv
    OneOwner
    Addressable
PROPERTIES
    ImplementsLeases
    BusyMeansActive
    ClientsHearTheEnd
