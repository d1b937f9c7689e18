SPECIFICATION FairSpec
CHECK_DEADLOCK FALSE
CONSTANTS
    Names = {0, 1}
    Depth = 3
    MaxObjects = 5
    MaxFiles = 1
    MaxChanges = 3
    MaxDirectories = 4
INVARIANTS
    WatchSetInv
    NoWatchLeaks
PROPERTIES
    Converges
    RootLossDetected
    FilesFound
