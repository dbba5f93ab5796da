\* A file may be deleted while a descriptor is open on it.
SPECIFICATION Spec
CONSTANTS
    ClusterCount = 5
    ClusterSize = 2
    SlotCount = 2
    Name <- MCName
    Handle = {h1, h2}
    MaxWrite = 2
    MaxSize = 3
    CrashPoints = {}
    DeleteOpen = TRUE
CHECK_DEADLOCK FALSE
INVARIANTS
    DirectorySizeIsZero
