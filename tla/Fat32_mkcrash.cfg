\* The power may fail while a file is being made.
SPECIFICATION Spec
CONSTANTS
    ClusterCount = 5
    ClusterSize = 2
    SlotCount = 2
    Name <- MCName
    Handle = {h1, h2}
    MaxWrite = 2
    MaxSize = 3
    CrashPoints = {"mk"}
    DeleteOpen = FALSE
CHECK_DEADLOCK FALSE
PROPERTIES
    SignatureKept
