\* Two descriptors, which may be open on the same file, and room for two clusters of files.
SPECIFICATION Spec
CONSTANTS
    ClusterCount = 5
    ClusterSize = 2
    SlotCount = 2
    Name <- MCName
    Handle = {h1, h2}
    MaxWrite = 2
    MaxSize = 3
    CrashPoints = {"delete", "write", "update"}
    DeleteOpen = FALSE
SYMMETRY HandleSymmetry
INVARIANTS
    DiskSurvives
    FilesDisjoint
    NothingLeaks
    SizesAreCovered
    PositionsAgree
PROPERTIES
    RefinesFileTree
