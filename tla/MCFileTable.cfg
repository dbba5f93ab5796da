\* Two processes with two descriptors each; the file table is full before both have all.
SPECIFICATION Spec
CONSTANTS
    Process = {p1, p2}
    PROCESS_MAX_FD = 2
    MAX_FT = 3
    Char = {"x", " "}
    Blank = " "
SYMMETRY ProcessSymmetry
INVARIANTS
    DescriptorsExclusive
    LeaksExplained
    DevicesFollowFiles
    TopLayerShows
