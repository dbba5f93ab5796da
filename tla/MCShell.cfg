\* Two shells. Of seven clusters five are in use at boot for the first user, so
\* that a copy of two fits, but not after something else was made. His four lines
\* and the five of the second are bounded in MCShell.
SPECIFICATION MCSpec
CONSTANTS
    Symbol <- MCSymbol
    Pid = {"1", "2"}
    CLUSTER_SIZE = 4
    Clusters = 7
    Lines <- AllLines
    Trees <- AllTrees
    BLOCK = 2
    MaxLines = 5
INVARIANTS
    ListingsFit
    FindIsComplete
PROPERTIES
    PathsAreCanonical
    DeletesExactlyBelow
    MoveKeepsContent
    CommandsEnd
CHECK_DEADLOCK FALSE
