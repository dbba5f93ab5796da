\* Room for six small blocks, or for two large ones and two small ones.
SPECIFICATION Spec
CONSTANTS
    HeapSize = 20
    HeaderSize = 1
    SMALLEST_BLOCK = 2
    Request <- MCRequest
INVARIANTS
    BlocksTile
    PiecesHaveBlocks
    FreeIsCombined
CHECK_DEADLOCK FALSE
