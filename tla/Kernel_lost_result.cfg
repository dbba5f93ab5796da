\* A blocked read goes on without the result of its recall.
SPECIFICATION KernelSpec
CONSTANTS
    MaxPid = 2
    TicksPerSecond = 1
    MaxSecond = 1
    MAX_FT = 2
    FrameCount = 4
INVARIANT
    ReadsReturnTheirResult
