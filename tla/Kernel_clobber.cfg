\* A preempted process gets the result of another process's system call.
SPECIFICATION KernelSpec
CONSTANTS
    MaxPid = 2
    TicksPerSecond = 1
    MaxSecond = 1
    MAX_FT = 2
    FrameCount = 4
INVARIANT
    RegistersRestored
