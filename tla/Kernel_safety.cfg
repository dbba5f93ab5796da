\* Four pids but frames for three processes: EXEC also fails for lack of memory.
\* Seconds of two timer interrupts; two contexts of stdin, of readers or of nobody.
SPECIFICATION KernelSpec
CONSTANTS
    MaxPid = 4
    TicksPerSecond = 2
    MaxSecond = 1
    MAX_FT = 2
    FrameCount = 5
INVARIANTS
    KernelTypeOK
    QueueIsLive
    NoNestedScan
    HaltsOnlyIfBlocked
    ForegroundIsLive
    FramesIsolated
    ActiveDirectory
PROPERTIES
    NoOvertaking
    ExitFailsOnlyIfAlone
    RefinesRunQueue
    PreemptionIsTransparent
