\* Three processes; after the first second every timer interrupt is a second.
SPECIFICATION FairSpec
CONSTANTS
    MaxPid = 3
    TicksPerSecond = 1
    MaxSecond = 1
    MAX_FT = 3
PROPERTIES
    ReadyRuns
    SleepersWake
    ReadersWake
