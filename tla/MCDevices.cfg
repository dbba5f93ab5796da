\* A screen of two rows, a ring for two characters; three seconds after the boot.
SPECIFICATION Spec
CONSTANTS
    BUFFER_WIDTH = 3
    BUFFER_HEIGHT = 2
    STDIN_BUFFER_SIZE = 3
    Key <- MCKey
    Output = {"nl", "esc", "B", "J"}
    CursorPlace <- MCCursorPlace
    MaxEscape = 2
    PIT_TIMER_FREQUENCY = 2
    Startup <- MCStartup
    BehindMonths = 12
    MaxElapsed = 3
INVARIANTS
    EchoFollowsInput
    ClockFollowsElapsed
PROPERTIES
    RefinesLineDiscipline
    BootEnds
CHECK_DEADLOCK FALSE
