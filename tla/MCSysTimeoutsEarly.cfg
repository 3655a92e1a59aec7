SPECIFICATION Spec
CONSTANTS
    Timers <- MCTimers
    Interval <- MCInterval
    MsPerSec = 3
    TicksPerSec = 1
    Word = 16
PROPERTIES NotAtOnce
