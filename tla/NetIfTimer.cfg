SPECIFICATION Spec
CONSTANTS
    MaxRx = 1
    MaxTx = 1
    FifoMax = 2
    MaxFaults = 0
    Glitches = 0
    TimerOutput = TRUE
PROPERTIES SentAsGiven
