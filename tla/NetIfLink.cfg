SPECIFICATION FairSpec
CONSTANTS
    MaxRx = 3
    MaxTx = 2
    FifoMax = 2
    MaxFaults = 1
    Glitches = 1
    TimerOutput = FALSE
INVARIANTS TypeOK Interlock
PROPERTIES LinkSpec SentAsGiven ReceptionRecovers PacketsDrained
