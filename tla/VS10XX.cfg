SPECIFICATION CodecsSpec
CONSTANTS
    Frame = 3
    CancelMax = 2
    FillMax = 2
    Retries = 1
    Delay = 2
    MaxLen = 7
    Size = 6
    Block = 2
    High = 4
    MaxLate = 2
INVARIANTS BufferSafe DecoderReady BlocksWhole
