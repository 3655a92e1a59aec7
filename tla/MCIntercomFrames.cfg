SPECIFICATION Spec
CONSTANTS
    Unset = Unset
    Boundless = Boundless
    RcvBufferNum = 3
    Capacity = 4
    Arriving = {"AT1", "AT2", "PCM"}
    Peers = {p}
    MaxTag = 2
    Chunks = 1
    SemMax = 1
    PreemptQueue = FALSE
    MaxBurst = 2
    ClientRuns = FALSE
INVARIANTS FrameWhole RingIntact
PROPERTIES PlayedInOrder
