SPECIFICATION Spec
CONSTANTS
    Unset = Unset
    Boundless = Boundless
    RcvBufferNum = 2
    Capacity = 4
    Arriving = {"AT1", "RIFF", "PCM", "Empty"}
    Peers = {p}
    MaxTag = 0
    Chunks = 1
    SemMax = 1
    PreemptQueue = TRUE
    MaxBurst = Boundless
    ClientRuns = FALSE
INVARIANTS TypeOK CountConserved
CHECK_DEADLOCK FALSE
