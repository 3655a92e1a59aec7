SPECIFICATION Spec
CONSTANTS
    Unset = Unset
    Boundless = Boundless
    RcvBufferNum = 3
    Capacity = 8
    Arriving = {"AT1", "PCM"}
    Peers = {p}
    MaxTag = 0
    Chunks = 1
    SemMax = 1
    PreemptQueue = TRUE
    MaxBurst = Boundless
    ClientRuns = FALSE
INVARIANTS RemovedOnce
CHECK_DEADLOCK FALSE
