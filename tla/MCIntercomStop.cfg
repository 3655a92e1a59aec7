SPECIFICATION FairSpec
CONSTANTS
    Unset = Unset
    Boundless = Boundless
    RcvBufferNum = 2
    Capacity = 4
    Arriving = {"AT1", "AT2", "AT?", "RIFF"}
    Peers = {p}
    MaxTag = 0
    Chunks = 1
    SemMax = 1
    PreemptQueue = FALSE
    MaxBurst = 0
    ClientRuns = TRUE
PROPERTIES Quiesce
