SPECIFICATION FairSpec
CONSTANTS
    c1 = c1
    b1 = b1
    b2 = b2
    Server = Server
    Play = Play
    Client = Client
    InCells <- MCInCells
    Netbufs <- MCNetbufs
    MboxSize = 4
    FreeBlocks <- MCFreeBlocks
INVARIANTS TypeOK NeverFull OnePlace CallMatched BothSockets HeapAlone
PROPERTIES KernelKept StartsUp CallsAnswered NetbufsReturn
