SPECIFICATION Spec
CONSTANTS
    HeapSize = 136
    Word = 512
    Requests <- MCRequests
INVARIANTS TypeOK BytesApart FreeBytesExact MergedWhenAllFree Structure
CHECK_DEADLOCK FALSE
