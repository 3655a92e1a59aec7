-------------------------------- MODULE Heap --------------------------------
(* The board's allocator, src/mem/lib_mem.c: a first-fit free list, linked *)
(* in address order through headers that lie in the heap itself, in front  *)
(* of the bytes they describe.  Addresses are offsets in ucHeap.           *)
(*                                                                         *)
(* The lock of the original (OSSchedLock) is commented out.  The tasks     *)
(* that allocate do so before they block for the first time, the highest   *)
(* priority first, so their calls do not overlap and each is one step.     *)
EXTENDS Integers, FiniteSets

CONSTANTS
    HeapSize,      \* xTotalHeapSize
    Word,          \* size_t counts modulo Word: 2^32 on the board
    Requests       \* the sizes asked for

BYTE_ALIGNMENT == 8                   \* portBYTE_ALIGNMENT
StructSize     == 8                   \* heapSTRUCT_SIZE, of a pointer and a size
MinBlock       == 2 * StructSize      \* heapMINIMUM_BLOCK_SIZE

NULL  == 0
Start == 4                            \* &xStart, in the RAM below the heap
Base  == BYTE_ALIGNMENT               \* pucAlignedHeap
End   == Base + HeapSize - StructSize \* pxEnd

ASSUME HeapSizeAssumption ==
    /\ HeapSize \in Nat /\ HeapSize % BYTE_ALIGNMENT = 0
    /\ HeapSize > MinBlock
ASSUME WordAssumption == Word \in Nat /\ Word % 2 = 0 /\ HeapSize + 4 * StructSize < Word \div 2
ASSUME RequestsAssumption == Requests \subseteq 0..(Word - 1)

VARIABLES
    ready,         \* pxEnd # NULL: prvHeapInit has run
    header,        \* the xBlockLink at each address where one is in use
    freeBytes,     \* xFreeBytesRemaining
    held,          \* what the callers hold: pointer -> bytes asked for
    halted         \* a write through NULL took the board to its HardFault loop

vars == <<ready, header, freeBytes, held, halted>>

(* used is the top bit of xBlockSize, xBlockAllocatedBit.                  *)
Link(next, size, used) == [next |-> next, size |-> size, used |-> used]

Init == /\ ready = FALSE
        /\ header = [a \in {} |-> Link(NULL, 0, FALSE)]
        /\ freeBytes = HeapSize
        /\ held = [p \in {} |-> 0]
        /\ halted = FALSE

-----------------------------------------------------------------------------
(* prvHeapInit: one free block up to pxEnd.                                *)
HeapInit == [a \in {Start, Base, End} |->
                 CASE a = Start -> Link(Base, 0, FALSE)
                   [] a = Base  -> Link(End, HeapSize - StructSize, FALSE)
                   [] OTHER     -> Link(NULL, 0, FALSE)]

Blocks(H) == DOMAIN H \ {Start, End}
FreeBlocks(H) == {b \in Blocks(H) : ~H[b].used}
Nodes(H) == {Start, End} \cup FreeBlocks(H)

(* The header a loop over the list stops at: the loop's exit condition     *)
(* singles it out because the list is in address order (Linked, below).    *)
Before(H, b) == CHOOSE n \in Nodes(H) \ {b, End} : n < b /\ H[n].next >= b

(* Seeded fault: the block before is not merged with.                      *)
NeverTouches(H, a, b) == a + H[a].size = b /\ a = Start

(* The test for a contiguous block of memory.                              *)
Touches(H, a, b) == a + H[a].size = b

(* The first half of prvInsertBlockIntoFreeList: merge b into the block    *)
(* before it, or link it in behind it.  A header that is merged away       *)
(* becomes bytes of a block.                                               *)
JoinedBefore(H, b, prev) ==
    IF Touches(H, prev, b)
    THEN [h \in DOMAIN H \ {b} |->
            IF h = prev THEN [H[h] EXCEPT !.size = H[prev].size + H[b].size] ELSE H[h]]
    ELSE [h \in DOMAIN H |->
            CASE h = prev -> [H[h] EXCEPT !.next = b]
              [] h = b    -> [H[h] EXCEPT !.next = H[prev].next]
              [] OTHER    -> H[h]]

(* Seeded fault: pxEnd, too, is merged with.                               *)
JoinedAfterEnd(H, b) ==
    LET next == H[b].next
    IN IF Touches(H, b, next)
       THEN [h \in DOMAIN H \ {next} |->
               IF h = b THEN Link(H[next].next, H[b].size + H[next].size, H[b].used)
               ELSE H[h]]
       ELSE H

(* The second half: merge the block after it, unless that is pxEnd.        *)
JoinedAfter(H, b) ==
    LET next == H[b].next
    IN IF Touches(H, b, next) /\ next # End
       THEN [h \in DOMAIN H \ {next} |->
               IF h = b THEN Link(H[next].next, H[b].size + H[next].size, H[b].used)
               ELSE H[h]]
       ELSE H

InsertBlockIntoFreeList(H, b) ==
    LET prev == Before(H, b)
    IN JoinedAfter(JoinedBefore(H, b, prev), IF Touches(H, prev, b) THEN prev ELSE b)

(* Seeded fault: sizes are not rounded up.                                 *)
RoundUpNot(n) == n

(* The block's size for a request of n bytes: room for the header, rounded *)
(* up to the alignment; 0 stays 0.                                         *)
RoundUp(n) == IF n % BYTE_ALIGNMENT = 0 THEN n
              ELSE n + BYTE_ALIGNMENT - (n % BYTE_ALIGNMENT)

(* Seeded fault: the header of the block itself is forgotten.              *)
WantedNoHeader(n) == IF n = 0 THEN 0 ELSE RoundUp(n) % Word

Wanted(n) == IF n = 0 THEN 0 ELSE RoundUp(n + StructSize) % Word

(* The blocks the first-fit loop would stop at; it stops at the lowest.    *)
Fits(H, wanted) == {b \in FreeBlocks(H) : H[b].size >= wanted}
Lowest(S) == CHOOSE b \in S : \A c \in S : b <= c

(* Take block b out of the list for wanted bytes and give back what is     *)
(* left of it when that is more than the smallest block.                   *)
Unlinked(H, b) == [h \in DOMAIN H |->
    IF h = b THEN Link(NULL, H[b].size, TRUE)
    ELSE IF H[h].next = b THEN [H[h] EXCEPT !.next = H[b].next] ELSE H[h]]
Splits(H, b, wanted) == H[b].size - wanted > MinBlock
SplitOff(H, b, wanted) ==
    [h \in DOMAIN H \cup {b + wanted} |->
       CASE h = b          -> Link(NULL, wanted, TRUE)
         [] h = b + wanted -> Link(NULL, H[b].size - wanted, FALSE)
         [] OTHER          -> H[h]]
Carved(H, b, wanted) ==
    IF Splits(H, b, wanted)
    THEN InsertBlockIntoFreeList(SplitOff(Unlinked(H, b), b, wanted), b + wanted)
    ELSE Unlinked(H, b)

-----------------------------------------------------------------------------
Heap0 == IF ready THEN header ELSE HeapInit
Free0 == IF ready THEN freeBytes ELSE freeBytes - StructSize

(* The tests of pvPortMalloc: a request with the top bit set, of nothing,  *)
(* or of more than is free or than any one block has returns NULL.         *)
Refused(n) == \/ n >= Word \div 2
              \/ n = 0
              \/ Wanted(n) > Free0
              \/ Fits(Heap0, Wanted(n)) = {}

MallocNull(n) ==
    /\ Refused(n)
    /\ ready' = TRUE
    /\ header' = Heap0
    /\ freeBytes' = Free0
    /\ UNCHANGED held

(* Seeded fault: what was asked for is deducted, not what was taken.       *)
DeductedWanted(H, b, wanted) == wanted

(* The block is deducted as it is, when it was not worth splitting.        *)
Deducted(H, b, wanted) == H[b].size

MallocBlock(n) ==
    /\ ~Refused(n)
    /\ ready' = TRUE
    /\ LET b == Lowest(Fits(Heap0, Wanted(n)))
       IN /\ header' = Carved(Heap0, b, Wanted(n))
          /\ freeBytes' = Free0 - Deducted(header', b, Wanted(n))
          /\ held' = [p \in DOMAIN held \cup {b + StructSize} |->
                        IF p = b + StructSize THEN n ELSE held[p]]

pvPortMalloc == /\ ~halted
                /\ \E n \in Requests : MallocNull(n) \/ MallocBlock(n)
                /\ UNCHANGED halted

(* pvPortCalloc clears what pvPortMalloc returned without testing it: for  *)
(* NULL it writes from address 0, which the memory map may refuse.         *)
pvPortCalloc == /\ ~halted
                /\ \E n \in Requests :
                      \/ MallocNull(n) /\ halted' \in {n > 0, FALSE}
                      \/ MallocBlock(n) /\ UNCHANGED halted

(* vPortFree of a pointer a caller holds.                                  *)
Released(H, b) == [H EXCEPT ![b].used = FALSE]
vPortFree ==
    /\ ~halted
    /\ \E p \in DOMAIN held :
         LET b == p - StructSize
         IN /\ held' = [q \in DOMAIN held \ {p} |-> held[q]]
            /\ IF header[b].used /\ header[b].next = NULL
               THEN /\ freeBytes' = freeBytes + header[b].size
                    /\ header' = InsertBlockIntoFreeList(Released(header, b), b)
               ELSE UNCHANGED <<freeBytes, header>>
    /\ UNCHANGED <<ready, halted>>

Next == pvPortMalloc \/ pvPortCalloc \/ vPortFree

Spec == Init /\ [][Next]_vars

-----------------------------------------------------------------------------
(* Properties.                                                             *)

Addresses == {a \in Base..End : a % BYTE_ALIGNMENT = 0}

Headers(H) ==
    /\ DOMAIN H \subseteq Addresses \cup {Start}
    /\ H \in [DOMAIN H -> [next : Addresses \cup {NULL}, size : 0..HeapSize, used : BOOLEAN]]
    /\ \A h \in DOMAIN H : H[h].size % BYTE_ALIGNMENT = 0

(* Headers and the pointers handed out are aligned and in the heap.        *)
TypeOK ==
    /\ ready \in BOOLEAN /\ halted \in BOOLEAN
    /\ Headers(header)
    /\ freeBytes \in Int
    /\ DOMAIN held \subseteq Addresses
    /\ \A p \in DOMAIN held : held[p] \in Requests

(* What a caller may write into, the bytes it asked for, lies in the heap  *)
(* and meets neither another caller's bytes nor any header of the list or  *)
(* of a block in use.                                                      *)
Apart(a, m, b, n) == a + m <= b \/ b + n <= a
BytesApart ==
    \A p \in DOMAIN held :
        /\ Base < p /\ p + held[p] <= End
        /\ \A q \in DOMAIN held \ {p} : Apart(p, held[p], q, held[q])
        /\ \A h \in DOMAIN header : Apart(p, held[p], h, StructSize)

(* xFreeBytesRemaining, which pvPortMalloc trusts to refuse a request and  *)
(* which nothing recomputes, is the number of bytes in the free blocks,    *)
(* none of which lies in two of them (Tiled, below).                       *)
Bytes(H, b) == b..(b + H[b].size - 1)
FreeSpace(H) == UNION {Bytes(H, b) : b \in FreeBlocks(H)}
FreeBytesExact == ready => freeBytes = Cardinality(FreeSpace(header))

(* No order of allocations and frees fragments the heap for good or loses  *)
(* a byte of it: when everything was given back there is one block again.  *)
MergedWhenAllFree ==
    ready /\ DOMAIN held = {} => header = HeapInit

-----------------------------------------------------------------------------
(* The structure of the heap, on which those properties rest.              *)

(* The blocks tile the heap: each ends where a header is, and no header    *)
(* lies inside one.                                                        *)
Tiled(H) ==
    /\ {Start, Base, End} \subseteq DOMAIN H
    /\ \A b \in Blocks(H) :
         /\ H[b].size >= 2 * StructSize
         /\ b + H[b].size \in DOMAIN H
         /\ \A h \in DOMAIN H : h <= b \/ b + H[b].size <= h

(* The list holds the free blocks (but not u) in the order of addresses,   *)
(* and no block in use.                                                    *)
LinkedBut(H, u) ==
    LET nodes == Nodes(H) \ {u}
    IN /\ \A n \in nodes \ {End} :
            /\ H[n].next \in nodes /\ n < H[n].next
            /\ \A m \in nodes : m <= n \/ H[n].next <= m
       /\ \A b \in Blocks(H) : H[b].used => H[b].next = NULL
       /\ H[Start].size = 0 /\ ~H[Start].used
       /\ H[End] = Link(NULL, 0, FALSE)
Linked(H) == LinkedBut(H, NULL)

(* No free block (but u) ends where another begins.                        *)
MergedBut(H, u) ==
    \A b, c \in FreeBlocks(H) \ {u} : b + H[b].size # c
Merged(H) == MergedBut(H, NULL)

(* A block in use is the block of one pointer and has the bytes asked for. *)
InUse(H) ==
    /\ \A b \in Blocks(H) : H[b].used <=> b + StructSize \in DOMAIN held
    /\ \A p \in DOMAIN held :
         /\ p - StructSize \in Blocks(H)
         /\ held[p] + StructSize <= H[p - StructSize].size

Structure ==
    IF ready THEN Tiled(header) /\ Linked(header) /\ Merged(header) /\ InUse(header)
             ELSE DOMAIN header = {} /\ DOMAIN held = {} /\ freeBytes = HeapSize
=============================================================================
