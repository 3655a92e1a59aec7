----------------------------- MODULE HeapProofs -----------------------------
(* What holds of Heap for every size of the heap, every width of size_t    *)
(* and every set of requests: the structure of the heap is inductive, and  *)
(* no caller's bytes meet another's or a header.                           *)
EXTENDS Heap, FiniteSetTheorems, WellFoundedInduction, TLAPS

USE DEF Base, BYTE_ALIGNMENT, StructSize, MinBlock, NULL, Start

-----------------------------------------------------------------------------
(* Sets of numbers.                                                        *)

(* A nonempty set of bounded naturals has a least element: the sets of     *)
(* smaller elements are finite and strictly ordered by inclusion.          *)
LEMMA LowestExists ==
    ASSUME NEW m \in Int, NEW S \in SUBSET (0..m), S # {}
    PROVE  \E b \in S : \A c \in S : b <= c
<1> DEFINE D == 0..m
           Below(x) == {y \in S : y < x}
           F == {Below(x) : x \in S}
           R == StrictSubsetOrdering(D)
<1>1. \A x \in S : x \in Int
  OBVIOUS
<1>2. IsFiniteSet(D)
  BY FS_Interval
<1>3. \A x \in S : Below(x) \subseteq D
  OBVIOUS
<1>4. IsWellFoundedOn(R, FiniteSubsetsOf(D))
  BY FS_StrictSubsetOrderingWellFounded, Zenon
<1>5. F \subseteq FiniteSubsetsOf(D)
  BY <1>2, <1>3, FS_Subset, Zenon DEF FiniteSubsetsOf
<1>6. F # {}
  OBVIOUS
<1>7. \E U \in F : \A V \in F : ~ (<<V, U>> \in R)
  BY <1>4, <1>5, <1>6, WFMin, Zenon
<1>8. PICK x \in S : \A V \in F : ~ (<<V, Below(x)>> \in R)
  BY <1>7, Zenon
<1>9. ASSUME NEW c \in S, c < x PROVE FALSE
  <2>1. \A y \in S : y < c => y < x
    BY <1>1, <1>9
  <2>2. c \in Below(x) /\ ~(c < c)
    BY <1>1, <1>9
  <2>3. Below(c) \subseteq Below(x) /\ Below(c) # Below(x)
    BY <2>1, <2>2, Zenon
  <2>4. <<Below(c), Below(x)>> \in R
    BY <1>3, <2>3, Zenon DEF StrictSubsetOrdering
  <2> QED BY <1>8, <2>4, Zenon
<1> QED BY <1>1, <1>9

(* And a greatest one: the least distance to the bound.                    *)
LEMMA HighestExists ==
    ASSUME NEW m \in Int, NEW S \in SUBSET (0..m), S # {}
    PROVE  \E b \in S : \A c \in S : c <= b
<1> DEFINE T == {m - s : s \in S}
<1>1. T \in SUBSET (0..m) /\ T # {}
  <2>1. \A s \in S : s \in 0..m /\ m - s \in 0..m
    OBVIOUS
  <2>2. PICK s \in S : TRUE
    OBVIOUS
  <2>3. m - s \in T
    OBVIOUS
  <2>4. \A t \in T : \E c \in S : t = m - c
    OBVIOUS
  <2> HIDE DEF T
  <2>5. \A t \in T : t \in 0..m
    BY <2>1, <2>4
  <2> QED BY <2>3, <2>5
<1> HIDE DEF T
<1>2. PICK t \in T : \A u \in T : t <= u
  BY <1>1, LowestExists
<1>3. PICK s \in S : t = m - s
  BY DEF T
<1>4. \A c \in S : m - c \in T
  BY DEF T
<1> QED BY <1>2, <1>3, <1>4

(* The block for a request is aligned and has room for the request and its *)
(* header; nothing wraps around, because the top bit was tested.           *)
LEMMA WantedIsEnough ==
    ASSUME NEW n \in Requests, n < Word \div 2, n # 0
    PROVE  /\ Wanted(n) \in Nat /\ Wanted(n) % BYTE_ALIGNMENT = 0
           /\ n + StructSize <= Wanted(n) /\ 2 * StructSize <= Wanted(n)
<1>1. n \in Nat /\ Word \in Nat /\ 32 < Word \div 2
  BY HeapSizeAssumption, WordAssumption, RequestsAssumption
<1> DEFINE r == RoundUp(n + StructSize)
<1>2. r \in Nat /\ r % 8 = 0 /\ n + 8 <= r /\ r < n + 16
  BY <1>1 DEF RoundUp
<1>3. 2 * (Word \div 2) <= Word
  BY <1>1
<1>4. 16 <= r /\ r < Word
  BY <1>1, <1>2, <1>3
<1> HIDE DEF r
<1>5. r % Word = r
  BY <1>1, <1>2, <1>4
<1>6. Wanted(n) = r
  BY <1>5 DEF Wanted, r
<1> QED BY <1>2, <1>4, <1>6

-----------------------------------------------------------------------------
(* The free list.                                                          *)

(* The heap is in order, but for a free block u that is in no list yet.    *)
Good(H, u) == Headers(H) /\ Tiled(H) /\ LinkedBut(H, u) /\ MergedBut(H, u)

(* Addresses are numbers, Start is the lowest header and End the highest.  *)
LEMMA AddressFacts ==
    ASSUME NEW H, Headers(H)
    PROVE  /\ End \in Nat /\ End % 8 = 0 /\ End >= 24 /\ End = HeapSize
           /\ \A a \in DOMAIN H \ {Start} : a \in Nat /\ 8 <= a /\ a <= End /\ a % 8 = 0
           /\ \A a \in DOMAIN H : a \in Nat /\ 4 <= a /\ a <= End
           /\ \A a \in DOMAIN H : H[a].size \in Nat /\ H[a].size % 8 = 0
           /\ \A a \in DOMAIN H : H[a].next \in Nat /\ H[a].used \in BOOLEAN
<1>1. HeapSize \in Nat /\ HeapSize % 8 = 0 /\ HeapSize > 16
  BY HeapSizeAssumption
<1>2. HeapSize >= 24
  BY <1>1
<1>3. End = HeapSize
  BY <1>1 DEF End
<1>4. \A a \in Addresses : a \in Nat /\ 8 <= a /\ a <= End /\ a % 8 = 0
  BY <1>1, <1>3 DEF Addresses
<1>5. \A a \in DOMAIN H : H[a] \in [next : Addresses \cup {NULL}, size : 0..HeapSize, used : BOOLEAN]
  BY DEF Headers
<1>6. \A a \in DOMAIN H : H[a].size \in Nat /\ H[a].size % 8 = 0
  BY <1>1, <1>5 DEF Headers
<1>7. \A a \in DOMAIN H : H[a].next \in Nat
  BY <1>4, <1>5
<1>7a. \A a \in DOMAIN H : H[a].used \in BOOLEAN
  BY <1>5
<1>8. \A a \in DOMAIN H \ {Start} : a \in Addresses
  BY DEF Headers
<1>9. \A a \in DOMAIN H : a \in Nat /\ 4 <= a /\ a <= End
  BY <1>1, <1>2, <1>3, <1>4, <1>8
<1> QED BY <1>1, <1>2, <1>3, <1>4, <1>6, <1>7, <1>7a, <1>8, <1>9

(* The loop of prvInsertBlockIntoFreeList finds the place in the order.    *)
LEMMA BeforeIsThere ==
    ASSUME NEW H, NEW b \in FreeBlocks(H), Good(H, b)
    PROVE  /\ Before(H, b) \in Nodes(H) \ {b, End}
           /\ Before(H, b) < b /\ b < H[Before(H, b)].next
           /\ H[Before(H, b)].next \in Nodes(H) \ {b}
<1> DEFINE S == {n \in Nodes(H) \ {b, End} : n < b}
           nodes == Nodes(H) \ {b}
<1>0. Headers(H) /\ b \in DOMAIN H /\ b # Start /\ b # End
  BY DEF Good, FreeBlocks, Blocks
<1>1. nodes \subseteq DOMAIN H
  BY DEF Good, Tiled, Nodes, FreeBlocks, Blocks
<1>2. b < End /\ Start < b /\ Start # End /\ End \in Int
  BY <1>0, AddressFacts
<1>3. S \in SUBSET (0..End)
  BY <1>0, <1>1, AddressFacts
<1>4. S # {}
  <2>1. Start \in S
    BY <1>2 DEF Nodes
  <2> QED BY <2>1
<1>5. PICK n \in S : \A m \in S : m <= n
  BY <1>2, <1>3, <1>4, HighestExists
<1>6. H[n].next \in nodes /\ n < H[n].next
  BY <1>5 DEF Good, LinkedBut
<1>7. H[n].next \in Nat /\ n \in Nat /\ b \in Nat
  BY <1>0, <1>1, <1>5, <1>6, AddressFacts
<1>8. ~(H[n].next < b)
  BY <1>2, <1>5, <1>6, <1>7
<1>9. \E x \in Nodes(H) \ {b, End} : x < b /\ H[x].next >= b
  BY <1>5, <1>7, <1>8
<1>10. Before(H, b) \in Nodes(H) \ {b, End} /\ Before(H, b) < b /\ H[Before(H, b)].next >= b
  BY <1>9 DEF Before
<1>11. H[Before(H, b)].next \in nodes
  BY <1>10 DEF Good, LinkedBut
<1>12. H[Before(H, b)].next \in Nat
  BY <1>0, <1>1, <1>11, AddressFacts
<1> QED BY <1>7, <1>10, <1>11, <1>12

(* What a step of the list code leaves alone: the blocks in use.           *)
SameInUse(H, G) ==
    /\ \A h \in Blocks(H) : H[h].used => h \in Blocks(G) /\ G[h] = H[h]
    /\ \A h \in Blocks(G) : G[h].used => h \in Blocks(H) /\ H[h].used

(* Only the block at a may end where a free block begins.                  *)
MergedButAfter(H, a) ==
    \A b, c \in FreeBlocks(H) : b + H[b].size = c => b = a

(* The first half, where b is linked in behind the block before it.        *)
LEMMA LinkedInBefore ==
    ASSUME NEW H, NEW b \in FreeBlocks(H), Good(H, b), NEW prev,
           prev = Before(H, b), ~Touches(H, prev, b), NEW G, G = JoinedBefore(H, b, prev)
    PROVE  /\ Headers(G) /\ Tiled(G) /\ Linked(G) /\ MergedButAfter(G, b)
           /\ b \in FreeBlocks(G) /\ SameInUse(H, G)
<1>0. Headers(H) /\ Tiled(H) /\ LinkedBut(H, b) /\ MergedBut(H, b)
  BY DEF Good
<1>1. b \in DOMAIN H /\ b # Start /\ b # End /\ ~H[b].used
  BY DEF FreeBlocks, Blocks
<1>2. /\ prev \in Nodes(H) \ {b, End} /\ prev < b /\ b < H[prev].next
      /\ H[prev].next \in Nodes(H) \ {b}
  BY BeforeIsThere
<1>3. prev \in DOMAIN H /\ H[prev].next \in DOMAIN H
  BY <1>0, <1>2 DEF Tiled, Nodes, FreeBlocks, Blocks
<1>4. DOMAIN G = DOMAIN H
  BY DEF JoinedBefore
<1>a. /\ Nodes(H) \subseteq DOMAIN H /\ \A x \in Nodes(H) : x \in Nat
      /\ b \in Nat /\ b \in Nodes(H) /\ NULL \notin Nodes(H)
  BY <1>0, <1>1, AddressFacts DEF Nodes, FreeBlocks, Blocks, Tiled
<1>b. \A n \in Nodes(H) \ {b, End} :
        /\ H[n].next \in Nodes(H) \ {b} /\ n < H[n].next
        /\ \A m \in Nodes(H) \ {b} : m <= n \/ H[n].next <= m
  BY <1>0 DEF LinkedBut
<1>c. /\ prev \in Nat /\ H[prev].next \in Nat
      /\ \A m \in Nodes(H) \ {b} : m <= prev \/ H[prev].next <= m
  <2>1. \A m \in Nodes(H) \ {b} : m <= prev \/ H[prev].next <= m
    BY <1>2, <1>b
  <2> QED BY <1>2, <1>a, <2>1
<1>5. /\ G[prev].next = b /\ G[b].next = H[prev].next
      /\ \A h \in DOMAIN H \ {prev, b} : G[h] = H[h]
      /\ \A h \in DOMAIN H : G[h].size = H[h].size /\ G[h].used = H[h].used
  BY <1>0, <1>1, <1>2, <1>3 DEF JoinedBefore, Headers
<1>6. Nodes(G) = Nodes(H) /\ FreeBlocks(G) = FreeBlocks(H) /\ Blocks(G) = Blocks(H)
  BY <1>4, <1>5 DEF Nodes, FreeBlocks, Blocks
<1>7. Headers(G)
  <2>1. H[prev].next \in Addresses /\ b \in Addresses
    <3>1. H[prev].next # Start
      BY <1>0, <1>1, <1>2, <1>3, AddressFacts
    <3> QED BY <1>0, <1>1, <1>3, <3>1 DEF Headers
  <2>2. G \in [DOMAIN G -> [next : Addresses \cup {NULL}, size : 0..HeapSize, used : BOOLEAN]]
    BY <1>0, <1>1, <1>3, <2>1 DEF JoinedBefore, Headers
  <2> QED BY <1>0, <1>4, <1>5, <2>2 DEF Headers
<1>8. Tiled(G)
  <2>1. \A x \in Blocks(H) : x \in DOMAIN H /\ G[x].size = H[x].size
    BY <1>5 DEF Blocks
  <2> QED BY <1>0, <1>4, <1>6, <2>1 DEF Tiled
<1>9. SameInUse(H, G)
  <2>1. \A h \in Blocks(H) : H[h].used => h # prev /\ h # b
    BY <1>1, <1>2 DEF Nodes, FreeBlocks, Blocks
  <2> QED BY <1>4, <1>5, <1>6, <2>1 DEF SameInUse, Blocks
<1>10. Linked(G)
  <2>1. NULL \notin Nodes(G)
    BY <1>6, <1>a
  <2>2. ASSUME NEW n \in Nodes(G) \ {End}
        PROVE  /\ G[n].next \in Nodes(G) /\ n < G[n].next
               /\ \A m \in Nodes(G) : m <= n \/ G[n].next <= m
    <3>1. n \in Nodes(H) \ {End}
      BY <1>6
    <3>2. CASE n = b
      <4>1. ASSUME NEW m \in Nodes(H) \ {b} PROVE m <= b \/ H[prev].next <= m
        <5>1. m \in Nat /\ (m <= prev \/ H[prev].next <= m)
          BY <1>a, <1>c
        <5> QED BY <1>2, <1>a, <1>c, <5>1
      <4> QED BY <1>2, <1>5, <1>6, <1>a, <3>2, <4>1
    <3>3. CASE n = prev
      <4>1. ASSUME NEW m \in Nodes(H) \ {b} PROVE m <= prev \/ b <= m
        <5>1. m \in Nat /\ (m <= prev \/ H[prev].next <= m)
          BY <1>a, <1>c
        <5> QED BY <1>2, <1>a, <1>c, <5>1
      <4> QED BY <1>2, <1>5, <1>6, <1>a, <3>3, <4>1
    <3>4. CASE n \notin {b, prev}
      <4>1. G[n] = H[n] /\ n \in Nodes(H) \ {b, End}
        BY <1>5, <1>a, <3>1, <3>4
      <4>2. b <= n \/ H[n].next <= b
        <5>1. prev <= n \/ H[n].next <= prev
          BY <1>2, <1>b, <4>1
        <5>2. n <= prev \/ H[prev].next <= n
          BY <1>2, <1>b, <4>1
        <5>3. H[n].next \in Nat /\ H[prev].next \in Nat /\ n \in Nat /\ prev \in Nat
          BY <1>2, <1>a, <1>b, <4>1
        <5> QED BY <1>2, <1>a, <3>4, <5>1, <5>2, <5>3
      <4> QED BY <1>6, <1>b, <4>1, <4>2
    <3> QED BY <3>2, <3>3, <3>4
  <2>4. G[Start].size = 0 /\ ~G[Start].used /\ G[End] = Link(NULL, 0, FALSE)
    BY <1>0, <1>1, <1>2, <1>5 DEF LinkedBut, Tiled
  <2>5. \A h \in Blocks(G) : G[h].used => G[h].next = NULL
    BY <1>0, <1>9 DEF LinkedBut, SameInUse
  <2> QED BY <2>1, <2>2, <2>4, <2>5 DEF Linked, LinkedBut
<1>11. MergedButAfter(G, b)
  <2> SUFFICES ASSUME NEW x \in FreeBlocks(G), NEW y \in FreeBlocks(G),
                      x + G[x].size = y, x # b
               PROVE  FALSE
    BY DEF MergedButAfter
  <2>1. x \in FreeBlocks(H) /\ y \in FreeBlocks(H) /\ x + H[x].size = y
    BY <1>5, <1>6 DEF FreeBlocks, Blocks
  <2>2. y = b
    BY <1>0, <2>1 DEF MergedBut
  <2>3. x \in Nodes(H) \ {b, End} /\ x \in Blocks(H) /\ H[x].size >= 16
    BY <1>0, <2>1 DEF Nodes, FreeBlocks, Blocks, Tiled
  <2>4. x <= prev
    <3>1. x <= prev \/ H[prev].next <= x
      BY <1>2, <1>b, <2>3
    <3>2. x < b
      BY <1>0, <1>a, <2>1, <2>2, <2>3, AddressFacts DEF Blocks
    <3> QED BY <1>2, <1>a, <2>3, <3>1, <3>2
  <2>5. prev <= x \/ b <= prev
    BY <1>0, <1>3, <2>1, <2>2, <2>3 DEF Tiled
  <2>6. prev = x
    <3>1. x \in Nat
      BY <1>a, <2>3
    <3> QED BY <1>2, <1>a, <1>c, <2>4, <2>5, <3>1
  <2> QED BY <2>1, <2>2, <2>6 DEF Touches
<1> QED BY <1>6, <1>7, <1>8, <1>9, <1>10, <1>11

(* Two blocks that touch become one: the heap stays tiled.                 *)
LEMMA MergeTiles ==
    ASSUME NEW H, Headers(H), Tiled(H), NEW x \in Blocks(H), NEW y \in Blocks(H),
           x + H[x].size = y,
           NEW G, DOMAIN G = DOMAIN H \ {y}, G[x].size = H[x].size + H[y].size,
           \A h \in DOMAIN H \ {x, y} : G[h] = H[h]
    PROVE  Tiled(G) /\ G[x].size \in 0..HeapSize /\ G[x].size % 8 = 0
<1>1. /\ Blocks(H) \subseteq DOMAIN H /\ Blocks(G) = Blocks(H) \ {y}
      /\ x \in DOMAIN H /\ x # Start /\ x # End /\ y \in DOMAIN H /\ y # Start /\ y # End
  BY DEF Blocks
<1>2. /\ \A h \in DOMAIN H : h \in Nat /\ h <= End /\ H[h].size \in Nat /\ H[h].size % 8 = 0
      /\ 8 <= x /\ End = HeapSize /\ HeapSize \in Nat
  BY <1>1, AddressFacts
<1>3. \A b \in Blocks(H) : /\ H[b].size >= 16 /\ b + H[b].size \in DOMAIN H
                            /\ \A h \in DOMAIN H : h <= b \/ b + H[b].size <= h
  BY DEF Tiled
<1>4. y + H[y].size \in DOMAIN H /\ H[x].size >= 16 /\ H[y].size >= 16
  BY <1>3
<1>5. G[x].size \in 0..HeapSize /\ G[x].size % 8 = 0
  BY <1>1, <1>2, <1>4
<1>6. x + G[x].size = y + H[y].size
  BY <1>1, <1>2
<1>7. ASSUME NEW b \in Blocks(G)
      PROVE  /\ G[b].size >= 2 * StructSize /\ b + G[b].size \in DOMAIN G
             /\ \A h \in DOMAIN G : h <= b \/ b + G[b].size <= h
  <2>1. CASE b = x
    <3>1. x + G[x].size \in DOMAIN G
      BY <1>1, <1>2, <1>4, <1>6
    <3>2. ASSUME NEW h \in DOMAIN G PROVE h <= x \/ x + G[x].size <= h
      <4>1. h \in DOMAIN H /\ h # y /\ h \in Nat
        BY <1>2
      <4>2. (h <= x \/ y <= h) /\ (h <= y \/ y + H[y].size <= h)
        BY <1>3, <4>1
      <4> QED BY <1>1, <1>2, <1>6, <4>1, <4>2
    <3> QED BY <1>1, <1>2, <1>4, <2>1, <3>1, <3>2
  <2>2. CASE b # x
    <3>1. b \in Blocks(H) /\ b # y /\ b \in DOMAIN H /\ G[b] = H[b]
      BY <1>1, <2>2
    <3>2. b + H[b].size # y
      <4>1. (b <= x \/ x + H[x].size <= b) /\ (x <= b \/ b + H[b].size <= x)
        BY <1>1, <1>3, <3>1
      <4> QED BY <1>1, <1>2, <1>3, <2>2, <3>1, <4>1
    <3> QED BY <1>3, <3>1, <3>2
  <2> QED BY <2>1, <2>2
<1>8. {Start, Base, End} \subseteq DOMAIN G
  <2>1. y # Base
    BY <1>1, <1>2, <1>4
  <2> QED BY <1>1, <2>1 DEF Tiled
<1> QED BY <1>5, <1>7, <1>8 DEF Tiled

(* The first half, where b becomes part of the block before it.            *)
LEMMA MergedBefore ==
    ASSUME NEW H, NEW b \in FreeBlocks(H), Good(H, b), NEW prev,
           prev = Before(H, b), Touches(H, prev, b), NEW G, G = JoinedBefore(H, b, prev)
    PROVE  /\ Headers(G) /\ Tiled(G) /\ Linked(G) /\ MergedButAfter(G, prev)
           /\ prev \in FreeBlocks(G) /\ SameInUse(H, G)
<1>0. Headers(H) /\ Tiled(H) /\ LinkedBut(H, b) /\ MergedBut(H, b)
  BY DEF Good
<1>1. b \in DOMAIN H /\ b # Start /\ b # End /\ ~H[b].used /\ b \in Blocks(H)
  BY DEF FreeBlocks, Blocks
<1>2. prev \in Nodes(H) \ {b, End} /\ prev < b
  BY BeforeIsThere
<1>3. prev # Start
  <2>1. b \in Nat /\ 8 <= b
    BY <1>0, <1>1, AddressFacts
  <2>2. H[Start].size = 0
    BY <1>0 DEF LinkedBut
  <2> QED BY <2>1, <2>2 DEF Touches
<1>4. prev \in FreeBlocks(H) /\ prev \in Blocks(H) /\ prev \in DOMAIN H /\ ~H[prev].used
  BY <1>2, <1>3 DEF Nodes, FreeBlocks, Blocks
<1>5. /\ DOMAIN G = DOMAIN H \ {b} /\ G[prev].size = H[prev].size + H[b].size
      /\ \A h \in DOMAIN H \ {prev, b} : G[h] = H[h]
      /\ \A h \in DOMAIN G : G[h].next = H[h].next /\ G[h].used = H[h].used
  BY <1>0, <1>1, <1>2, <1>4 DEF JoinedBefore, Headers
<1>6. Tiled(G) /\ G[prev].size \in 0..HeapSize /\ G[prev].size % 8 = 0
  <2>1. prev + H[prev].size = b
    BY DEF Touches
  <2>2. prev \in Blocks(H) /\ b \in Blocks(H) /\ Headers(H) /\ Tiled(H)
    BY <1>0, <1>1, <1>4
  <2>3. \A h \in DOMAIN H \ {prev, b} : G[h] = H[h]
    BY <1>5
  <2> QED BY <1>5, <2>1, <2>2, <2>3, MergeTiles
<1>7. Headers(G)
  <2>1. G \in [DOMAIN G -> [next : Addresses \cup {NULL}, size : 0..HeapSize, used : BOOLEAN]]
    BY <1>0, <1>4, <1>5, <1>6 DEF JoinedBefore, Headers
  <2>2. \A h \in DOMAIN G : G[h].size % BYTE_ALIGNMENT = 0
    BY <1>0, <1>5, <1>6 DEF Headers
  <2> QED BY <1>0, <1>5, <2>1, <2>2 DEF Headers
<1>8. /\ Blocks(G) = Blocks(H) \ {b} /\ FreeBlocks(G) = FreeBlocks(H) \ {b}
      /\ Nodes(G) = Nodes(H) \ {b}
  BY <1>1, <1>5 DEF Nodes, FreeBlocks, Blocks
<1>9. SameInUse(H, G)
  <2>1. \A h \in Blocks(H) : h \in DOMAIN H /\ (H[h].used => h # prev /\ h # b)
    BY <1>1, <1>4 DEF Blocks
  <2>2. \A h \in Blocks(G) : h \in Blocks(H) /\ h \in DOMAIN G
    BY <1>8 DEF Blocks
  <2>3. ASSUME NEW h \in Blocks(H), H[h].used PROVE h \in Blocks(G) /\ G[h] = H[h]
    BY <1>5, <1>8, <2>1, <2>3
  <2>4. ASSUME NEW h \in Blocks(G), G[h].used PROVE h \in Blocks(H) /\ H[h].used
    BY <1>5, <2>2, <2>4
  <2> QED BY <2>3, <2>4 DEF SameInUse
<1>10. Linked(G)
  <2>1. NULL \notin Nodes(G) /\ Nodes(G) \subseteq DOMAIN G
    BY <1>6, <1>7, AddressFacts DEF Nodes, FreeBlocks, Blocks, Tiled
  <2>2. \A n \in Nodes(G) : G[n].next = H[n].next
    BY <1>5, <2>1
  <2>3. Nodes(G) \ {NULL} = Nodes(H) \ {b}
    BY <1>8, <2>1
  <2>4. G[Start] = H[Start] /\ G[End] = H[End]
    BY <1>0, <1>1, <1>2, <1>3, <1>5 DEF Tiled
  <2>5. \A h \in Blocks(G) : G[h].used => G[h].next = NULL
    BY <1>0, <1>9 DEF LinkedBut, SameInUse
  <2> QED BY <1>0, <2>2, <2>3, <2>4, <2>5 DEF Linked, LinkedBut
<1>11. MergedButAfter(G, prev)
  BY <1>0, <1>5, <1>8 DEF MergedButAfter, MergedBut, FreeBlocks, Blocks
<1>12. prev \in FreeBlocks(G)
  BY <1>2, <1>4, <1>8
<1> QED BY <1>6, <1>7, <1>9, <1>10, <1>11, <1>12

(* The second half.                                                        *)
LEMMA AfterKeeps ==
    ASSUME NEW H, Headers(H), Tiled(H), Linked(H), NEW a \in FreeBlocks(H),
           MergedButAfter(H, a), NEW G, G = JoinedAfter(H, a)
    PROVE  Good(G, NULL) /\ SameInUse(H, G)
<1> DEFINE next == H[a].next
<1>1. /\ Nodes(H) \subseteq DOMAIN H /\ \A n \in Nodes(H) : n \in Nat
      /\ NULL \notin Nodes(H)
  BY AddressFacts DEF Nodes, FreeBlocks, Blocks, Tiled
<1>2. \A n \in Nodes(H) \ {End} :
        /\ H[n].next \in Nodes(H) /\ n < H[n].next
        /\ \A m \in Nodes(H) : m <= n \/ H[n].next <= m
  BY <1>1 DEF Linked, LinkedBut
<1>3. a \in Nodes(H) \ {Start, End} /\ a \in Blocks(H) /\ ~H[a].used /\ a \in DOMAIN H
  BY DEF Nodes, FreeBlocks, Blocks
<1>4. next \in Nodes(H) /\ a < next /\ next \in Nat /\ a \in Nat
  BY <1>1, <1>2, <1>3
<1>5. CASE Touches(H, a, next) /\ next # End
  <2>1. next \in FreeBlocks(H) /\ next \in Blocks(H) /\ ~H[next].used /\ next \in DOMAIN H
    <3>1. next # Start
      BY <1>3, <1>4, AddressFacts
    <3> QED BY <1>4, <1>5, <3>1 DEF Nodes, FreeBlocks, Blocks
  <2>2. G = [h \in DOMAIN H \ {next} |->
               IF h = a THEN Link(H[next].next, H[a].size + H[next].size, H[a].used) ELSE H[h]]
    BY <1>5 DEF JoinedAfter
  <2>3. /\ DOMAIN G = DOMAIN H \ {next} /\ G[a].size = H[a].size + H[next].size
        /\ G[a].next = H[next].next /\ G[a].used = H[a].used
        /\ \A h \in DOMAIN H \ {a, next} : G[h] = H[h]
    BY <1>3, <1>4, <2>2 DEF Link
  <2>4. Tiled(G) /\ G[a].size \in 0..HeapSize /\ G[a].size % 8 = 0
    BY <1>3, <1>5, <2>1, <2>3, MergeTiles DEF Touches
  <2>5. Headers(G)
    <3>1. G \in [DOMAIN G -> [next : Addresses \cup {NULL}, size : 0..HeapSize, used : BOOLEAN]]
      BY <1>3, <2>1, <2>2, <2>3, <2>4 DEF Headers, Link
    <3>2. \A h \in DOMAIN G : G[h].size % BYTE_ALIGNMENT = 0
      BY <2>3, <2>4 DEF Headers
    <3> QED BY <2>3, <3>1, <3>2 DEF Headers
  <2>6. /\ Blocks(G) = Blocks(H) \ {next} /\ FreeBlocks(G) = FreeBlocks(H) \ {next}
        /\ Nodes(G) = Nodes(H) \ {next}
    BY <1>3, <1>4, <2>1, <2>3 DEF Nodes, FreeBlocks, Blocks
  <2>7. ASSUME NEW n \in Nodes(G) \ {End}
        PROVE  /\ G[n].next \in Nodes(G) /\ n < G[n].next
               /\ \A m \in Nodes(G) : m <= n \/ G[n].next <= m
    <3>1. n \in Nodes(H) \ {End} /\ n # next /\ n \in Nat /\ n \in DOMAIN H
      BY <1>1, <2>6
    <3>2. CASE n = a
      <4>1. H[next].next \in Nodes(H) /\ next < H[next].next
        BY <1>2, <1>4, <1>5
      <4>2. ASSUME NEW m \in Nodes(G) PROVE m <= a \/ H[next].next <= m
        <5>1. m \in Nodes(H) /\ m # next /\ m \in Nat
          BY <1>1, <2>6
        <5>2. (m <= a \/ next <= m) /\ (m <= next \/ H[next].next <= m)
          BY <1>2, <1>3, <1>4, <1>5, <5>1
        <5> QED BY <1>4, <5>1, <5>2
      <4>3. H[next].next \in Nat
        BY <1>1, <4>1
      <4> QED BY <1>4, <2>3, <2>6, <3>2, <4>1, <4>2, <4>3
    <3>3. CASE n # a
      <4>1. G[n] = H[n] /\ H[n].next \in Nodes(H) /\ n < H[n].next
        BY <1>2, <2>3, <3>1, <3>3
      <4>2. H[n].next # next
        <5>1. (a <= n \/ H[n].next <= a) /\ (n <= a \/ next <= n)
          BY <1>2, <1>3, <3>1
        <5> QED BY <1>4, <3>1, <3>3, <4>1, <5>1
      <4> QED BY <1>2, <2>6, <3>1, <4>1, <4>2
    <3> QED BY <3>2, <3>3
  <2>8. SameInUse(H, G)
    BY <1>3, <2>1, <2>3, <2>6 DEF SameInUse, Blocks
  <2>9. Linked(G)
    <3>1. Nodes(G) \ {NULL} = Nodes(G)
      BY <1>1, <2>6
    <3>2. G[Start] = H[Start] /\ G[End] = H[End]
      BY <1>3, <1>5, <2>1, <2>3 DEF Tiled, Blocks
    <3>3. H[Start].size = 0 /\ ~H[Start].used /\ H[End] = Link(NULL, 0, FALSE)
      BY DEF Linked, LinkedBut
    <3>4. \A h \in Blocks(G) : G[h].used => G[h].next = NULL
      BY <2>8 DEF Linked, LinkedBut, SameInUse
    <3> QED BY <2>7, <3>1, <3>2, <3>3, <3>4 DEF Linked, LinkedBut
  <2>10. MergedBut(G, NULL)
    <3> SUFFICES ASSUME NEW x \in FreeBlocks(G), NEW y \in FreeBlocks(G), x + G[x].size = y
                 PROVE  FALSE
      BY DEF MergedBut
    <3>1. x \in FreeBlocks(H) /\ y \in FreeBlocks(H) /\ x \in DOMAIN H /\ x # next
      BY <2>6 DEF FreeBlocks, Blocks
    <3>2. x = a
      BY <2>3, <3>1 DEF MergedButAfter
    <3>3. next + H[next].size = y
      <4>1. H[a].size \in Nat /\ H[next].size \in Nat /\ a + H[a].size = next
        BY <1>3, <1>5, <2>1, AddressFacts DEF Touches
      <4> QED BY <1>4, <2>3, <3>2, <4>1
    <3>4. next = a
      BY <2>1, <3>1, <3>3 DEF MergedButAfter
    <3> QED BY <1>4, <3>4
  <2> QED BY <2>4, <2>5, <2>8, <2>9, <2>10 DEF Good, Linked
<1>6. CASE ~(Touches(H, a, next) /\ next # End)
  <2>1. G = H
    BY <1>6 DEF JoinedAfter
  <2>2. MergedBut(H, NULL)
    <3> SUFFICES ASSUME NEW x \in FreeBlocks(H), NEW y \in FreeBlocks(H), x + H[x].size = y
                 PROVE  FALSE
      BY DEF MergedBut
    <3>1. x = a
      BY DEF MergedButAfter
    <3>2. y \in Nodes(H) /\ y # End /\ y \in Nat /\ H[a].size >= 16 /\ H[a].size \in Nat
      BY <1>1, <1>3, AddressFacts DEF Nodes, FreeBlocks, Blocks, Tiled
    <3>3. y <= a \/ next <= y
      BY <1>2, <1>3, <3>2
    <3>4. next <= a \/ a + H[a].size <= next
      BY <1>1, <1>3, <1>4 DEF Tiled
    <3>5. y = next
      BY <1>4, <3>1, <3>2, <3>3, <3>4
    <3> QED BY <1>6, <3>1, <3>2, <3>5 DEF Touches
  <2>3. SameInUse(H, G)
    BY <2>1 DEF SameInUse
  <2> QED BY <2>1, <2>2, <2>3 DEF Good, Linked
<1> QED BY <1>5, <1>6

(* prvInsertBlockIntoFreeList puts the heap in order.                      *)
LEMMA InsertKeeps ==
    ASSUME NEW H, NEW b \in FreeBlocks(H), Good(H, b),
           NEW G, G = InsertBlockIntoFreeList(H, b)
    PROVE  Good(G, NULL) /\ SameInUse(H, G)
<1> DEFINE prev == Before(H, b)
           J == JoinedBefore(H, b, prev)
           a == IF Touches(H, prev, b) THEN prev ELSE b
<1>1. /\ Headers(J) /\ Tiled(J) /\ Linked(J) /\ MergedButAfter(J, a)
      /\ a \in FreeBlocks(J) /\ SameInUse(H, J)
  <2>1. CASE Touches(H, prev, b)
    BY <2>1, MergedBefore, Zenon
  <2>2. CASE ~Touches(H, prev, b)
    BY <2>2, LinkedInBefore, Zenon
  <2> QED BY <2>1, <2>2
<1>2. G = JoinedAfter(J, a)
  BY DEF InsertBlockIntoFreeList
<1> HIDE DEF J, a
<1>3. Good(G, NULL) /\ SameInUse(J, G)
  BY <1>1, <1>2, AfterKeeps
<1>4. SameInUse(H, G)
  BY <1>1, <1>3 DEF SameInUse
<1> QED BY <1>3, <1>4

-----------------------------------------------------------------------------
(* Allocation.                                                             *)

(* The other blocks in use are those of before.                            *)
SameInUseBut(H, G, b) ==
    /\ \A h \in Blocks(H) : H[h].used => h \in Blocks(G) /\ G[h] = H[h] /\ h # b
    /\ \A h \in Blocks(G) \ {b} : G[h].used => h \in Blocks(H) /\ H[h].used

(* A block taken out of the list leaves the rest of it in order.           *)
LEMMA UnlinkKeeps ==
    ASSUME NEW H, Good(H, NULL), NEW b \in FreeBlocks(H), NEW G, G = Unlinked(H, b)
    PROVE  /\ Good(G, NULL) /\ SameInUseBut(H, G, b)
           /\ DOMAIN G = DOMAIN H /\ G[b] = Link(NULL, H[b].size, TRUE)
<1>0. Headers(H) /\ Tiled(H) /\ LinkedBut(H, NULL) /\ MergedBut(H, NULL)
  BY DEF Good
<1>1. b \in DOMAIN H /\ b # Start /\ b # End /\ ~H[b].used /\ b \in Blocks(H) /\ b \in Nodes(H)
  BY DEF FreeBlocks, Blocks, Nodes
<1>2. /\ Nodes(H) \subseteq DOMAIN H /\ \A n \in Nodes(H) : n \in Nat
      /\ Nodes(H) \ {NULL} = Nodes(H)
  BY <1>0, AddressFacts DEF Nodes, FreeBlocks, Blocks, Tiled
<1>3. /\ \A n \in Nodes(H) \ {End} :
           /\ H[n].next \in Nodes(H) /\ n < H[n].next
           /\ \A m \in Nodes(H) : m <= n \/ H[n].next <= m
      /\ \A h \in Blocks(H) : H[h].used => H[h].next = NULL
  BY <1>0, <1>2 DEF LinkedBut
<1>4. /\ DOMAIN G = DOMAIN H /\ G[b] = Link(NULL, H[b].size, TRUE)
      /\ \A h \in DOMAIN H \ {b} : /\ G[h].size = H[h].size /\ G[h].used = H[h].used
                                  /\ G[h].next = IF H[h].next = b THEN H[b].next ELSE H[h].next
      /\ \A h \in DOMAIN H \ {b} : H[h].next # b => G[h] = H[h]
  BY <1>0, <1>1 DEF Unlinked, Headers
<1>5. G[b].size = H[b].size /\ G[b].used /\ G[b].next = NULL
  BY <1>4 DEF Link
<1>6. /\ Blocks(G) = Blocks(H) /\ FreeBlocks(G) = FreeBlocks(H) \ {b}
      /\ Nodes(G) = Nodes(H) \ {b}
  <2>1. Blocks(G) = Blocks(H)
    BY <1>4 DEF Blocks
  <2>2. \A h \in Blocks(H) \ {b} : G[h].used = H[h].used
    BY <1>4 DEF Blocks
  <2>3. FreeBlocks(G) = FreeBlocks(H) \ {b}
    BY <1>5, <2>1, <2>2 DEF FreeBlocks
  <2> QED BY <1>1, <2>1, <2>3 DEF Nodes
<1>7. Headers(G)
  <2>1. G \in [DOMAIN G -> [next : Addresses \cup {NULL}, size : 0..HeapSize, used : BOOLEAN]]
    BY <1>0, <1>1 DEF Unlinked, Headers, Link
  <2>2. \A h \in DOMAIN G : G[h].size = H[h].size
    BY <1>4, <1>5
  <2> QED BY <1>0, <1>4, <2>1, <2>2 DEF Headers
<1>8. Tiled(G)
  <2>1. \A h \in Blocks(H) : G[h].size = H[h].size
    BY <1>4, <1>5 DEF Blocks
  <2> QED BY <1>0, <1>4, <1>6, <2>1 DEF Tiled
<1>9. SameInUseBut(H, G, b)
  <2>1. b \in Nat /\ b # NULL
    BY <1>1, <1>2
  <2>2. ASSUME NEW h \in Blocks(H), H[h].used PROVE h \in Blocks(G) /\ G[h] = H[h] /\ h # b
    <3>1. h # b /\ H[h].next # b /\ h \in DOMAIN H
      BY <1>1, <1>3, <2>1, <2>2 DEF Blocks
    <3> QED BY <1>4, <1>6, <3>1
  <2>3. ASSUME NEW h \in Blocks(G) \ {b}, G[h].used PROVE h \in Blocks(H) /\ H[h].used
    BY <1>4, <1>6, <2>3 DEF Blocks
  <2> QED BY <2>2, <2>3 DEF SameInUseBut
<1>10. ASSUME NEW n \in Nodes(G) \ {End}
       PROVE  /\ G[n].next \in Nodes(G) /\ n < G[n].next
              /\ \A m \in Nodes(G) : m <= n \/ G[n].next <= m
  <2>1. n \in Nodes(H) \ {b, End} /\ n \in DOMAIN H /\ n \in Nat
    BY <1>2, <1>6
  <2>2. CASE H[n].next = b
    <3>1. G[n].next = H[b].next
      BY <1>4, <2>1, <2>2
    <3>2. H[b].next \in Nodes(H) /\ b < H[b].next /\ n < b
      BY <1>1, <1>3, <2>1, <2>2
    <3>3. H[b].next \in Nat /\ b \in Nat
      BY <1>1, <1>2, <3>2
    <3>4. ASSUME NEW m \in Nodes(G) PROVE m <= n \/ H[b].next <= m
      <4>1. m \in Nodes(H) /\ m # b /\ m \in Nat
        BY <1>2, <1>6
      <4>2. (m <= n \/ b <= m) /\ (m <= b \/ H[b].next <= m)
        BY <1>1, <1>3, <2>1, <2>2, <4>1
      <4> QED BY <3>3, <4>1, <4>2
    <3> QED BY <1>6, <2>1, <3>1, <3>2, <3>3, <3>4
  <2>3. CASE H[n].next # b
    <3>1. G[n].next = H[n].next
      BY <1>4, <2>1, <2>3
    <3> QED BY <1>3, <1>6, <2>1, <2>3, <3>1
  <2> QED BY <2>2, <2>3
<1>11. LinkedBut(G, NULL)
  <2>1. \A h \in Blocks(G) : G[h].used => G[h].next = NULL
    <3> SUFFICES ASSUME NEW h \in Blocks(G), G[h].used PROVE G[h].next = NULL
      OBVIOUS
    <3>1. CASE h = b
      BY <1>5, <3>1
    <3>2. CASE h # b
      BY <1>3, <1>9, <3>2 DEF SameInUseBut
    <3> QED BY <3>1, <3>2
  <2>2. G[Start].size = 0 /\ ~G[Start].used /\ G[End] = Link(NULL, 0, FALSE)
    <3>1. H[Start].size = 0 /\ ~H[Start].used /\ H[End] = Link(NULL, 0, FALSE) /\ Start \in DOMAIN H /\ End \in DOMAIN H
      BY <1>0 DEF LinkedBut, Tiled
    <3>2. H[End].next # b
      BY <1>1, <1>2, <3>1 DEF Link
    <3> QED BY <1>1, <1>4, <3>1, <3>2
  <2>3. Nodes(G) \ {NULL} = Nodes(G)
    BY <1>2, <1>6
  <2> QED BY <1>10, <2>1, <2>2, <2>3 DEF LinkedBut
<1>12. MergedBut(G, NULL)
  BY <1>0, <1>4, <1>6 DEF MergedBut, FreeBlocks, Blocks
<1> QED BY <1>4, <1>7, <1>8, <1>9, <1>11, <1>12 DEF Good

(* Cutting a block in use in two leaves a free block that is in no list.   *)
LEMMA SplitKeeps ==
    ASSUME NEW H, Good(H, NULL), NEW b \in Blocks(H), H[b].used,
           NEW w \in Nat, w % 8 = 0, 16 <= w, H[b].size - w > 16,
           NEW G, G = SplitOff(H, b, w)
    PROVE  /\ b + w \in FreeBlocks(G) /\ Good(G, b + w)
           /\ b \in Blocks(G) /\ G[b] = Link(NULL, w, TRUE)
           /\ \A h \in Blocks(H) \ {b} : h \in Blocks(G) /\ G[h] = H[h]
           /\ \A h \in Blocks(G) \ {b} : G[h].used => h \in Blocks(H)
<1> DEFINE c == b + w
<1>0. Headers(H) /\ Tiled(H) /\ LinkedBut(H, NULL) /\ MergedBut(H, NULL)
  BY DEF Good
<1>1. b \in DOMAIN H /\ b # Start /\ b # End
  BY DEF Blocks
<1>2. /\ \A h \in DOMAIN H : h \in Nat /\ h <= End /\ H[h].size \in Nat /\ H[h].size % 8 = 0
      /\ 8 <= b /\ b % 8 = 0 /\ End = HeapSize /\ HeapSize \in Nat /\ Start < End
  BY <1>0, <1>1, AddressFacts
<1>3. \A x \in Blocks(H) : /\ H[x].size >= 16 /\ x + H[x].size \in DOMAIN H
                            /\ \A h \in DOMAIN H : h <= x \/ x + H[x].size <= h
  BY <1>0 DEF Tiled
<1>4. /\ c \in Nat /\ b < c /\ c < b + H[b].size /\ c < End /\ c % 8 = 0
      /\ b + H[b].size \in DOMAIN H
  BY <1>1, <1>2, <1>3
<1>5. c \notin DOMAIN H
  BY <1>1, <1>2, <1>3, <1>4
<1>6. /\ DOMAIN G = DOMAIN H \cup {c} /\ G[b] = Link(NULL, w, TRUE)
      /\ G[c] = Link(NULL, H[b].size - w, FALSE)
      /\ \A h \in DOMAIN H \ {b} : G[h] = H[h]
  BY <1>1, <1>4, <1>5 DEF SplitOff
<1>7. /\ G[b].size = w /\ G[b].used /\ G[b].next = NULL
      /\ G[c].size = H[b].size - w /\ ~G[c].used
  BY <1>6 DEF Link
<1>8. /\ Blocks(G) = Blocks(H) \cup {c} /\ FreeBlocks(G) = FreeBlocks(H) \cup {c}
      /\ Nodes(G) = Nodes(H) \cup {c} /\ c \notin Nodes(H) /\ b \notin Nodes(H)
      /\ Nodes(H) \subseteq DOMAIN H
  <2>1. Blocks(G) = Blocks(H) \cup {c}
    BY <1>2, <1>4, <1>6 DEF Blocks
  <2>2. FreeBlocks(G) = FreeBlocks(H) \cup {c}
    BY <1>1, <1>5, <1>6, <1>7, <2>1 DEF FreeBlocks, Blocks
  <2>3. Nodes(H) \subseteq DOMAIN H
    BY <1>0 DEF Nodes, FreeBlocks, Blocks, Tiled
  <2>4. b \notin Nodes(H)
    BY <1>1 DEF Nodes, FreeBlocks
  <2> QED BY <1>5, <2>1, <2>2, <2>3, <2>4 DEF Nodes
<1>9. Headers(G)
  <2>1. c \in Addresses
    BY <1>1, <1>2, <1>4 DEF Addresses
  <2>2. Link(NULL, w, TRUE) \in [next : Addresses \cup {NULL}, size : 0..HeapSize, used : BOOLEAN]
    <3>1. w \in 0..HeapSize
      BY <1>1, <1>2, <1>4
    <3> QED BY <3>1 DEF Link
  <2>3. Link(NULL, H[b].size - w, FALSE) \in [next : Addresses \cup {NULL}, size : 0..HeapSize, used : BOOLEAN]
    <3>1. H[b].size - w \in 0..HeapSize
      BY <1>1, <1>2, <1>3, <1>4
    <3> QED BY <3>1 DEF Link
  <2>4. G \in [DOMAIN G -> [next : Addresses \cup {NULL}, size : 0..HeapSize, used : BOOLEAN]]
    <3> DEFINE word(h) == CASE h = b -> Link(NULL, w, TRUE)
                            [] h = c -> Link(NULL, H[b].size - w, FALSE)
                            [] OTHER -> H[h]
               heap == DOMAIN H \cup {c}
    <3>0. G = [h \in heap |-> word(h)]
      BY Zenon DEF SplitOff
    <3> HIDE DEF word, heap
    <3>1. G = [h \in heap |-> G[h]]
      BY <3>0
    <3> USE DEF heap
    <3>2. ASSUME NEW h \in DOMAIN H \cup {c}
          PROVE  G[h] \in [next : Addresses \cup {NULL}, size : 0..HeapSize, used : BOOLEAN]
      <4>1. CASE h = b
        BY <1>6, <2>2, <4>1
      <4>2. CASE h = c
        BY <1>6, <2>3, <4>2
      <4>3. CASE h \notin {b, c}
        BY <1>0, <1>6, <4>3 DEF Headers
      <4> QED BY <4>1, <4>2, <4>3
    <3> QED BY <3>1, <3>2
  <2>5. \A h \in DOMAIN G : G[h].size % BYTE_ALIGNMENT = 0
    <3>1. H[b].size \in Nat /\ H[b].size % 8 = 0
      BY <1>1, <1>2
    <3>2. (H[b].size - w) % 8 = 0
      BY <3>1
    <3>3. ASSUME NEW h \in DOMAIN G PROVE G[h].size % 8 = 0
      <4>1. CASE h \in {b, c}
        BY <1>7, <3>2, <4>1
      <4>2. CASE h \notin {b, c}
        BY <1>2, <1>6, <4>2
      <4> QED BY <4>1, <4>2
    <3> QED BY <3>3
  <2> QED BY <1>0, <1>6, <2>1, <2>4, <2>5 DEF Headers
<1>10. Tiled(G)
  <2>1. ASSUME NEW x \in Blocks(G)
        PROVE  /\ G[x].size >= 16 /\ x + G[x].size \in DOMAIN G
               /\ \A h \in DOMAIN G : h <= x \/ x + G[x].size <= h
    <3>1. CASE x = b
      <4>1. ASSUME NEW h \in DOMAIN G PROVE h <= b \/ c <= h
        BY <1>1, <1>2, <1>3, <1>4, <1>6
      <4> QED BY <1>6, <1>7, <3>1, <4>1
    <3>2. CASE x = c
      <4>1. c + G[c].size = b + H[b].size
        BY <1>1, <1>2, <1>7
      <4>2. ASSUME NEW h \in DOMAIN G PROVE h <= c \/ b + H[b].size <= h
        BY <1>1, <1>2, <1>3, <1>4, <1>6
      <4>3. G[c].size >= 16
        BY <1>1, <1>2, <1>7
      <4> QED BY <1>4, <1>6, <3>2, <4>1, <4>2, <4>3
    <3>3. CASE x \notin {b, c}
      <4>1. x \in Blocks(H) /\ x \in DOMAIN H /\ G[x] = H[x]
        BY <1>6, <1>8, <3>3 DEF Blocks
      <4>2. c <= x \/ x + H[x].size <= c
        <5>1. x <= b \/ b + H[b].size <= x
          BY <1>3, <4>1
        <5>2. b <= x \/ x + H[x].size <= b
          BY <1>1, <1>3, <4>1
        <5> QED BY <1>1, <1>2, <1>4, <3>3, <4>1, <5>1, <5>2
      <4> QED BY <1>3, <1>6, <4>1, <4>2
    <3> QED BY <3>1, <3>2, <3>3
  <2> QED BY <1>0, <1>6, <2>1 DEF Tiled
<1>11. LinkedBut(G, c)
  <2>1. Nodes(G) \ {c} = Nodes(H) /\ Nodes(H) \ {NULL} = Nodes(H)
    BY <1>0, <1>8, AddressFacts
  <2>2. \A n \in Nodes(H) : G[n] = H[n]
    BY <1>6, <1>8
  <2>3. Start \in Nodes(H) /\ End \in Nodes(H)
    BY DEF Nodes
  <2>4. ASSUME NEW h \in Blocks(G), G[h].used PROVE G[h].next = NULL
    <3>1. CASE h = b
      BY <1>7, <3>1
    <3>2. CASE h # b
      <4>1. h # c
        BY <1>7, <2>4
      <4>2. h \in Blocks(H) /\ G[h] = H[h]
        BY <1>6, <1>8, <3>2, <4>1 DEF Blocks
      <4> QED BY <1>0, <2>4, <4>2 DEF LinkedBut
    <3> QED BY <3>1, <3>2
  <2> QED BY <1>0, <2>1, <2>2, <2>3, <2>4 DEF LinkedBut
<1>12. MergedBut(G, c)
  <2>1. \A x \in FreeBlocks(G) \ {c} : x \in FreeBlocks(H) \ {NULL} /\ G[x] = H[x]
    BY <1>1, <1>0, <1>6, <1>8, AddressFacts DEF FreeBlocks, Blocks
  <2> QED BY <1>0, <2>1 DEF MergedBut
<1>13. /\ b \in Blocks(G)
       /\ \A h \in Blocks(H) \ {b} : h \in Blocks(G) /\ G[h] = H[h]
       /\ \A h \in Blocks(G) \ {b} : G[h].used => h \in Blocks(H)
  BY <1>6, <1>7, <1>8 DEF Blocks
<1> QED BY <1>6, <1>8, <1>9, <1>10, <1>11, <1>12, <1>13 DEF Good

(* pvPortMalloc keeps the heap in order and returns a block that has room. *)
LEMMA CarveKeeps ==
    ASSUME NEW H, Good(H, NULL), NEW w \in Nat, w % 8 = 0, 16 <= w,
           NEW b \in Fits(H, w), NEW G, G = Carved(H, b, w)
    PROVE  /\ Good(G, NULL) /\ SameInUseBut(H, G, b)
           /\ b \in Blocks(G) /\ G[b].used /\ w <= G[b].size
<1> DEFINE U == Unlinked(H, b)
<1>1. b \in FreeBlocks(H) /\ w <= H[b].size /\ b \in Blocks(H) /\ b \in DOMAIN H
  BY DEF Good, Fits, FreeBlocks, Blocks, Headers
<1>2. /\ Good(U, NULL) /\ SameInUseBut(H, U, b)
      /\ DOMAIN U = DOMAIN H /\ U[b] = Link(NULL, H[b].size, TRUE)
  BY <1>1, UnlinkKeeps
<1> HIDE DEF U
<1>3. b \in Blocks(U) /\ U[b].used /\ U[b].size = H[b].size
  BY <1>1, <1>2 DEF Blocks, Link
<1>4. CASE ~Splits(H, b, w)
  <2>1. G = U
    BY <1>4 DEF Carved, U
  <2> QED BY <1>1, <1>2, <1>3, <2>1
<1>5. CASE Splits(H, b, w)
  <2> DEFINE S == SplitOff(U, b, w)
  <2>1. U[b].size - w > 16
    BY <1>3, <1>5 DEF Splits
  <2>2. /\ b + w \in FreeBlocks(S) /\ Good(S, b + w)
        /\ b \in Blocks(S) /\ S[b] = Link(NULL, w, TRUE)
        /\ \A h \in Blocks(U) \ {b} : h \in Blocks(S) /\ S[h] = U[h]
        /\ \A h \in Blocks(S) \ {b} : S[h].used => h \in Blocks(U)
    BY <1>2, <1>3, <2>1, SplitKeeps
  <2> HIDE DEF S
  <2>3. G = InsertBlockIntoFreeList(S, b + w)
    BY <1>5 DEF Carved, U, S
  <2>4. Good(G, NULL) /\ SameInUse(S, G)
    BY <2>2, <2>3, InsertKeeps
  <2>5. S[b].used /\ S[b].size = w
    BY <2>2 DEF Link
  <2>6. b \in Blocks(G) /\ G[b] = S[b]
    BY <2>2, <2>4, <2>5 DEF SameInUse
  <2>7. SameInUseBut(H, G, b)
    <3>1. ASSUME NEW h \in Blocks(H), H[h].used PROVE h \in Blocks(G) /\ G[h] = H[h] /\ h # b
      <4>1. h \in Blocks(U) /\ U[h] = H[h] /\ h # b
        BY <1>2, <3>1 DEF SameInUseBut
      <4>2. h \in Blocks(S) /\ S[h] = H[h]
        BY <2>2, <4>1
      <4> QED BY <2>4, <3>1, <4>1, <4>2 DEF SameInUse
    <3>2. ASSUME NEW h \in Blocks(G) \ {b}, G[h].used PROVE h \in Blocks(H) /\ H[h].used
      <4>1. h \in Blocks(S) /\ S[h].used
        BY <2>4, <3>2 DEF SameInUse
      <4>2. h \in Blocks(U) /\ U[h].used
        BY <2>2, <3>2, <4>1
      <4> QED BY <1>2, <3>2, <4>2 DEF SameInUseBut
    <3> QED BY <3>1, <3>2 DEF SameInUseBut
  <2> QED BY <2>4, <2>5, <2>6, <2>7
<1> QED BY <1>4, <1>5

(* A block given back is free and in no list yet.                          *)
LEMMA ReleaseKeeps ==
    ASSUME NEW H, Good(H, NULL), NEW b \in Blocks(H), H[b].used, NEW G, G = Released(H, b)
    PROVE  /\ b \in FreeBlocks(G) /\ Good(G, b) /\ Blocks(G) = Blocks(H)
           /\ \A h \in Blocks(H) \ {b} : G[h] = H[h]
<1>0. Headers(H) /\ Tiled(H) /\ LinkedBut(H, NULL) /\ MergedBut(H, NULL)
  BY DEF Good
<1>1. b \in DOMAIN H /\ b # Start /\ b # End
  BY DEF Blocks
<1>2. /\ DOMAIN G = DOMAIN H /\ ~G[b].used /\ G[b].size = H[b].size
      /\ \A h \in DOMAIN H \ {b} : G[h] = H[h]
  BY <1>0, <1>1 DEF Released, Headers
<1>3. /\ Blocks(G) = Blocks(H) /\ FreeBlocks(G) = FreeBlocks(H) \cup {b}
      /\ Nodes(G) = Nodes(H) \cup {b} /\ b \notin Nodes(H) /\ Nodes(H) \subseteq DOMAIN H
  <2>1. Nodes(H) \subseteq DOMAIN H /\ b \notin Nodes(H)
    BY <1>0, <1>1 DEF Nodes, FreeBlocks, Blocks, Tiled
  <2>2. Blocks(G) = Blocks(H)
    BY <1>2 DEF Blocks
  <2>3. FreeBlocks(G) = FreeBlocks(H) \cup {b}
    BY <1>2, <2>2 DEF FreeBlocks, Blocks
  <2> QED BY <2>1, <2>2, <2>3 DEF Nodes
<1>4. Headers(G)
  <2>1. G \in [DOMAIN G -> [next : Addresses \cup {NULL}, size : 0..HeapSize, used : BOOLEAN]]
    BY <1>0, <1>1 DEF Released, Headers
  <2>2. \A h \in DOMAIN G : G[h].size = H[h].size
    BY <1>2
  <2> QED BY <1>0, <1>2, <2>1, <2>2 DEF Headers
<1>5. Tiled(G)
  <2>1. \A h \in Blocks(H) : G[h].size = H[h].size
    BY <1>2 DEF Blocks
  <2> QED BY <1>0, <1>2, <1>3, <2>1 DEF Tiled
<1>6. LinkedBut(G, b)
  <2>1. Nodes(G) \ {b} = Nodes(H) /\ Nodes(H) \ {NULL} = Nodes(H)
    BY <1>0, <1>3, AddressFacts
  <2>2. \A n \in Nodes(H) : G[n] = H[n]
    BY <1>2, <1>3
  <2>3. Start \in Nodes(H) /\ End \in Nodes(H)
    BY DEF Nodes
  <2>4. \A h \in Blocks(G) : G[h].used => G[h].next = NULL
    BY <1>0, <1>2, <1>3 DEF LinkedBut, Blocks
  <2> QED BY <1>0, <2>1, <2>2, <2>3, <2>4 DEF LinkedBut
<1>7. MergedBut(G, b)
  <2>1. \A x \in FreeBlocks(G) \ {b} : x \in FreeBlocks(H) \ {NULL} /\ G[x] = H[x]
    BY <1>0, <1>1, <1>2, <1>3, AddressFacts DEF FreeBlocks, Blocks
  <2> QED BY <1>0, <2>1 DEF MergedBut
<1> QED BY <1>2, <1>3, <1>4, <1>5, <1>6, <1>7 DEF Good, Blocks

(* The words prvHeapInit writes.                                           *)
LEMMA HeapInitWords ==
    /\ DOMAIN HeapInit = {4, 8, End}
    /\ HeapInit[4] = Link(8, 0, FALSE) /\ HeapInit[8] = Link(End, HeapSize - 8, FALSE)
    /\ HeapInit[End] = Link(NULL, 0, FALSE)
<1> DEFINE dom == {Start, Base, End}
           word(a) == CASE a = Start -> Link(Base, 0, FALSE)
                        [] a = Base  -> Link(End, HeapSize - StructSize, FALSE)
                        [] OTHER     -> Link(NULL, 0, FALSE)
<1>1. HeapInit = [a \in dom |-> word(a)]
  BY Zenon DEF HeapInit
<1>2. word(4) = Link(8, 0, FALSE)
  OBVIOUS
<1>3. word(8) = Link(End, HeapSize - 8, FALSE)
  OBVIOUS
<1>4. word(End) = Link(NULL, 0, FALSE)
  <2>1. End # Start /\ End # Base
    BY HeapSizeAssumption DEF End
  <2> QED BY <2>1, Zenon
<1>5. dom = {4, 8, End}
  OBVIOUS
<1> HIDE DEF word, dom
<1>6. DOMAIN HeapInit = dom /\ \A a \in dom : HeapInit[a] = word(a)
  BY <1>1
<1> QED BY <1>2, <1>3, <1>4, <1>5, <1>6

(* prvHeapInit sets up one free block.                                     *)
LEMMA HeapInitGood ==
    Good(HeapInit, NULL) /\ Blocks(HeapInit) = {Base} /\ ~HeapInit[Base].used
<1>1. HeapSize \in Nat /\ HeapSize % 8 = 0 /\ HeapSize >= 24 /\ End = HeapSize
  BY HeapSizeAssumption DEF End
<1>2. /\ DOMAIN HeapInit = {4, 8, End}
      /\ HeapInit[4] = Link(8, 0, FALSE) /\ HeapInit[8] = Link(End, HeapSize - 8, FALSE)
      /\ HeapInit[End] = Link(NULL, 0, FALSE)
  BY HeapInitWords
<1>3. /\ HeapInit[4].next = 8 /\ HeapInit[4].size = 0 /\ ~HeapInit[4].used
      /\ HeapInit[8].next = End /\ HeapInit[8].size = HeapSize - 8 /\ ~HeapInit[8].used
  BY <1>2 DEF Link
<1>4. Blocks(HeapInit) = {8} /\ FreeBlocks(HeapInit) = {8} /\ Nodes(HeapInit) = {4, 8, End}
  <2>1. Blocks(HeapInit) = {8}
    BY <1>1, <1>2 DEF Blocks
  <2>2. FreeBlocks(HeapInit) = {8}
    BY <1>3, <2>1 DEF FreeBlocks
  <2> QED BY <2>1, <2>2 DEF Nodes
<1>5. Headers(HeapInit)
  <2>1. 8 \in Addresses /\ End \in Addresses
    BY <1>1 DEF Addresses
  <2>2. /\ Link(8, 0, FALSE) \in [next : Addresses \cup {NULL}, size : 0..HeapSize, used : BOOLEAN]
        /\ Link(End, HeapSize - 8, FALSE) \in [next : Addresses \cup {NULL}, size : 0..HeapSize, used : BOOLEAN]
        /\ Link(NULL, 0, FALSE) \in [next : Addresses \cup {NULL}, size : 0..HeapSize, used : BOOLEAN]
    BY <1>1, <2>1 DEF Link
  <2>3. HeapInit \in [{4, 8, End} -> [next : Addresses \cup {NULL}, size : 0..HeapSize, used : BOOLEAN]]
    <3> DEFINE word(a) == CASE a = Start -> Link(Base, 0, FALSE)
                            [] a = Base  -> Link(End, HeapSize - StructSize, FALSE)
                            [] OTHER     -> Link(NULL, 0, FALSE)
               dom == {Start, Base, End}
    <3>1. HeapInit = [a \in dom |-> word(a)]
      BY Zenon DEF HeapInit
    <3>2. dom = {4, 8, End}
      OBVIOUS
    <3> HIDE DEF word, dom
    <3>3. HeapInit = [a \in dom |-> HeapInit[a]]
      BY <3>1
    <3>4. \A a \in dom : HeapInit[a] \in [next : Addresses \cup {NULL}, size : 0..HeapSize, used : BOOLEAN]
      BY <1>2, <2>2, <3>2
    <3> QED BY <3>2, <3>3, <3>4
  <2>4. HeapInit[End].size = 0 /\ (HeapSize - 8) % 8 = 0
    BY <1>1, <1>2 DEF Link
  <2>5. \A h \in DOMAIN HeapInit : HeapInit[h].size % 8 = 0
    <3>1. HeapInit[4].size % 8 = 0 /\ HeapInit[8].size % 8 = 0 /\ HeapInit[End].size % 8 = 0
      BY <1>3, <2>4
    <3> QED BY <1>2, <3>1
  <2> QED BY <1>2, <2>1, <2>3, <2>5 DEF Headers
<1>6. Tiled(HeapInit)
  <2>1. 8 + HeapInit[8].size = End /\ HeapInit[8].size >= 16
    BY <1>1, <1>3
  <2>2. \A h \in DOMAIN HeapInit : h <= 8 \/ End <= h
    BY <1>1, <1>2
  <2>3. \A b \in Blocks(HeapInit) : b = 8
    BY <1>4
  <2>4. {Start, Base, End} \subseteq DOMAIN HeapInit
    BY <1>2
  <2>5. \A b \in Blocks(HeapInit) :
          /\ HeapInit[b].size >= 16 /\ b + HeapInit[b].size \in DOMAIN HeapInit
          /\ \A h \in DOMAIN HeapInit : h <= b \/ b + HeapInit[b].size <= h
    BY <1>2, <2>1, <2>2, <2>3
  <2> QED BY <2>4, <2>5 DEF Tiled
<1>7. LinkedBut(HeapInit, NULL)
  <2>1. \A n \in Nodes(HeapInit) \ {End} : n = 4 \/ n = 8
    BY <1>4
  <2>2. \A m \in Nodes(HeapInit) : m = 4 \/ m = 8 \/ m = End
    BY <1>4
  <2>3. Nodes(HeapInit) \ {NULL} = Nodes(HeapInit) /\ 8 \in Nodes(HeapInit) /\ End \in Nodes(HeapInit)
    BY <1>1, <1>4
  <2>4. \A n \in Nodes(HeapInit) \ {End} :
          /\ HeapInit[n].next \in Nodes(HeapInit) /\ n < HeapInit[n].next
          /\ \A m \in Nodes(HeapInit) : m <= n \/ HeapInit[n].next <= m
    BY <1>1, <1>3, <2>1, <2>2, <2>3
  <2>5. \A b \in Blocks(HeapInit) : ~HeapInit[b].used
    BY <1>3, <1>4
  <2> QED BY <1>2, <1>3, <2>3, <2>4, <2>5 DEF LinkedBut
<1>8. MergedBut(HeapInit, NULL)
  BY <1>1, <1>3, <1>4 DEF MergedBut
<1> QED BY <1>3, <1>4, <1>5, <1>6, <1>7, <1>8 DEF Good

-----------------------------------------------------------------------------
(* The inductive invariant.                                                *)

IInv == TypeOK /\ Structure

(* What pvPortMalloc works on, the first time and later.                   *)
LEMMA Heap0Good ==
    ASSUME IInv
    PROVE  Good(Heap0, NULL) /\ InUse(Heap0) /\ Free0 \in Int
<1>1. CASE ready
  BY <1>1 DEF IInv, TypeOK, Structure, Heap0, Free0, Good, Linked, Merged
<1>2. CASE ~ready
  <2>1. Heap0 = HeapInit /\ DOMAIN held = {} /\ Free0 \in Int
    BY <1>2 DEF IInv, TypeOK, Structure, Heap0, Free0
  <2>2. InUse(HeapInit)
    BY <2>1, HeapInitGood DEF InUse
  <2> QED BY <2>1, <2>2, HeapInitGood
<1> QED BY <1>1, <1>2 DEF IInv, TypeOK

LEMMA NullKeeps ==
    ASSUME IInv, NEW n \in Requests, MallocNull(n), halted' \in BOOLEAN
    PROVE  IInv'
<1>1. ready' = TRUE /\ header' = Heap0 /\ freeBytes' = Free0 /\ held' = held
  BY DEF MallocNull
<1>2. Good(Heap0, NULL) /\ InUse(Heap0) /\ Free0 \in Int
  BY Heap0Good
<1>3. InUse(header)'
  BY <1>1, <1>2 DEF InUse
<1>4. Structure'
  BY <1>1, <1>2, <1>3 DEF Structure, Good, Linked, Merged
<1>5. TypeOK'
  BY <1>1, <1>2 DEF TypeOK, IInv, Good
<1> QED BY <1>4, <1>5 DEF IInv

LEMMA BlockKeeps ==
    ASSUME IInv, NEW n \in Requests, MallocBlock(n), halted' \in BOOLEAN
    PROVE  IInv'
<1> DEFINE w == Wanted(n)
           b == Lowest(Fits(Heap0, w))
<1>1. /\ ready' = TRUE /\ header' = Carved(Heap0, b, w)
      /\ freeBytes' = Free0 - header'[b].size
      /\ held' = [p \in DOMAIN held \cup {b + StructSize} |->
                     IF p = b + StructSize THEN n ELSE held[p]]
  BY DEF MallocBlock, Deducted
<1>2. Good(Heap0, NULL) /\ InUse(Heap0) /\ Free0 \in Int
  BY Heap0Good
<1>3. n \in Nat /\ n < Word \div 2 /\ n # 0 /\ Fits(Heap0, w) # {}
  <2>1. ~Refused(n)
    BY DEF MallocBlock
  <2>2. n \in Nat /\ Word \div 2 \in Int
    BY WordAssumption, RequestsAssumption
  <2> QED BY <2>1, <2>2 DEF Refused
<1>4. w \in Nat /\ w % 8 = 0 /\ n + 8 <= w /\ 16 <= w
  BY <1>3, WantedIsEnough
<1> HIDE DEF w
<1>5. b \in Fits(Heap0, w)
  <2>1. Fits(Heap0, w) \in SUBSET (0..End) /\ End \in Int
    BY <1>2, AddressFacts DEF Fits, FreeBlocks, Blocks, Good
  <2>2. \E x \in Fits(Heap0, w) : \A c \in Fits(Heap0, w) : x <= c
    BY <1>3, <2>1, LowestExists
  <2> QED BY <2>2 DEF Lowest
<1> HIDE DEF b
<1>6. /\ Good(header', NULL) /\ SameInUseBut(Heap0, header', b)
      /\ b \in Blocks(header') /\ header'[b].used /\ w <= header'[b].size
  BY <1>1, <1>2, <1>4, <1>5, CarveKeeps
<1>7. /\ Headers(header') /\ Tiled(header')
      /\ b \in DOMAIN header' /\ b # Start /\ b # End
  BY <1>6 DEF Good, Blocks
<1>8. /\ b \in Nat /\ 8 <= b /\ b % 8 = 0 /\ End \in Nat /\ header'[b].size \in Nat
      /\ b + header'[b].size <= End
  <2>1. b + header'[b].size \in DOMAIN header'
    BY <1>6, <1>7 DEF Tiled
  <2> QED BY <1>7, <2>1, AddressFacts
<1>9. /\ DOMAIN held' = DOMAIN held \cup {b + 8} /\ held'[b + 8] = n
      /\ \A p \in DOMAIN held \ {b + 8} : held'[p] = held[p]
  BY <1>1
<1>10. DOMAIN held \subseteq Addresses /\ \A p \in DOMAIN held : held[p] \in Requests /\ p \in Nat
  BY <1>7, AddressFacts DEF IInv, TypeOK, Addresses
<1>11. TypeOK'
  <2>1. b + 8 \in Addresses
    BY <1>4, <1>6, <1>8 DEF Addresses
  <2>2. \A p \in DOMAIN held' : held'[p] \in Requests
    BY <1>9, <1>10
  <2>3. freeBytes' \in Int
    BY <1>1, <1>2, <1>8
  <2> QED BY <1>1, <1>7, <1>9, <1>10, <2>1, <2>2, <2>3 DEF TypeOK
<1>12. InUse(header)'
  <2>1. ASSUME NEW x \in Blocks(header') PROVE header'[x].used <=> x + StructSize \in DOMAIN held'
    <3>1. CASE x = b
      BY <1>6, <1>9, <3>1
    <3>2. CASE x # b
      <4>1. x \in Nat
        BY <1>7, AddressFacts DEF Blocks
      <4>2. ASSUME header'[x].used PROVE x + 8 \in DOMAIN held'
        <5>1. x \in Blocks(Heap0) /\ Heap0[x].used
          BY <1>6, <3>2, <4>2 DEF SameInUseBut
        <5> QED BY <1>2, <1>9, <5>1 DEF InUse
      <4>3. ASSUME x + 8 \in DOMAIN held' PROVE header'[x].used
        <5>1. x + 8 \in DOMAIN held
          BY <1>8, <1>9, <3>2, <4>1, <4>3
        <5>2. x \in Blocks(Heap0)
          <6>1. (x + 8) - 8 \in Blocks(Heap0)
            BY <1>2, <5>1 DEF InUse
          <6> QED BY <4>1, <6>1
        <5>3. Heap0[x].used
          BY <1>2, <5>1, <5>2 DEF InUse
        <5> QED BY <1>6, <5>2, <5>3 DEF SameInUseBut
      <4> QED BY <4>2, <4>3, <1>7 DEF Headers, Blocks
    <3> QED BY <3>1, <3>2
  <2>2. ASSUME NEW p \in DOMAIN held'
        PROVE  /\ p - StructSize \in Blocks(header')
               /\ held'[p] + StructSize <= header'[p - StructSize].size
    <3>1. CASE p = b + 8
      <4>1. p - 8 = b /\ held'[p] = n
        BY <1>8, <1>9, <3>1
      <4> QED BY <1>3, <1>4, <1>6, <1>8, <4>1
    <3>2. CASE p # b + 8
      <4>1. p \in DOMAIN held /\ held'[p] = held[p] /\ p \in Nat
        BY <1>9, <1>10, <3>2
      <4>2. /\ p - 8 \in Blocks(Heap0) /\ held[p] + 8 <= Heap0[p - 8].size
            /\ (p - 8) + 8 = p
        BY <1>2, <4>1 DEF InUse
      <4>3. Heap0[p - 8].used
        BY <1>2, <4>1, <4>2 DEF InUse
      <4>4. p - 8 \in Blocks(header') /\ header'[p - 8] = Heap0[p - 8]
        BY <1>6, <4>2, <4>3 DEF SameInUseBut
      <4> QED BY <4>1, <4>2, <4>4
    <3> QED BY <3>1, <3>2
  <2> QED BY <2>1, <2>2 DEF InUse
<1>13. Structure'
  BY <1>1, <1>6, <1>12 DEF Structure, Good, Linked, Merged
<1> QED BY <1>11, <1>13 DEF IInv

LEMMA FreeKeeps ==
    ASSUME IInv, vPortFree
    PROVE  IInv'
<1> USE DEF StructSize
<1>1. PICK p \in DOMAIN held :
         LET b == p - StructSize
         IN /\ held' = [q \in DOMAIN held \ {p} |-> held[q]]
            /\ IF header[b].used /\ header[b].next = NULL
               THEN /\ freeBytes' = freeBytes + header[b].size
                    /\ header' = InsertBlockIntoFreeList(Released(header, b), b)
               ELSE UNCHANGED <<freeBytes, header>>
  BY DEF vPortFree
<1> DEFINE b == p - 8
           R == Released(header, b)
<1>2. ready /\ ready' = ready /\ halted' = halted
  BY DEF vPortFree, IInv, Structure
<1>3. Good(header, NULL) /\ InUse(header)
  BY <1>2 DEF IInv, TypeOK, Structure, Good, Linked, Merged
<1>4. /\ DOMAIN held \subseteq Addresses
      /\ \A q \in DOMAIN held : held[q] \in Requests /\ q \in Nat
  BY AddressFacts, <1>3 DEF IInv, TypeOK, Addresses, Good
<1>5. b \in Blocks(header) /\ b + 8 = p
  BY <1>3, <1>4 DEF InUse
<1>6. header[b].used /\ header[b].next = NULL
  <2>1. header[b].used
    BY <1>3, <1>5 DEF InUse
  <2> QED BY <1>3, <1>5, <2>1 DEF Good, LinkedBut
<1>7. freeBytes' = freeBytes + header[b].size /\ header' = InsertBlockIntoFreeList(R, b)
  BY <1>1, <1>6
<1>8. /\ b \in FreeBlocks(R) /\ Good(R, b) /\ Blocks(R) = Blocks(header)
      /\ \A h \in Blocks(header) \ {b} : R[h] = header[h]
  BY <1>3, <1>5, <1>6, ReleaseKeeps
<1>8a. ~R[b].used
  BY <1>8 DEF FreeBlocks
<1> HIDE DEF R
<1>9. Good(header', NULL) /\ SameInUse(R, header')
  BY <1>7, <1>8, InsertKeeps
<1>10. /\ DOMAIN held' = DOMAIN held \ {p}
       /\ \A q \in DOMAIN held \ {p} : held'[q] = held[q]
  BY <1>1
<1>11. InUse(header)'
  <2>1. ASSUME NEW x \in Blocks(header') PROVE header'[x].used <=> x + StructSize \in DOMAIN held'
    <3>0. x \in Nat /\ header'[x].used \in BOOLEAN /\ b \in Nat
      BY <1>3, <1>5, <1>9, AddressFacts DEF Good, Blocks
    <3>1. ASSUME header'[x].used PROVE x + 8 \in DOMAIN held'
      <4>1. x \in Blocks(header) /\ R[x].used
        BY <1>8, <1>9, <3>1 DEF SameInUse
      <4>2. x # b /\ header[x].used
        BY <1>8, <1>8a, <4>1
      <4>3. x + 8 \in DOMAIN held
        BY <1>3, <4>1, <4>2 DEF InUse
      <4> QED BY <1>5, <1>10, <3>0, <4>2, <4>3
    <3>2. ASSUME x + 8 \in DOMAIN held' PROVE header'[x].used
      <4>1. x + 8 \in DOMAIN held /\ x + 8 # p
        BY <1>10, <3>2
      <4>2. x \in Blocks(header)
        <5>1. (x + 8) - 8 \in Blocks(header)
          BY <1>3, <4>1 DEF InUse
        <5> QED BY <3>0, <5>1
      <4>3. header[x].used /\ x # b
        BY <1>3, <1>5, <4>1, <4>2 DEF InUse
      <4> QED BY <1>8, <1>9, <4>2, <4>3 DEF SameInUse
    <3> QED BY <3>0, <3>1, <3>2
  <2>2. ASSUME NEW q \in DOMAIN held'
        PROVE  /\ q - StructSize \in Blocks(header')
               /\ held'[q] + StructSize <= header'[q - StructSize].size
    <3>1. q \in DOMAIN held /\ q # p /\ held'[q] = held[q] /\ q \in Nat /\ p \in Nat
      BY <1>4, <1>10
    <3>2. /\ q - 8 \in Blocks(header) /\ held[q] + 8 <= header[q - 8].size
          /\ (q - 8) + 8 = q /\ q - 8 # b
      BY <1>3, <3>1 DEF InUse
    <3>3. header[q - 8].used
      BY <1>3, <3>1, <3>2 DEF InUse
    <3>4. q - 8 \in Blocks(header') /\ header'[q - 8] = header[q - 8]
      BY <1>8, <1>9, <3>2, <3>3 DEF SameInUse
    <3> QED BY <3>1, <3>2, <3>4
  <2> QED BY <2>1, <2>2 DEF InUse
<1>12. TypeOK'
  <2>1. header[b].size \in Nat /\ freeBytes \in Int
    BY <1>3, <1>5, AddressFacts DEF Good, Blocks, IInv, TypeOK
  <2>2. freeBytes' \in Int
    BY <1>7, <2>1
  <2>3. DOMAIN held' \subseteq Addresses /\ \A q \in DOMAIN held' : held'[q] \in Requests
    BY <1>4, <1>10
  <2>4. ready' \in BOOLEAN /\ halted' \in BOOLEAN
    BY <1>2 DEF IInv, TypeOK
  <2> QED BY <1>9, <2>2, <2>3, <2>4 DEF TypeOK, Good
<1>13. Structure'
  BY <1>2, <1>9, <1>11 DEF Structure, Good, Linked, Merged
<1> QED BY <1>12, <1>13 DEF IInv

LEMMA InitIInv == Init => IInv
<1> SUFFICES ASSUME Init PROVE IInv
  OBVIOUS
<1>1. /\ ready = FALSE /\ halted = FALSE /\ freeBytes = HeapSize /\ HeapSize \in Int
      /\ DOMAIN header = {} /\ DOMAIN held = {}
  BY HeapSizeAssumption DEF Init
<1>2. header \in [DOMAIN header -> [next : Addresses \cup {NULL}, size : 0..HeapSize, used : BOOLEAN]]
  BY DEF Init
<1>3. Headers(header)
  BY <1>1, <1>2 DEF Headers
<1> QED BY <1>1, <1>3 DEF IInv, TypeOK, Structure

LEMMA NextIInv == IInv /\ [Next]_vars => IInv'
<1> SUFFICES ASSUME IInv, [Next]_vars PROVE IInv'
  OBVIOUS
<1>0. halted \in BOOLEAN
  BY DEF IInv, TypeOK
<1>1. CASE pvPortMalloc
  <2>1. PICK n \in Requests : MallocNull(n) \/ MallocBlock(n)
    BY <1>1 DEF pvPortMalloc
  <2>2. halted' \in BOOLEAN
    BY <1>0, <1>1 DEF pvPortMalloc
  <2> QED BY <2>1, <2>2, NullKeeps, BlockKeeps
<1>2. CASE pvPortCalloc
  <2>1. PICK n \in Requests : \/ MallocNull(n) /\ halted' \in {n > 0, FALSE}
                              \/ MallocBlock(n) /\ UNCHANGED halted
    BY <1>2 DEF pvPortCalloc
  <2>2. halted' \in BOOLEAN
    <3>1. (n > 0) \in BOOLEAN
      OBVIOUS
    <3> QED BY <1>0, <2>1, <3>1
  <2> QED BY <2>1, <2>2, NullKeeps, BlockKeeps
<1>3. CASE vPortFree
  BY <1>3, FreeKeeps
<1>4. CASE UNCHANGED vars
  BY <1>4 DEF IInv, TypeOK, Structure, InUse, vars
<1> QED BY <1>1, <1>2, <1>3, <1>4 DEF Next

LEMMA Invariance == Spec => []IInv
<1> QED BY InitIInv, NextIInv, PTL DEF Spec

(* What the structure means for the callers.                               *)
LEMMA ApartFromStructure == IInv => BytesApart
<1> SUFFICES ASSUME IInv, NEW p \in DOMAIN held
             PROVE  /\ Base < p /\ p + held[p] <= End
                    /\ \A q \in DOMAIN held \ {p} : Apart(p, held[p], q, held[q])
                    /\ \A h \in DOMAIN header : Apart(p, held[p], h, StructSize)
  BY DEF BytesApart
<1>1. ready
  BY DEF IInv, Structure
<1>2. Headers(header) /\ Tiled(header) /\ InUse(header)
  BY <1>1 DEF IInv, TypeOK, Structure
<1>3. \A q \in DOMAIN held : q \in Nat /\ held[q] \in Nat
  BY <1>2, AddressFacts, WordAssumption, RequestsAssumption DEF IInv, TypeOK, Addresses
<1>4. \A q \in DOMAIN held :
        /\ q - 8 \in Blocks(header) /\ held[q] + 8 <= header[q - 8].size
        /\ q - 8 \in DOMAIN header /\ q - 8 # Start
  BY <1>2 DEF InUse, Blocks
<1>5. \A h \in DOMAIN header : h \in Nat /\ h <= End /\ header[h].size \in Nat
  BY <1>2, AddressFacts
<1>6. \A q \in DOMAIN held, h \in DOMAIN header : h <= q - 8 \/ (q - 8) + header[q - 8].size <= h
  BY <1>2, <1>4 DEF Tiled
<1>7. Base < p /\ p + held[p] <= End
  <2>1. 8 <= p - 8
    BY <1>2, <1>4, AddressFacts
  <2>2. End \in DOMAIN header /\ End \in Nat /\ End # p - 8
    BY <1>2, <1>4, AddressFacts DEF Tiled, Blocks
  <2>3. End <= p - 8 \/ (p - 8) + header[p - 8].size <= End
    BY <1>6, <2>2
  <2>4. p - 8 <= End
    BY <1>4, <1>5
  <2> QED BY <1>3, <1>4, <1>5, <2>1, <2>2, <2>3, <2>4
<1>8. ASSUME NEW h \in DOMAIN header PROVE Apart(p, held[p], h, StructSize)
  <2>1. h <= p - 8 \/ (p - 8) + header[p - 8].size <= h
    BY <1>6
  <2> QED BY <1>3, <1>4, <1>5, <2>1 DEF Apart
<1>9. ASSUME NEW q \in DOMAIN held \ {p} PROVE Apart(p, held[p], q, held[q])
  <2>1. q - 8 <= p - 8 \/ (p - 8) + header[p - 8].size <= q - 8
    BY <1>4, <1>6
  <2>2. p - 8 <= q - 8 \/ (q - 8) + header[q - 8].size <= p - 8
    BY <1>4, <1>6
  <2>3. /\ p \in Nat /\ q \in Nat /\ held[p] \in Nat /\ held[q] \in Nat /\ p # q
        /\ header[p - 8].size \in Nat /\ header[q - 8].size \in Nat
        /\ held[p] + 8 <= header[p - 8].size /\ held[q] + 8 <= header[q - 8].size
    BY <1>3, <1>4, <1>5
  <2> QED BY <2>1, <2>2, <2>3 DEF Apart
<1> QED BY <1>7, <1>8, <1>9

LEMMA MergedFromStructure == IInv => MergedWhenAllFree
<1> SUFFICES ASSUME IInv, ready, DOMAIN held = {} PROVE header = HeapInit
  BY DEF MergedWhenAllFree
<1>1. /\ Headers(header) /\ Tiled(header) /\ LinkedBut(header, NULL)
      /\ MergedBut(header, NULL) /\ InUse(header)
  BY DEF IInv, TypeOK, Structure, Linked, Merged
<1>2. /\ End = HeapSize /\ HeapSize \in Nat /\ HeapSize >= 24
      /\ \A h \in DOMAIN header : h \in Nat /\ h <= End /\ header[h].size \in Nat
      /\ \A h \in DOMAIN header \ {Start} : 8 <= h
  BY <1>1, AddressFacts
<1>3. FreeBlocks(header) = Blocks(header)
  BY <1>1 DEF InUse, FreeBlocks
<1>4. {Start, Base, End} \subseteq DOMAIN header /\ Base \in Blocks(header)
  BY <1>1, <1>2 DEF Tiled, Blocks
<1>5. /\ 8 + header[8].size \in DOMAIN header /\ header[8].size >= 16
      /\ \A h \in DOMAIN header : h <= 8 \/ 8 + header[8].size <= h
  BY <1>1, <1>4 DEF Tiled
<1>6. 8 + header[8].size = End
  <2>1. 8 + header[8].size \notin Blocks(header)
    BY <1>1, <1>2, <1>3, <1>4 DEF MergedBut, Blocks
  <2>2. 8 + header[8].size # 4
    BY <1>2, <1>4
  <2> QED BY <1>5, <2>1, <2>2 DEF Blocks
<1>7. DOMAIN header = {4, 8, End}
  <2>1. ASSUME NEW h \in DOMAIN header PROVE h \in {4, 8, End}
    <3>1. h <= 8 \/ End <= h
      BY <1>5, <1>6
    <3> QED BY <1>2, <3>1
  <2> QED BY <1>4, <2>1
<1>8. Nodes(header) = {4, 8, End} /\ Nodes(header) \ {NULL} = Nodes(header)
  <2>1. FreeBlocks(header) = {8}
    BY <1>2, <1>3, <1>7 DEF Blocks
  <2> QED BY <1>2, <2>1 DEF Nodes
<1>9. /\ \A n \in Nodes(header) \ {End} :
           /\ header[n].next \in Nodes(header) /\ n < header[n].next
           /\ \A m \in Nodes(header) : m <= n \/ header[n].next <= m
      /\ header[Start].size = 0 /\ ~header[Start].used /\ header[End] = Link(NULL, 0, FALSE)
  BY <1>1, <1>8 DEF LinkedBut
<1>10. header[4].next = 8
  <2>1. /\ header[4].next \in {4, 8, End} /\ 4 < header[4].next
        /\ (8 <= 4 \/ header[4].next <= 8)
    BY <1>2, <1>8, <1>9
  <2> QED BY <1>2, <2>1
<1>11. header[8].next = End
  <2>1. header[8].next \in {4, 8, End} /\ 8 < header[8].next
    BY <1>2, <1>8, <1>9
  <2> QED BY <1>2, <2>1
<1>12. /\ header[4] = Link(8, 0, FALSE) /\ header[8] = Link(End, HeapSize - 8, FALSE)
  <2>1. \A h \in {4, 8} : header[h] \in [next : Addresses \cup {NULL}, size : 0..HeapSize, used : BOOLEAN]
    BY <1>1, <1>7 DEF Headers
  <2>2. header[4].used = FALSE /\ header[8].used = FALSE /\ header[8].size = HeapSize - 8
    <3>1. ~header[8].used
      BY <1>3, <1>4 DEF FreeBlocks
    <3> QED BY <1>2, <1>6, <1>7, <1>9, <2>1, <3>1
  <2> QED BY <1>9, <1>10, <1>11, <2>1, <2>2 DEF Link
<1>13. DOMAIN HeapInit = {4, 8, End} /\ \A h \in {4, 8, End} : HeapInit[h] = header[h]
  BY <1>2, <1>9, <1>12, HeapInitWords
<1>14. header = [h \in DOMAIN header |-> header[h]] /\ HeapInit = [h \in DOMAIN HeapInit |-> HeapInit[h]]
  BY <1>1, HeapInitGood DEF Headers, Good
<1> QED BY <1>7, <1>13, <1>14

-----------------------------------------------------------------------------
(* The bytes in the free blocks: those of the heap in no block in use.     *)

UsedSpace(H) == UNION {Bytes(H, b) : b \in {a \in Blocks(H) : H[a].used}}

(* A block lies in the heap, and blocks have no byte in common.            *)
LEMMA BlocksDisjoint ==
    ASSUME NEW H, Headers(H), Tiled(H)
    PROVE  /\ \A b \in Blocks(H) : Bytes(H, b) \subseteq Base..(End - 1)
           /\ \A b, c \in Blocks(H) : b # c => Bytes(H, b) \cap Bytes(H, c) = {}
<1>1. \A h \in Blocks(H) : h \in DOMAIN H /\ h # Start /\ h # End
  BY DEF Blocks
<1>2. /\ \A h \in DOMAIN H : h \in Nat /\ h <= End /\ H[h].size \in Nat
      /\ \A h \in DOMAIN H \ {Start} : 8 <= h
      /\ End \in Nat
  BY AddressFacts
<1>3. \A b \in Blocks(H) : /\ b + H[b].size \in DOMAIN H
                           /\ \A h \in DOMAIN H : h <= b \/ b + H[b].size <= h
  BY DEF Tiled
<1>4. ASSUME NEW b \in Blocks(H) PROVE Bytes(H, b) \subseteq Base..(End - 1)
  <2>1. 8 <= b /\ b \in Nat /\ H[b].size \in Nat /\ b + H[b].size <= End
    BY <1>1, <1>2, <1>3
  <2> QED BY <1>2, <2>1 DEF Bytes
<1>5. ASSUME NEW b \in Blocks(H), NEW c \in Blocks(H), b # c,
             NEW x \in Bytes(H, b), x \in Bytes(H, c)
      PROVE  FALSE
  <2>1. b \in Nat /\ H[b].size \in Nat /\ c \in Nat /\ H[c].size \in Nat
    BY <1>1, <1>2
  <2>2. (c <= b \/ b + H[b].size <= c) /\ (b <= c \/ c + H[c].size <= b)
    BY <1>1, <1>3
  <2>3. x \in Int /\ b <= x /\ x < b + H[b].size /\ c <= x /\ x < c + H[c].size
    BY <1>5, <2>1 DEF Bytes
  <2> QED BY <1>5, <2>1, <2>2, <2>3
<1>6. \A b, c \in Blocks(H) : b # c => Bytes(H, b) \cap Bytes(H, c) = {}
  BY <1>5
<1> QED BY <1>4, <1>6

(* Every byte of the heap lies in a block, that of the last header before. *)
LEMMA BlocksCover ==
    ASSUME NEW H, Headers(H), Tiled(H), NEW x \in Base..(End - 1)
    PROVE  \E b \in Blocks(H) : x \in Bytes(H, b)
<1> DEFINE S == {h \in DOMAIN H \ {Start} : h <= x}
<1>1. /\ \A h \in DOMAIN H : h \in Nat /\ h <= End /\ H[h].size \in Nat
      /\ \A h \in DOMAIN H \ {Start} : 8 <= h
      /\ End \in Nat /\ x \in Nat /\ 8 <= x /\ x < End
  BY AddressFacts
<1>2. S \in SUBSET (0..End) /\ S # {}
  <2>1. Base \in S
    BY <1>1 DEF Tiled
  <2> QED BY <1>1, <2>1
<1>3. PICK n \in S : \A m \in S : m <= n
  <2>1. End \in Int
    BY <1>1
  <2> HIDE DEF S
  <2> QED BY <1>2, <2>1, HighestExists, Zenon
<1>4. n \in Blocks(H) /\ n \in Nat /\ n <= x
  BY <1>1 DEF Blocks
<1>5. H[n].size \in Nat /\ H[n].size >= 16 /\ n + H[n].size \in DOMAIN H
  BY <1>1, <1>4 DEF Tiled, Blocks
<1>6. n + H[n].size # Start
  BY <1>1, <1>4, <1>5 DEF Blocks
<1>7. x < n + H[n].size
  <2> SUFFICES ASSUME ~ (x < n + H[n].size) PROVE FALSE
    OBVIOUS
  <2>1. n + H[n].size <= x
    BY <1>1, <1>4, <1>5
  <2>2. n + H[n].size \in S
    BY <1>5, <1>6, <2>1
  <2>3. n + H[n].size <= n
    BY <1>3, <2>2
  <2> QED BY <1>4, <1>5, <2>3
<1>8. x \in Bytes(H, n)
  BY <1>1, <1>4, <1>5, <1>7 DEF Bytes
<1> QED BY <1>4, <1>8

(* What is free is what no block in use has.                               *)
LEMMA FreeIsRest ==
    ASSUME NEW H, Headers(H), Tiled(H)
    PROVE  FreeSpace(H) = (Base..(End - 1)) \ UsedSpace(H)
<1>1. /\ \A b \in Blocks(H) : Bytes(H, b) \subseteq Base..(End - 1)
      /\ \A b, c \in Blocks(H) : b # c => Bytes(H, b) \cap Bytes(H, c) = {}
  BY BlocksDisjoint, Zenon
<1>2. \A x \in Base..(End - 1) : \E b \in Blocks(H) : x \in Bytes(H, b)
  BY BlocksCover, Zenon
<1>3. \A x : x \in FreeSpace(H) <=> \E b \in Blocks(H) : ~H[b].used /\ x \in Bytes(H, b)
  BY DEF FreeSpace, FreeBlocks
<1>4. \A x : x \in UsedSpace(H) <=> \E b \in Blocks(H) : H[b].used /\ x \in Bytes(H, b)
  BY DEF UsedSpace
<1>5. ASSUME NEW x PROVE x \in FreeSpace(H) <=> x \in (Base..(End - 1)) \ UsedSpace(H)
  <2>1. ASSUME x \in FreeSpace(H) PROVE x \in (Base..(End - 1)) \ UsedSpace(H)
    <3>1. PICK b \in Blocks(H) : ~H[b].used /\ x \in Bytes(H, b)
      BY <1>3, <2>1, Zenon
    <3>2. x \notin UsedSpace(H)
      <4> SUFFICES ASSUME x \in UsedSpace(H) PROVE FALSE
        OBVIOUS
      <4>1. PICK c \in Blocks(H) : H[c].used /\ x \in Bytes(H, c)
        BY <1>4, Zenon
      <4>2. b # c
        BY <3>1, <4>1
      <4> QED BY <1>1, <3>1, <4>1, <4>2
    <3>3. x \in Base..(End - 1)
      BY <1>1, <3>1
    <3> QED BY <3>2, <3>3, Zenon
  <2>2. ASSUME x \in (Base..(End - 1)) \ UsedSpace(H) PROVE x \in FreeSpace(H)
    <3>1. PICK b \in Blocks(H) : x \in Bytes(H, b)
      BY <1>2, <2>2, Zenon
    <3>2. ~H[b].used
      BY <1>4, <2>2, <3>1, Zenon
    <3> QED BY <1>3, <3>1, <3>2, Zenon
  <2> QED BY <2>1, <2>2, Zenon
<1> QED BY <1>5, Zenon

(* When block b is in use as well, its size is missing from what is free.  *)
LEMMA FreeLess ==
    ASSUME NEW H, Good(H, NULL), NEW G, Good(G, NULL), NEW b \in Blocks(G), G[b].used,
           SameInUseBut(H, G, b)
    PROVE  /\ Cardinality(FreeSpace(G)) = Cardinality(FreeSpace(H)) - G[b].size
           /\ Cardinality(FreeSpace(H)) \in Nat
<1> DEFINE all == Base..(End - 1)
           taken == Bytes(G, b)
<1>1. Headers(H) /\ Tiled(H) /\ Headers(G) /\ Tiled(G)
  BY DEF Good
<1>2. FreeSpace(H) = all \ UsedSpace(H) /\ FreeSpace(G) = all \ UsedSpace(G)
  BY <1>1, FreeIsRest, Zenon
<1>3. /\ \A x : x \in UsedSpace(H) <=> \E a \in Blocks(H) : H[a].used /\ x \in Bytes(H, a)
      /\ \A x : x \in UsedSpace(G) <=> \E a \in Blocks(G) : G[a].used /\ x \in Bytes(G, a)
  BY DEF UsedSpace
<1>4. \A a \in Blocks(H) : H[a].used =>
         a \in Blocks(G) /\ G[a].used /\ a # b /\ Bytes(G, a) = Bytes(H, a)
  BY DEF SameInUseBut, Bytes
<1>5. \A a \in Blocks(G) \ {b} : G[a].used =>
         a \in Blocks(H) /\ H[a].used /\ Bytes(G, a) = Bytes(H, a)
  BY DEF SameInUseBut, Bytes
<1>6. taken \subseteq all /\ \A a \in Blocks(G) : a # b => taken \cap Bytes(G, a) = {}
  BY <1>1, BlocksDisjoint, Zenon
<1> HIDE DEF taken, all
<1>7. ASSUME NEW x PROVE x \in UsedSpace(G) <=> x \in UsedSpace(H) \/ x \in taken
  <2>1. ASSUME x \in UsedSpace(G), x \notin taken PROVE x \in UsedSpace(H)
    <3>1. PICK a \in Blocks(G) : G[a].used /\ x \in Bytes(G, a)
      BY <1>3, <2>1, Zenon
    <3>2. a # b
      BY <2>1, <3>1 DEF taken
    <3> QED BY <1>3, <1>5, <3>1, <3>2
  <2>2. ASSUME x \in UsedSpace(H) PROVE x \in UsedSpace(G)
    BY <1>3, <1>4, <2>2
  <2>3. ASSUME x \in taken PROVE x \in UsedSpace(G)
    BY <1>3, <2>3 DEF taken
  <2> QED BY <2>1, <2>2, <2>3
<1>8. taken \cap UsedSpace(H) = {}
  <2> SUFFICES ASSUME NEW x \in taken, x \in UsedSpace(H) PROVE FALSE
    OBVIOUS
  <2>1. PICK a \in Blocks(H) : H[a].used /\ x \in Bytes(H, a)
    BY <1>3, Zenon
  <2>2. a \in Blocks(G) /\ a # b /\ x \in Bytes(G, a)
    BY <1>4, <2>1
  <2> QED BY <1>6, <2>2
<1>9. FreeSpace(G) = FreeSpace(H) \ taken /\ FreeSpace(H) \cap taken = taken
  BY <1>2, <1>6, <1>7, <1>8
<1>10. b \in Nat /\ G[b].size \in Nat /\ G[b].size >= 16 /\ End \in Nat
  BY <1>1, AddressFacts DEF Tiled, Blocks
<1>11. Cardinality(taken) = G[b].size
  <2>1. b \in Int /\ b + G[b].size - 1 \in Int /\ ~ (b > b + G[b].size - 1)
    BY <1>10
  <2>2. Cardinality(b..(b + G[b].size - 1)) = (b + G[b].size - 1) - b + 1
    BY <2>1, FS_Interval
  <2> QED BY <1>10, <2>2 DEF taken, Bytes
<1>12. IsFiniteSet(FreeSpace(H))
  <2>1. IsFiniteSet(all)
    BY <1>10, FS_Interval DEF all
  <2> QED BY <1>2, <2>1, FS_Difference, Zenon
<1>13. Cardinality(FreeSpace(H) \ taken) =
         Cardinality(FreeSpace(H)) - Cardinality(FreeSpace(H) \cap taken)
  BY <1>12, FS_Difference, Zenon
<1>14. Cardinality(FreeSpace(H)) \in Nat
  BY <1>12, FS_CardinalityType, Zenon
<1>15. Cardinality(FreeSpace(G)) = Cardinality(FreeSpace(H)) - G[b].size
  BY <1>9, <1>11, <1>13, Zenon
<1> QED BY <1>14, <1>15

(* What pvPortMalloc counts from, the first time and later.                *)
LEMMA Free0Exact ==
    ASSUME IInv, FreeBytesExact
    PROVE  Free0 = Cardinality(FreeSpace(Heap0))
<1>1. CASE ready
  BY <1>1 DEF FreeBytesExact, Heap0, Free0
<1>2. CASE ~ready
  <2>1. Heap0 = HeapInit /\ Free0 = HeapSize - 8
    BY <1>2 DEF IInv, Structure, Heap0, Free0
  <2>2. HeapSize \in Nat /\ HeapSize >= 24 /\ End = HeapSize
    BY HeapSizeAssumption DEF End
  <2>3. HeapInit[8].size = HeapSize - 8
    BY HeapInitWords DEF Link
  <2>4. FreeBlocks(HeapInit) = {8}
    BY HeapInitGood DEF FreeBlocks
  <2>5. FreeSpace(HeapInit) = 8..(HeapSize - 1)
    <3>1. Bytes(HeapInit, 8) = 8..(HeapSize - 1)
      BY <2>2, <2>3 DEF Bytes
    <3> QED BY <2>4, <3>1 DEF FreeSpace
  <2>6. Cardinality(8..(HeapSize - 1)) = HeapSize - 8
    <3>1. 8 \in Int /\ HeapSize - 1 \in Int /\ ~ (8 > HeapSize - 1)
      BY <2>2
    <3>2. Cardinality(8..(HeapSize - 1)) = (HeapSize - 1) - 8 + 1
      BY <3>1, FS_Interval
    <3> QED BY <2>2, <3>2
  <2> QED BY <2>1, <2>5, <2>6
<1> QED BY <1>1, <1>2 DEF IInv, TypeOK

(* pvPortMalloc deducts the block as it took it.                           *)
LEMMA BlockCounts ==
    ASSUME IInv, FreeBytesExact, NEW n \in Requests, MallocBlock(n)
    PROVE  FreeBytesExact'
<1> DEFINE w == Wanted(n)
           b == Lowest(Fits(Heap0, w))
<1>1. ready' = TRUE /\ header' = Carved(Heap0, b, w) /\ freeBytes' = Free0 - header'[b].size
  BY DEF MallocBlock, Deducted
<1>2. Good(Heap0, NULL)
  BY Heap0Good
<1>3. n < Word \div 2 /\ n # 0 /\ Fits(Heap0, w) # {}
  <2>1. ~Refused(n)
    BY DEF MallocBlock
  <2>2. n \in Nat /\ Word \div 2 \in Int
    BY WordAssumption, RequestsAssumption
  <2> QED BY <2>1, <2>2 DEF Refused
<1>4. w \in Nat /\ w % 8 = 0 /\ 16 <= w
  BY <1>3, WantedIsEnough
<1> HIDE DEF w
<1>5. b \in Fits(Heap0, w)
  <2>1. Fits(Heap0, w) \in SUBSET (0..End) /\ End \in Int
    BY <1>2, AddressFacts DEF Fits, FreeBlocks, Blocks, Good
  <2>2. \E x \in Fits(Heap0, w) : \A c \in Fits(Heap0, w) : x <= c
    BY <1>3, <2>1, LowestExists
  <2> QED BY <2>2 DEF Lowest
<1> HIDE DEF b
<1>6. /\ Good(header', NULL) /\ SameInUseBut(Heap0, header', b)
      /\ b \in Blocks(header') /\ header'[b].used
  BY <1>1, <1>2, <1>4, <1>5, CarveKeeps
<1>7. Cardinality(FreeSpace(header')) = Cardinality(FreeSpace(Heap0)) - header'[b].size
  BY <1>2, <1>6, FreeLess
<1> QED BY <1>1, <1>7, Free0Exact DEF FreeBytesExact

(* vPortFree adds what the block had, before it is merged.                 *)
LEMMA FreeCounts ==
    ASSUME IInv, FreeBytesExact, vPortFree
    PROVE  FreeBytesExact'
<1>1. PICK p \in DOMAIN held :
         LET b == p - StructSize
         IN IF header[b].used /\ header[b].next = NULL
            THEN /\ freeBytes' = freeBytes + header[b].size
                 /\ header' = InsertBlockIntoFreeList(Released(header, b), b)
            ELSE UNCHANGED <<freeBytes, header>>
  BY DEF vPortFree
<1> DEFINE b == p - 8
           R == Released(header, b)
<1>2. ready /\ ready' = ready
  BY DEF vPortFree, IInv, Structure
<1>3. Good(header, NULL) /\ InUse(header)
  BY <1>2 DEF IInv, TypeOK, Structure, Good, Linked, Merged
<1>4. b \in Blocks(header) /\ header[b].used
  <2>1. p \in Nat
    BY <1>3, AddressFacts DEF IInv, TypeOK, Addresses, Good
  <2>2. b \in Blocks(header) /\ b + 8 = p
    BY <1>3, <2>1 DEF InUse
  <2> QED BY <1>3, <2>2 DEF InUse
<1>5. header[b].next = NULL
  BY <1>3, <1>4 DEF Good, LinkedBut
<1>6. freeBytes' = freeBytes + header[b].size /\ header' = InsertBlockIntoFreeList(R, b)
  BY <1>1, <1>4, <1>5
<1>7. /\ b \in FreeBlocks(R) /\ Good(R, b) /\ Blocks(R) = Blocks(header)
      /\ \A h \in Blocks(header) \ {b} : R[h] = header[h]
  BY <1>3, <1>4, <1>5, ReleaseKeeps
<1>8. ~R[b].used
  BY <1>7 DEF FreeBlocks
<1> HIDE DEF R
<1>9. Good(header', NULL) /\ SameInUse(R, header')
  BY <1>6, <1>7, InsertKeeps
<1>10. SameInUseBut(header', header, b)
  <2>1. ASSUME NEW h \in Blocks(header'), header'[h].used
        PROVE  h \in Blocks(header) /\ header[h] = header'[h] /\ h # b
    <3>1. h \in Blocks(R) /\ R[h].used
      BY <1>9, <2>1 DEF SameInUse
    <3>2. header'[h] = R[h]
      BY <1>9, <3>1 DEF SameInUse
    <3>3. h # b
      BY <1>8, <3>1
    <3> QED BY <1>7, <3>1, <3>2, <3>3
  <2>2. ASSUME NEW h \in Blocks(header) \ {b}, header[h].used
        PROVE  h \in Blocks(header') /\ header'[h].used
    <3>1. h \in Blocks(R) /\ R[h] = header[h]
      BY <1>7
    <3> QED BY <1>9, <2>2, <3>1 DEF SameInUse
  <2> QED BY <2>1, <2>2 DEF SameInUseBut
<1>11. /\ Cardinality(FreeSpace(header)) = Cardinality(FreeSpace(header')) - header[b].size
       /\ Cardinality(FreeSpace(header')) \in Nat
  BY <1>3, <1>4, <1>9, <1>10, FreeLess
<1>12. header[b].size \in Nat
  BY <1>3, <1>4, AddressFacts DEF Good, Blocks
<1>13. freeBytes = Cardinality(FreeSpace(header))
  BY <1>2 DEF FreeBytesExact
<1> QED BY <1>6, <1>11, <1>12, <1>13 DEF FreeBytesExact

(* Every call keeps the count.                                             *)
LEMMA CountKept == IInv /\ FreeBytesExact /\ [Next]_vars => FreeBytesExact'
<1> SUFFICES ASSUME IInv, FreeBytesExact, [Next]_vars PROVE FreeBytesExact'
  OBVIOUS
<1>1. ASSUME NEW n \in Requests, MallocNull(n) PROVE FreeBytesExact'
  BY <1>1, Free0Exact DEF MallocNull, FreeBytesExact
<1>2. CASE pvPortMalloc
  BY <1>1, <1>2, BlockCounts DEF pvPortMalloc
<1>3. CASE pvPortCalloc
  BY <1>1, <1>3, BlockCounts DEF pvPortCalloc
<1>4. CASE vPortFree
  BY <1>4, FreeCounts
<1>5. CASE UNCHANGED vars
  BY <1>5 DEF FreeBytesExact, vars
<1> QED BY <1>2, <1>3, <1>4, <1>5 DEF Next

-----------------------------------------------------------------------------
(* The theorems.                                                           *)

(* Headers and pointers stay aligned and inside ucHeap.                    *)
THEOREM TypeCorrect == Spec => []TypeOK
<1>1. IInv => TypeOK
  BY DEF IInv
<1> QED BY Invariance, <1>1, PTL

(* The blocks tile the heap and the list holds the free ones in order.     *)
THEOREM StructureKept == Spec => []Structure
<1>1. IInv => Structure
  BY DEF IInv
<1> QED BY Invariance, <1>1, PTL

(* No caller's bytes meet another caller's, a header, or leave the heap.   *)
THEOREM CallersApart == Spec => []BytesApart
<1> QED BY Invariance, ApartFromStructure, PTL

(* However it was cut up, the heap given back is one free block again.     *)
THEOREM NothingLost == Spec => []MergedWhenAllFree
<1> QED BY Invariance, MergedFromStructure, PTL

(* xFreeBytesRemaining is what is free, through rounding, splitting,       *)
(* merging and refused requests.                                           *)
THEOREM CountIsExact == Spec => []FreeBytesExact
<1>1. Init => FreeBytesExact
  BY DEF Init, FreeBytesExact
<1> QED BY Invariance, CountKept, <1>1, PTL DEF Spec
=============================================================================
