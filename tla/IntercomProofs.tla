--------------------------- MODULE IntercomProofs ---------------------------
(***************************************************************************)
(* Theorems about Intercom for every number of buffers, capacity and       *)
(* bound.  First, for every interleaving of the unlocked queue operations, *)
(* its types and the conservation of the deque's count.  Then where the    *)
(* buffers are: the contents of the ring are followed through every        *)
(* access, as long as no datagram is handled at one of the four points of  *)
(* task_play's queue operations where that moves the ring under it (Torn). *)
(* Last, with no datagram inside a queue operation and fewer arrivals      *)
(* during a copy than there are buffers, what the frames handed to the     *)
(* codec hold and their order.                                             *)
(***************************************************************************)
EXTENDS Intercom, TLAPS

(* The count task_play carries in a register between its load of           *)
(* deque->size and its store is the count in memory: the server puts back  *)
(* as many buffers as it takes each time it runs.                          *)
RegisterFresh ==
    /\ play.pc \in {"dqLast", "dqElem", "dqStore", "dqLoad", "dqDec"} =>
          play.size = RcvBufferNum - 1
    /\ play.pc \in {"eqFirst", "eqSlot", "eqReload", "eqInc"} =>
          play.size = RcvBufferNum - 2

(* Between reading prcv_buff->len and the end of the memcpy task_play uses *)
(* a real buffer; a chunk is sent only while one is left.                  *)
LocalsOK ==
    /\ play.pc \in {"zero"} \cup InEnqueue \cup InCopy => play.elem \in Buffers
    /\ play.pc = "send" => play.left > 0

IInv == TypeOK /\ CountConserved /\ RegisterFresh /\ LocalsOK

-----------------------------------------------------------------------------
(* Operators on the ring.                                                  *)

(* A masked index stays inside the buffer.                                 *)
LEMMA MaskInRange ==
    ASSUME NEW x \in Int
    PROVE  x % Capacity \in 0..(Capacity - 1)
  BY BuffersAssumption

(* The neighbours of an index are indices.                                 *)
LEMMA PrevInRange ==
    ASSUME NEW d \in RingType, NEW i \in 0..(Capacity - 1)
    PROVE  Prev(d, i) \in 0..(Capacity - 1)
<1>1. d.capacity = Capacity /\ i - 1 \in Int
  BY BuffersAssumption DEF RingType
<1> QED BY <1>1, MaskInRange DEF Prev

(* The tail of deque_add_first keeps the ring well formed.                 *)
LEMMA PushFirstRing ==
    ASSUME NEW d \in RingType, d.size < Capacity, NEW b \in Buffers
    PROVE  /\ PushFirst(d, b) \in RingType
           /\ PushFirst(d, b).size = d.size + 1
<1> DEFINE f == Prev(d, d.first)
           d1 == [d EXCEPT !.first = f]
           d2 == [d1 EXCEPT !.buffer[f] = b]
           d3 == [d2 EXCEPT !.size = d.size + 1]
<1>1. f \in 0..(Capacity - 1)
  BY PrevInRange DEF RingType
<1>2. d1 \in RingType /\ d1.size = d.size
  <2> HIDE DEF f
  <2> QED BY <1>1 DEF RingType
<1>3. d2 \in RingType /\ d2.size = d.size
  <2> HIDE DEF f, d1
  <2> QED BY <1>1, <1>2 DEF RingType
<1>4. d3 \in RingType /\ d3.size = d.size + 1
  <2> HIDE DEF f, d2
  <2>1. d.size + 1 \in 0..Capacity
    BY BuffersAssumption DEF RingType
  <2> QED BY <1>3, <2>1 DEF RingType
<1>5. PushFirst(d, b) = d3
  BY DEF PushFirst
<1> QED BY <1>4, <1>5

(* deque_remove_last keeps the ring well formed, and what it hands out is  *)
(* a word of the buffer.                                                   *)
LEMMA RemoveLastRing ==
    ASSUME NEW d \in RingType, d.size # 0
    PROVE  /\ RemoveLast(d) \in RingType
           /\ RemoveLast(d).size = d.size - 1
           /\ LastOut(d) \in Buffers \cup {Unset}
<1> DEFINE l == Prev(d, d.last)
           d1 == [d EXCEPT !.last = l]
           d2 == [d1 EXCEPT !.size = d.size - 1]
<1>1. l \in 0..(Capacity - 1)
  BY PrevInRange DEF RingType
<1>2. d1 \in RingType /\ d1.size = d.size
  <2> HIDE DEF l
  <2> QED BY <1>1 DEF RingType
<1>3. d2 \in RingType /\ d2.size = d.size - 1
  <2> HIDE DEF d1
  <2>1. d.size - 1 \in 0..Capacity
    BY BuffersAssumption DEF RingType
  <2> QED BY <1>2, <2>1 DEF RingType
<1>4. RemoveLast(d) = d2
  BY DEF RemoveLast
<1>5. LastOut(d) \in Buffers \cup {Unset}
  BY <1>1 DEF LastOut, RingType
<1> QED BY <1>3, <1>4, <1>5

(* One turn of the server: the ring stays well formed, its count is what   *)
(* it was, and the server gets a word of the buffer.                       *)
LEMMA ServerTurn ==
    ASSUME NEW d \in RingType, d.size < RcvBufferNum, NEW b \in Buffers
    PROVE  /\ RemoveLast(RcvEnqueue(d, b)) \in RingType
           /\ RemoveLast(RcvEnqueue(d, b)).size = d.size
           /\ Dequeued(RcvEnqueue(d, b)) \in Buffers \cup {Unset}
<1> DEFINE q == PushFirst(d, b)
<1>1. d.size \in Nat /\ d.size < Capacity /\ d.capacity = Capacity
  BY BuffersAssumption DEF RingType
<1>2. RcvEnqueue(d, b) = q
  <2>1. d.size # RcvBufferNum
    BY <1>1, BuffersAssumption
  <2> QED BY <1>1, <2>1 DEF RcvEnqueue, AddFirst
<1>3. q \in RingType /\ q.size = d.size + 1
  BY <1>1, PushFirstRing
<1> HIDE DEF q
<1>4. q.size # 0
  BY <1>1, <1>3
<1>5. RemoveLast(q) \in RingType /\ RemoveLast(q).size = d.size
  BY <1>1, <1>3, <1>4, RemoveLastRing
<1>6. Dequeued(q) \in Buffers \cup {Unset}
  BY <1>3, <1>4, RemoveLastRing DEF Dequeued
<1> QED BY <1>2, <1>5, <1>6

-----------------------------------------------------------------------------
(* The initial state.                                                      *)
LEMMA InitIInv == Init => IInv
<1> SUFFICES ASSUME Init PROVE IInv
  OBVIOUS
<1>1. InitialQueue \in RingType /\ InitialQueue.size = RcvBufferNum
  BY BuffersAssumption DEF InitialQueue, RingType, Buffers
<1>2. /\ dq \in RingType /\ dq.size = RcvBufferNum - 1
      /\ held \in Buffers \cup {Unset}
  <2>1. InitialQueue.size # 0
    BY <1>1, BuffersAssumption
  <2> QED BY <1>1, <2>1, RemoveLastRing DEF Init, Dequeued
<1>3. play \in PlayType
  BY BuffersAssumption, BoundsAssumption
  DEF Init, PlayType, PlayPcs
<1>4. client \in ClientType
  BY DEF Init, ClientType, ClientPcs
<1>5. buf \in [Buffers -> BufferRecord]
  BY BoundsAssumption DEF Init, BufferRecord, Kinds
<1>6. /\ line \in BOOLEAN /\ remote \in Peers
      /\ semPlay \in 0..SemMax /\ semClient \in 0..SemMax
      /\ nextTag \in 1..(MaxTag + 1) /\ played \in 0..MaxTag /\ burst \in Nat
  <2>1. /\ remote \in Peers /\ semPlay = 0 /\ semClient = 0
        /\ nextTag = 1 /\ played = 0 /\ burst = 0
    BY DEF Init
  <2>2. MaxTag \in Nat /\ SemMax \in Nat
    BY BoundsAssumption
  <2>3. line \in BOOLEAN
    BY DEF Init
  <2>4. /\ semPlay \in 0..SemMax /\ semClient \in 0..SemMax
        /\ nextTag \in 1..(MaxTag + 1) /\ played \in 0..MaxTag /\ burst \in Nat
    BY <2>1, <2>2
  <2> QED BY <2>1, <2>3, <2>4
<1>7. TypeOK
  BY <1>2, <1>3, <1>4, <1>5, <1>6 DEF TypeOK
<1>8. play.pc = "pend"
  BY DEF Init
<1>9. CountConserved
  BY <1>2, <1>8 DEF CountConserved, PlayHasOne, InEnqueue
<1>10. RegisterFresh /\ LocalsOK
  BY <1>8 DEF RegisterFresh, LocalsOK, InEnqueue, InCopy
<1> QED BY <1>7, <1>9, <1>10 DEF IInv

-----------------------------------------------------------------------------
(* The server.                                                             *)
LEMMA ServerKeepsIInv ==
    ASSUME IInv, NEW d \in BufferRecord, NEW peer \in Peers,
           ServerReceive(d, peer), nextTag' \in 1..(MaxTag + 1)
    PROVE  IInv'
<1> DEFINE got == Stored(held, d)
           kept == IF got.kind \in Commands THEN [got EXCEPT !.len = 0] ELSE got
<1>1. held \in Buffers /\ play.pc # "fault"
  BY DEF IInv, TypeOK, ServerReceive, Halted
<1>2. got \in BufferRecord
  BY <1>1 DEF IInv, TypeOK, Stored, BufferRecord
<1>3. kept \in BufferRecord
  <2> HIDE DEF got
  <2> QED BY <1>2 DEF BufferRecord
<1>4. buf' \in [Buffers -> BufferRecord]
  <2>1. buf' = [buf EXCEPT ![held] = kept]
    BY DEF ServerReceive
  <2> HIDE DEF kept
  <2> QED BY <1>3, <2>1 DEF IInv, TypeOK
<1>5. dq \in RingType /\ dq.size < RcvBufferNum /\ dq.size \in Int
  BY <1>1, BuffersAssumption DEF IInv, TypeOK, CountConserved, RingType
<1>6. dq' \in RingType /\ dq'.size = dq.size /\ held' \in Buffers \cup {Unset}
  BY <1>1, <1>5, ServerTurn DEF ServerReceive
<1>7. line' \in BOOLEAN /\ remote' \in Peers
  BY DEF IInv, TypeOK, ServerReceive, LineAfter
<1>8. semPlay' \in 0..SemMax /\ semClient' \in 0..SemMax
  BY BoundsAssumption DEF IInv, TypeOK, ServerReceive, Posted
<1>9. burst' \in Nat /\ UNCHANGED <<play, client, played>>
  BY DEF IInv, TypeOK, ServerReceive
<1>10. TypeOK'
  BY <1>4, <1>6, <1>7, <1>8, <1>9 DEF IInv, TypeOK
<1>11. CountConserved'
  BY <1>6, <1>9 DEF IInv, CountConserved, PlayHasOne
<1>12. RegisterFresh' /\ LocalsOK'
  BY <1>9 DEF IInv, RegisterFresh, LocalsOK
<1> QED BY <1>10, <1>11, <1>12 DEF IInv

(* Every datagram the server may receive keeps IInv.                     *)
LEMMA ServerStep ==
    ASSUME IInv, Server
    PROVE  IInv'
<1> PICK peer \in Peers : \/ ServerCommand(peer) \/ ServerHeader(peer)
                          \/ ServerEmpty(peer) \/ ServerAudio(peer)
  BY DEF Server
<1>1. nextTag \in 1..(MaxTag + 1) /\ MaxTag \in Nat
  BY BoundsAssumption DEF IInv, TypeOK
<1>2. \A k \in Kinds, t \in 0..MaxTag, l \in {0, 1} : Datagram(k, t, l) \in BufferRecord
  BY DEF Datagram, BufferRecord
<1>2b. Commands \subseteq Kinds /\ "RIFF" \in Kinds /\ "PCM" \in Kinds
       /\ 0 \in 0..MaxTag
  BY <1>1 DEF Kinds
<1>3. CASE ServerCommand(peer)
  <2> PICK k \in Commands : ServerReceive(Datagram(k, 0, 1), peer)
    BY <1>3 DEF ServerCommand
  <2>1. Datagram(k, 0, 1) \in BufferRecord
    BY <1>2, <1>2b
  <2> QED BY <1>1, <1>3, <2>1, ServerKeepsIInv DEF ServerCommand
<1>4. CASE ServerHeader(peer)
  <2>1. Datagram("RIFF", 0, 1) \in BufferRecord
    BY <1>2, <1>2b
  <2> QED BY <1>1, <1>4, <2>1, ServerKeepsIInv DEF ServerHeader
<1>5. CASE ServerEmpty(peer)
  <2>1. Datagram("PCM", 0, 0) \in BufferRecord
    BY <1>2, <1>2b
  <2> QED BY <1>1, <1>5, <2>1, ServerKeepsIInv DEF ServerEmpty
<1>6. CASE ServerAudio(peer)
  <2>1. CASE ServerReceive(Datagram("PCM", 0, 1), peer) /\ UNCHANGED nextTag
    <3>1. Datagram("PCM", 0, 1) \in BufferRecord
      BY <1>2, <1>2b
    <3> QED BY <1>1, <2>1, <3>1, ServerKeepsIInv
  <2>2. CASE /\ nextTag <= MaxTag
             /\ ServerReceive(Datagram("PCM", nextTag, 1), peer)
             /\ nextTag' = nextTag + 1
    <3>1. Datagram("PCM", nextTag, 1) \in BufferRecord
      BY <1>1, <1>2, <1>2b, <2>2
    <3>2. nextTag' \in 1..(MaxTag + 1)
      BY <1>1, <2>2
    <3> QED BY <2>2, <3>1, <3>2, ServerKeepsIInv
  <2> QED BY <1>6, <2>1, <2>2 DEF ServerAudio
<1> QED BY <1>3, <1>4, <1>5, <1>6

-----------------------------------------------------------------------------
(* task_play.  What its steps leave alone keeps its type.                  *)
LEMMA PlayFrame ==
    ASSUME TypeOK, PlayUnchanged, dq' \in RingType,
           buf' \in [Buffers -> BufferRecord],
           semPlay' \in 0..SemMax, semClient' \in 0..SemMax,
           play' \in PlayType, played' \in 0..MaxTag, burst' \in Nat
    PROVE  TypeOK'
  BY DEF TypeOK, PlayUnchanged, serverVars

(* A change of one field by a value of its type keeps task_play's record   *)
(* well typed.                                                             *)
LEMMA PlayUpdate ==
    \A p \in PlayType :
       /\ \A v \in PlayPcs : [p EXCEPT !.pc = v] \in PlayType
       /\ \A v \in 0..(Capacity - 1) : [p EXCEPT !.reg = v] \in PlayType
       /\ \A v \in 0..Capacity : [p EXCEPT !.size = v] \in PlayType
       /\ \A v \in Buffers \cup {Unset} : [p EXCEPT !.elem = v] \in PlayType
       /\ \A v \in {0, 1} : [p EXCEPT !.len = v] \in PlayType
       /\ \A v \in (0..MaxTag) \X (0..MaxTag) : [p EXCEPT !.pbuff = v] \in PlayType
       /\ \A v \in 0..Chunks : [p EXCEPT !.left = v] \in PlayType
  BY DEF PlayType

(* The same for the ring.                                                  *)
LEMMA RingUpdate ==
    \A d \in RingType :
       /\ \A v \in 0..Capacity : [d EXCEPT !.size = v] \in RingType
       /\ \A v \in 0..(Capacity - 1) : [d EXCEPT !.first = v] \in RingType
       /\ \A v \in 0..(Capacity - 1) : [d EXCEPT !.last = v] \in RingType
       /\ \A i \in 0..(Capacity - 1), b \in Buffers :
             [d EXCEPT !.buffer[i] = b] \in RingType
  BY DEF RingType

(* OSSemPend returning to task_play keeps IInv.                            *)
LEMMA PlayPendKeepsIInv ==
    ASSUME IInv, PlayPend
    PROVE  IInv'
<1>1. /\ TypeOK /\ play \in PlayType /\ play.pc = "pend" /\ PlayUnchanged
      /\ dq \in RingType /\ buf \in [Buffers -> BufferRecord]
  BY DEF IInv, TypeOK, PlayPend, PlayStep
<1>2. RcvBufferNum \in Nat /\ RcvBufferNum >= 2 /\ RcvBufferNum < Capacity
      /\ Capacity \in Nat /\ Chunks \in Nat \ {0}
  BY BuffersAssumption, BoundsAssumption
<1>3. play' \in PlayType
  BY <1>1, <1>2, PlayUpdate DEF PlayPend, PlayStep, PlayPcs, InDequeue, InEnqueue, InCopy
<1>4. dq' \in RingType /\ UNCHANGED dq
  BY <1>1 DEF PlayPend, PlayStep
<1>5. buf' \in [Buffers -> BufferRecord]
  BY <1>1 DEF PlayPend, PlayStep
<1>6. semPlay' \in 0..SemMax /\ semClient' \in 0..SemMax
  BY <1>1, BoundsAssumption DEF TypeOK, PlayPend
<1>7. played' \in 0..MaxTag /\ burst' \in Nat
  BY <1>1 DEF TypeOK, PlayPend, PlayStep
<1>8. TypeOK'
  BY <1>1, <1>3, <1>4, <1>5, <1>6, <1>7, PlayFrame
<1>9. CountConserved'
  BY <1>1, <1>2, <1>4 DEF IInv, PlayPend, PlayStep, CountConserved, PlayHasOne,
     InEnqueue, PlayType, RingType
<1>10. RegisterFresh'
  BY <1>1, <1>2, <1>4 DEF IInv, PlayPend, PlayStep, RegisterFresh, CountConserved,
     PlayHasOne, InEnqueue, PlayType, RingType
<1>11. LocalsOK'
  BY <1>1, <1>2, <1>4 DEF IInv, PlayPend, PlayStep, LocalsOK, InEnqueue, InCopy,
     PlayType, RingType
<1> QED BY <1>8, <1>9, <1>10, <1>11 DEF IInv

(* deque_remove_last testing the size keeps IInv.                          *)
LEMMA DequeueTestKeepsIInv ==
    ASSUME IInv, DequeueTest
    PROVE  IInv'
<1>1. /\ TypeOK /\ play \in PlayType /\ play.pc = "dqTest" /\ PlayUnchanged
      /\ dq \in RingType /\ buf \in [Buffers -> BufferRecord]
  BY DEF IInv, TypeOK, DequeueTest
<1>2. RcvBufferNum \in Nat /\ RcvBufferNum >= 2 /\ RcvBufferNum < Capacity
      /\ Capacity \in Nat /\ Chunks \in Nat \ {0}
  BY BuffersAssumption, BoundsAssumption
<1>a. dq.size \in 0..Capacity
  BY <1>1 DEF RingType
<1>3. play' \in PlayType
  BY <1>1, <1>2, <1>a, PlayUpdate DEF DequeueTest, PlayPcs, InDequeue, InEnqueue, InCopy
<1>4. dq' \in RingType /\ UNCHANGED dq
  BY <1>1 DEF DequeueTest
<1>5. buf' \in [Buffers -> BufferRecord]
  BY <1>1 DEF DequeueTest
<1>6. semPlay' \in 0..SemMax /\ semClient' \in 0..SemMax
  BY <1>1 DEF TypeOK, DequeueTest, sems
<1>7. played' \in 0..MaxTag /\ burst' \in Nat
  BY <1>1 DEF TypeOK, DequeueTest
<1>8. TypeOK'
  BY <1>1, <1>3, <1>4, <1>5, <1>6, <1>7, PlayFrame
<1>9. CountConserved'
  BY <1>1, <1>2, <1>4, <1>a DEF IInv, DequeueTest, CountConserved, PlayHasOne,
     InEnqueue, PlayType, RingType
<1>10. RegisterFresh'
  BY <1>1, <1>2, <1>4, <1>a DEF IInv, DequeueTest, RegisterFresh, CountConserved,
     PlayHasOne, InEnqueue, PlayType, RingType
<1>11. LocalsOK'
  BY <1>1, <1>2, <1>4, <1>a DEF IInv, DequeueTest, LocalsOK, InEnqueue, InCopy,
     PlayType, RingType
<1> QED BY <1>8, <1>9, <1>10, <1>11 DEF IInv

(* deque_remove_last computing the index of the last element keeps IInv.   *)
LEMMA DequeueLastKeepsIInv ==
    ASSUME IInv, DequeueLast
    PROVE  IInv'
<1>1. /\ TypeOK /\ play \in PlayType /\ play.pc = "dqLast" /\ PlayUnchanged
      /\ dq \in RingType /\ buf \in [Buffers -> BufferRecord]
  BY DEF IInv, TypeOK, DequeueLast
<1>2. RcvBufferNum \in Nat /\ RcvBufferNum >= 2 /\ RcvBufferNum < Capacity
      /\ Capacity \in Nat /\ Chunks \in Nat \ {0}
  BY BuffersAssumption, BoundsAssumption
<1>a. Prev(dq, dq.last) \in 0..(Capacity - 1)
  BY <1>1, PrevInRange DEF RingType
<1>3. play' \in PlayType
  BY <1>1, <1>2, <1>a, PlayUpdate DEF DequeueLast, PlayPcs, InDequeue, InEnqueue, InCopy
<1>4. dq' \in RingType /\ UNCHANGED dq
  BY <1>1 DEF DequeueLast
<1>5. buf' \in [Buffers -> BufferRecord]
  BY <1>1 DEF DequeueLast
<1>6. semPlay' \in 0..SemMax /\ semClient' \in 0..SemMax
  BY <1>1 DEF TypeOK, DequeueLast, sems
<1>7. played' \in 0..MaxTag /\ burst' \in Nat
  BY <1>1 DEF TypeOK, DequeueLast
<1>8. TypeOK'
  BY <1>1, <1>3, <1>4, <1>5, <1>6, <1>7, PlayFrame
<1>9. CountConserved'
  BY <1>1, <1>2, <1>4, <1>a DEF IInv, DequeueLast, CountConserved, PlayHasOne,
     InEnqueue, PlayType, RingType
<1>10. RegisterFresh'
  BY <1>1, <1>2, <1>4, <1>a DEF IInv, DequeueLast, RegisterFresh, CountConserved,
     PlayHasOne, InEnqueue, PlayType, RingType
<1>11. LocalsOK'
  BY <1>1, <1>2, <1>4, <1>a DEF IInv, DequeueLast, LocalsOK, InEnqueue, InCopy,
     PlayType, RingType
<1> QED BY <1>8, <1>9, <1>10, <1>11 DEF IInv

(* deque_remove_last reading that element keeps IInv.                      *)
LEMMA DequeueElemKeepsIInv ==
    ASSUME IInv, DequeueElem
    PROVE  IInv'
<1>1. /\ TypeOK /\ play \in PlayType /\ play.pc = "dqElem" /\ PlayUnchanged
      /\ dq \in RingType /\ buf \in [Buffers -> BufferRecord]
  BY DEF IInv, TypeOK, DequeueElem
<1>2. RcvBufferNum \in Nat /\ RcvBufferNum >= 2 /\ RcvBufferNum < Capacity
      /\ Capacity \in Nat /\ Chunks \in Nat \ {0}
  BY BuffersAssumption, BoundsAssumption
<1>a. dq.buffer[play.reg] \in Buffers \cup {Unset}
  BY <1>1 DEF RingType, PlayType
<1>3. play' \in PlayType
  BY <1>1, <1>2, <1>a, PlayUpdate DEF DequeueElem, PlayPcs, InDequeue, InEnqueue, InCopy
<1>4. dq' \in RingType /\ UNCHANGED dq
  BY <1>1 DEF DequeueElem
<1>5. buf' \in [Buffers -> BufferRecord]
  BY <1>1 DEF DequeueElem
<1>6. semPlay' \in 0..SemMax /\ semClient' \in 0..SemMax
  BY <1>1 DEF TypeOK, DequeueElem, sems
<1>7. played' \in 0..MaxTag /\ burst' \in Nat
  BY <1>1 DEF TypeOK, DequeueElem
<1>8. TypeOK'
  BY <1>1, <1>3, <1>4, <1>5, <1>6, <1>7, PlayFrame
<1>9. CountConserved'
  BY <1>1, <1>2, <1>4, <1>a DEF IInv, DequeueElem, CountConserved, PlayHasOne,
     InEnqueue, PlayType, RingType
<1>10. RegisterFresh'
  BY <1>1, <1>2, <1>4, <1>a DEF IInv, DequeueElem, RegisterFresh, CountConserved,
     PlayHasOne, InEnqueue, PlayType, RingType
<1>11. LocalsOK'
  BY <1>1, <1>2, <1>4, <1>a DEF IInv, DequeueElem, LocalsOK, InEnqueue, InCopy,
     PlayType, RingType
<1> QED BY <1>8, <1>9, <1>10, <1>11 DEF IInv

(* deque_remove_last storing last keeps IInv.                              *)
LEMMA DequeueStoreKeepsIInv ==
    ASSUME IInv, DequeueStore
    PROVE  IInv'
<1>1. /\ TypeOK /\ play \in PlayType /\ play.pc = "dqStore" /\ PlayUnchanged
      /\ dq \in RingType /\ buf \in [Buffers -> BufferRecord]
  BY DEF IInv, TypeOK, DequeueStore, PlayStep
<1>2. RcvBufferNum \in Nat /\ RcvBufferNum >= 2 /\ RcvBufferNum < Capacity
      /\ Capacity \in Nat /\ Chunks \in Nat \ {0}
  BY BuffersAssumption, BoundsAssumption
<1>3. play' \in PlayType
  BY <1>1, <1>2, PlayUpdate DEF DequeueStore, PlayStep, PlayPcs, InDequeue,
     InEnqueue, InCopy
<1>4. dq' \in RingType
  <2>1. play.reg \in 0..(Capacity - 1)
    BY <1>1 DEF PlayType
  <2> QED BY <1>1, <2>1, RingUpdate DEF DequeueStore
<1>5. buf' \in [Buffers -> BufferRecord]
  BY <1>1 DEF DequeueStore, PlayStep
<1>6. semPlay' \in 0..SemMax /\ semClient' \in 0..SemMax
  BY <1>1 DEF TypeOK, DequeueStore, PlayStep, sems
<1>7. played' \in 0..MaxTag /\ burst' \in Nat
  BY <1>1 DEF TypeOK, DequeueStore, PlayStep
<1>8. TypeOK'
  BY <1>1, <1>3, <1>4, <1>5, <1>6, <1>7, PlayFrame
<1>9. CountConserved'
  BY <1>1, <1>2, <1>4 DEF IInv, DequeueStore, PlayStep, CountConserved, PlayHasOne,
     InEnqueue, PlayType, RingType
<1>10. RegisterFresh'
  BY <1>1, <1>2, <1>4 DEF IInv, DequeueStore, PlayStep, RegisterFresh,
     CountConserved, PlayHasOne, InEnqueue, PlayType, RingType
<1>11. LocalsOK'
  BY <1>1, <1>2, <1>4 DEF IInv, DequeueStore, PlayStep, LocalsOK, InEnqueue, InCopy,
     PlayType, RingType
<1> QED BY <1>8, <1>9, <1>10, <1>11 DEF IInv

(* deque_remove_last loading the size to decrement keeps IInv.             *)
LEMMA DequeueLoadKeepsIInv ==
    ASSUME IInv, DequeueLoad
    PROVE  IInv'
<1>1. /\ TypeOK /\ play \in PlayType /\ play.pc = "dqLoad" /\ PlayUnchanged
      /\ dq \in RingType /\ buf \in [Buffers -> BufferRecord]
  BY DEF IInv, TypeOK, DequeueLoad
<1>2. RcvBufferNum \in Nat /\ RcvBufferNum >= 2 /\ RcvBufferNum < Capacity
      /\ Capacity \in Nat /\ Chunks \in Nat \ {0}
  BY BuffersAssumption, BoundsAssumption
<1>a. play.size \in 0..Capacity /\ dq.size \in 0..Capacity
  BY <1>1 DEF PlayType, RingType
<1>3. play' \in PlayType
  <2> PICK s \in {play.size, dq.size} : play' = [play EXCEPT !.pc = "dqDec", !.size = s]
    BY DEF DequeueLoad
  <2>1. s \in 0..Capacity
    BY <1>a
  <2> QED BY <1>1, <2>1, PlayUpdate DEF PlayPcs, InDequeue, InEnqueue
<1>4. dq' \in RingType /\ UNCHANGED dq
  BY <1>1 DEF DequeueLoad
<1>5. buf' \in [Buffers -> BufferRecord]
  BY <1>1 DEF DequeueLoad
<1>6. semPlay' \in 0..SemMax /\ semClient' \in 0..SemMax
  BY <1>1 DEF TypeOK, DequeueLoad, sems
<1>7. played' \in 0..MaxTag /\ burst' \in Nat
  BY <1>1 DEF TypeOK, DequeueLoad
<1>8. TypeOK'
  BY <1>1, <1>3, <1>4, <1>5, <1>6, <1>7, PlayFrame
<1>9. CountConserved'
  BY <1>1, <1>2, <1>4, <1>a DEF IInv, DequeueLoad, CountConserved, PlayHasOne,
     InEnqueue, PlayType, RingType
<1>10. RegisterFresh'
  BY <1>1, <1>2, <1>4, <1>a DEF IInv, DequeueLoad, RegisterFresh, CountConserved,
     PlayHasOne, InEnqueue, PlayType, RingType
<1>11. LocalsOK'
  BY <1>1, <1>2, <1>4, <1>a DEF IInv, DequeueLoad, LocalsOK, InEnqueue, InCopy,
     PlayType, RingType
<1> QED BY <1>8, <1>9, <1>10, <1>11 DEF IInv

(* deque_remove_last storing the decremented size keeps IInv.              *)
LEMMA DequeueDecKeepsIInv ==
    ASSUME IInv, DequeueDec
    PROVE  IInv'
<1>1. /\ TypeOK /\ play \in PlayType /\ play.pc = "dqDec" /\ PlayUnchanged
      /\ dq \in RingType /\ buf \in [Buffers -> BufferRecord]
  BY DEF IInv, TypeOK, DequeueDec
<1>2. RcvBufferNum \in Nat /\ RcvBufferNum >= 2 /\ RcvBufferNum < Capacity
      /\ Capacity \in Nat /\ Chunks \in Nat \ {0}
  BY BuffersAssumption, BoundsAssumption
<1>a. 0 \in 0..Capacity /\ 0 \in 0..(Capacity - 1)
  BY <1>2
<1>3. play' \in PlayType
  BY <1>1, <1>2, <1>a, PlayUpdate DEF DequeueDec, PlayPcs, InDequeue, InEnqueue, InCopy
<1>4. dq' \in RingType
  <2>1. play.size = RcvBufferNum - 1
    BY <1>1 DEF IInv, RegisterFresh
  <2>2. play.size - 1 \in 0..Capacity
    BY <1>2, <2>1
  <2> QED BY <1>1, <2>2, RingUpdate DEF DequeueDec
<1>5. buf' \in [Buffers -> BufferRecord]
  BY <1>1 DEF DequeueDec
<1>6. semPlay' \in 0..SemMax /\ semClient' \in 0..SemMax
  BY <1>1 DEF TypeOK, DequeueDec, sems
<1>7. played' \in 0..MaxTag /\ burst' \in Nat
  BY <1>1 DEF TypeOK, DequeueDec
<1>8. TypeOK'
  BY <1>1, <1>3, <1>4, <1>5, <1>6, <1>7, PlayFrame
<1>9. CountConserved'
  <2>1. play.size = RcvBufferNum - 1
    BY <1>1 DEF IInv, RegisterFresh
  <2>2. dq'.size = play.size - 1
    BY <1>1 DEF DequeueDec, RingType
  <2>3. play'.pc = "len"
    BY <1>1 DEF DequeueDec, PlayType
  <2> QED BY <1>2, <2>1, <2>2, <2>3 DEF CountConserved, PlayHasOne, InEnqueue
<1>10. RegisterFresh'
  BY <1>1, <1>2, <1>4, <1>a DEF IInv, DequeueDec, RegisterFresh, CountConserved,
     PlayHasOne, InEnqueue, PlayType, RingType
<1>11. LocalsOK'
  BY <1>1, <1>2, <1>4, <1>a DEF IInv, DequeueDec, LocalsOK, InEnqueue, InCopy,
     PlayType, RingType
<1> QED BY <1>8, <1>9, <1>10, <1>11 DEF IInv

(* task_play reading the length of the buffer keeps IInv.                  *)
LEMMA ReadLenKeepsIInv ==
    ASSUME IInv, ReadLen
    PROVE  IInv'
<1>1. /\ TypeOK /\ play \in PlayType /\ play.pc = "len" /\ PlayUnchanged
      /\ dq \in RingType /\ buf \in [Buffers -> BufferRecord]
  BY DEF IInv, TypeOK, ReadLen
<1>2. RcvBufferNum \in Nat /\ RcvBufferNum >= 2 /\ RcvBufferNum < Capacity
      /\ Capacity \in Nat /\ Chunks \in Nat \ {0}
  BY BuffersAssumption, BoundsAssumption
<1>a. play.elem # Unset => play.elem \in Buffers /\ buf[play.elem].len \in {0, 1}
  BY <1>1 DEF PlayType, BufferRecord
<1>3. play' \in PlayType
  BY <1>1, <1>2, <1>a, PlayUpdate DEF ReadLen, PlayPcs, InDequeue, InEnqueue, InCopy
<1>4. dq' \in RingType /\ UNCHANGED dq
  BY <1>1 DEF ReadLen
<1>5. buf' \in [Buffers -> BufferRecord]
  BY <1>1 DEF ReadLen
<1>6. semPlay' \in 0..SemMax /\ semClient' \in 0..SemMax
  BY <1>1 DEF TypeOK, ReadLen, sems
<1>7. played' \in 0..MaxTag /\ burst' \in Nat
  BY <1>1 DEF TypeOK, ReadLen
<1>8. TypeOK'
  BY <1>1, <1>3, <1>4, <1>5, <1>6, <1>7, PlayFrame
<1>9. CountConserved'
  BY <1>1, <1>2, <1>4, <1>a DEF IInv, ReadLen, CountConserved, PlayHasOne, InEnqueue,
     PlayType, RingType
<1>10. RegisterFresh'
  BY <1>1, <1>2, <1>4, <1>a DEF IInv, ReadLen, RegisterFresh, CountConserved,
     PlayHasOne, InEnqueue, PlayType, RingType
<1>11. LocalsOK'
  BY <1>1, <1>2, <1>4, <1>a DEF IInv, ReadLen, LocalsOK, InEnqueue, InCopy, PlayType,
     RingType
<1> QED BY <1>8, <1>9, <1>10, <1>11 DEF IInv

(* task_play clearing the length of the buffer keeps IInv.                 *)
LEMMA ZeroLenKeepsIInv ==
    ASSUME IInv, ZeroLen
    PROVE  IInv'
<1>1. /\ TypeOK /\ play \in PlayType /\ play.pc = "zero" /\ PlayUnchanged
      /\ dq \in RingType /\ buf \in [Buffers -> BufferRecord]
  BY DEF IInv, TypeOK, ZeroLen, PlayStep
<1>2. RcvBufferNum \in Nat /\ RcvBufferNum >= 2 /\ RcvBufferNum < Capacity
      /\ Capacity \in Nat /\ Chunks \in Nat \ {0}
  BY BuffersAssumption, BoundsAssumption
<1>3. play' \in PlayType
  BY <1>1, <1>2, PlayUpdate DEF ZeroLen, PlayStep, PlayPcs, InDequeue, InEnqueue, InCopy
<1>4. dq' \in RingType /\ UNCHANGED dq
  BY <1>1 DEF ZeroLen, PlayStep
<1>5. buf' \in [Buffers -> BufferRecord]
  <2>1. play.elem \in Buffers
    BY <1>1 DEF IInv, LocalsOK
  <2>2. [buf[play.elem] EXCEPT !.len = 0] \in BufferRecord
    BY <1>1, <2>1 DEF BufferRecord
  <2> QED BY <1>1, <2>1, <2>2 DEF ZeroLen
<1>6. semPlay' \in 0..SemMax /\ semClient' \in 0..SemMax
  BY <1>1 DEF TypeOK, ZeroLen, PlayStep, sems
<1>7. played' \in 0..MaxTag /\ burst' \in Nat
  BY <1>1 DEF TypeOK, ZeroLen, PlayStep
<1>8. TypeOK'
  BY <1>1, <1>3, <1>4, <1>5, <1>6, <1>7, PlayFrame
<1>9. CountConserved'
  BY <1>1, <1>2, <1>4 DEF IInv, ZeroLen, PlayStep, CountConserved, PlayHasOne,
     InEnqueue, PlayType, RingType
<1>10. RegisterFresh'
  BY <1>1, <1>2, <1>4 DEF IInv, ZeroLen, PlayStep, RegisterFresh, CountConserved,
     PlayHasOne, InEnqueue, PlayType, RingType
<1>11. LocalsOK'
  BY <1>1, <1>2, <1>4 DEF IInv, ZeroLen, PlayStep, LocalsOK, InEnqueue, InCopy,
     PlayType, RingType
<1> QED BY <1>8, <1>9, <1>10, <1>11 DEF IInv

(* rcv_queue_enqueue testing for a full queue keeps IInv.                  *)
LEMMA EnqueueTestKeepsIInv ==
    ASSUME IInv, EnqueueTest
    PROVE  IInv'
<1>1. /\ TypeOK /\ play \in PlayType /\ play.pc = "eqTest" /\ PlayUnchanged
      /\ dq \in RingType /\ buf \in [Buffers -> BufferRecord]
  BY DEF IInv, TypeOK, EnqueueTest, PlayStep
<1>2. RcvBufferNum \in Nat /\ RcvBufferNum >= 2 /\ RcvBufferNum < Capacity
      /\ Capacity \in Nat /\ Chunks \in Nat \ {0}
  BY BuffersAssumption, BoundsAssumption
<1>3. play' \in PlayType
  BY <1>1, <1>2, PlayUpdate DEF EnqueueTest, PlayStep, PlayPcs, InDequeue, InEnqueue,
     InCopy
<1>4. dq' \in RingType /\ UNCHANGED dq
  <2>1. dq.size = RcvBufferNum - 2
    BY <1>1 DEF IInv, CountConserved, PlayHasOne, InEnqueue
  <2> QED BY <1>1, <1>2, <2>1 DEF EnqueueTest
<1>5. buf' \in [Buffers -> BufferRecord]
  BY <1>1 DEF EnqueueTest, PlayStep
<1>6. semPlay' \in 0..SemMax /\ semClient' \in 0..SemMax
  BY <1>1 DEF TypeOK, EnqueueTest, PlayStep, sems
<1>7. played' \in 0..MaxTag /\ burst' \in Nat
  BY <1>1 DEF TypeOK, EnqueueTest, PlayStep
<1>8. TypeOK'
  BY <1>1, <1>3, <1>4, <1>5, <1>6, <1>7, PlayFrame
<1>9. CountConserved'
  BY <1>1, <1>2, <1>4 DEF IInv, EnqueueTest, PlayStep, CountConserved, PlayHasOne,
     InEnqueue, PlayType, RingType
<1>10. RegisterFresh'
  BY <1>1, <1>2, <1>4 DEF IInv, EnqueueTest, PlayStep, RegisterFresh, CountConserved,
     PlayHasOne, InEnqueue, PlayType, RingType
<1>11. LocalsOK'
  BY <1>1, <1>2, <1>4 DEF IInv, EnqueueTest, PlayStep, LocalsOK, InEnqueue, InCopy,
     PlayType, RingType
<1> QED BY <1>8, <1>9, <1>10, <1>11 DEF IInv

(* deque_add_first loading size and first keeps IInv.                      *)
LEMMA EnqueueLoadKeepsIInv ==
    ASSUME IInv, EnqueueLoad
    PROVE  IInv'
<1>1. /\ TypeOK /\ play \in PlayType /\ play.pc = "eqLoad" /\ PlayUnchanged
      /\ dq \in RingType /\ buf \in [Buffers -> BufferRecord]
  BY DEF IInv, TypeOK, EnqueueLoad
<1>2. RcvBufferNum \in Nat /\ RcvBufferNum >= 2 /\ RcvBufferNum < Capacity
      /\ Capacity \in Nat /\ Chunks \in Nat \ {0}
  BY BuffersAssumption, BoundsAssumption
<1>a. dq.size \in 0..Capacity /\ Prev(dq, dq.first) \in 0..(Capacity - 1)
  BY <1>1, PrevInRange DEF RingType
<1>3. play' \in PlayType
  BY <1>1, <1>2, <1>a, PlayUpdate DEF EnqueueLoad, PlayPcs, InDequeue, InEnqueue, InCopy
<1>4. dq' \in RingType /\ UNCHANGED dq
  BY <1>1 DEF EnqueueLoad
<1>5. buf' \in [Buffers -> BufferRecord]
  BY <1>1 DEF EnqueueLoad
<1>6. semPlay' \in 0..SemMax /\ semClient' \in 0..SemMax
  BY <1>1 DEF TypeOK, EnqueueLoad, sems
<1>7. played' \in 0..MaxTag /\ burst' \in Nat
  BY <1>1 DEF TypeOK, EnqueueLoad
<1>8. TypeOK'
  BY <1>1, <1>3, <1>4, <1>5, <1>6, <1>7, PlayFrame
<1>9. CountConserved'
  BY <1>1, <1>2, <1>4, <1>a DEF IInv, EnqueueLoad, CountConserved, PlayHasOne,
     InEnqueue, PlayType, RingType
<1>10. RegisterFresh'
  BY <1>1, <1>2, <1>4, <1>a DEF IInv, EnqueueLoad, RegisterFresh, CountConserved,
     PlayHasOne, InEnqueue, PlayType, RingType
<1>11. LocalsOK'
  BY <1>1, <1>2, <1>4, <1>a DEF IInv, EnqueueLoad, LocalsOK, InEnqueue, InCopy,
     PlayType, RingType
<1> QED BY <1>8, <1>9, <1>10, <1>11 DEF IInv

(* deque_add_first storing first keeps IInv.                               *)
LEMMA EnqueueFirstKeepsIInv ==
    ASSUME IInv, EnqueueFirst
    PROVE  IInv'
<1>1. /\ TypeOK /\ play \in PlayType /\ play.pc = "eqFirst" /\ PlayUnchanged
      /\ dq \in RingType /\ buf \in [Buffers -> BufferRecord]
  BY DEF IInv, TypeOK, EnqueueFirst, PlayStep
<1>2. RcvBufferNum \in Nat /\ RcvBufferNum >= 2 /\ RcvBufferNum < Capacity
      /\ Capacity \in Nat /\ Chunks \in Nat \ {0}
  BY BuffersAssumption, BoundsAssumption
<1>3. play' \in PlayType
  BY <1>1, <1>2, PlayUpdate DEF EnqueueFirst, PlayStep, PlayPcs, InDequeue,
     InEnqueue, InCopy
<1>4. dq' \in RingType
  <2>1. play.reg \in 0..(Capacity - 1)
    BY <1>1 DEF PlayType
  <2> QED BY <1>1, <2>1, RingUpdate DEF EnqueueFirst
<1>5. buf' \in [Buffers -> BufferRecord]
  BY <1>1 DEF EnqueueFirst, PlayStep
<1>6. semPlay' \in 0..SemMax /\ semClient' \in 0..SemMax
  BY <1>1 DEF TypeOK, EnqueueFirst, PlayStep, sems
<1>7. played' \in 0..MaxTag /\ burst' \in Nat
  BY <1>1 DEF TypeOK, EnqueueFirst, PlayStep
<1>8. TypeOK'
  BY <1>1, <1>3, <1>4, <1>5, <1>6, <1>7, PlayFrame
<1>9. CountConserved'
  BY <1>1, <1>2, <1>4 DEF IInv, EnqueueFirst, PlayStep, CountConserved, PlayHasOne,
     InEnqueue, PlayType, RingType
<1>10. RegisterFresh'
  BY <1>1, <1>2, <1>4 DEF IInv, EnqueueFirst, PlayStep, RegisterFresh,
     CountConserved, PlayHasOne, InEnqueue, PlayType, RingType
<1>11. LocalsOK'
  BY <1>1, <1>2, <1>4 DEF IInv, EnqueueFirst, PlayStep, LocalsOK, InEnqueue, InCopy,
     PlayType, RingType
<1> QED BY <1>8, <1>9, <1>10, <1>11 DEF IInv

(* deque_add_first storing the element keeps IInv.                         *)
LEMMA EnqueueSlotKeepsIInv ==
    ASSUME IInv, EnqueueSlot
    PROVE  IInv'
<1>1. /\ TypeOK /\ play \in PlayType /\ play.pc = "eqSlot" /\ PlayUnchanged
      /\ dq \in RingType /\ buf \in [Buffers -> BufferRecord]
  BY DEF IInv, TypeOK, EnqueueSlot, PlayStep
<1>2. RcvBufferNum \in Nat /\ RcvBufferNum >= 2 /\ RcvBufferNum < Capacity
      /\ Capacity \in Nat /\ Chunks \in Nat \ {0}
  BY BuffersAssumption, BoundsAssumption
<1>3. play' \in PlayType
  BY <1>1, <1>2, PlayUpdate DEF EnqueueSlot, PlayStep, PlayPcs, InDequeue, InEnqueue,
     InCopy
<1>4. dq' \in RingType
  <2>1. play.reg \in 0..(Capacity - 1) /\ dq.first \in 0..(Capacity - 1)
    BY <1>1 DEF PlayType, RingType
  <2>2. play.elem \in Buffers
    BY <1>1 DEF IInv, LocalsOK, InEnqueue
  <2> QED BY <1>1, <2>1, <2>2, RingUpdate DEF EnqueueSlot
<1>5. buf' \in [Buffers -> BufferRecord]
  BY <1>1 DEF EnqueueSlot, PlayStep
<1>6. semPlay' \in 0..SemMax /\ semClient' \in 0..SemMax
  BY <1>1 DEF TypeOK, EnqueueSlot, PlayStep, sems
<1>7. played' \in 0..MaxTag /\ burst' \in Nat
  BY <1>1 DEF TypeOK, EnqueueSlot, PlayStep
<1>8. TypeOK'
  BY <1>1, <1>3, <1>4, <1>5, <1>6, <1>7, PlayFrame
<1>9. CountConserved'
  BY <1>1, <1>2, <1>4 DEF IInv, EnqueueSlot, PlayStep, CountConserved, PlayHasOne,
     InEnqueue, PlayType, RingType
<1>10. RegisterFresh'
  BY <1>1, <1>2, <1>4 DEF IInv, EnqueueSlot, PlayStep, RegisterFresh, CountConserved,
     PlayHasOne, InEnqueue, PlayType, RingType
<1>11. LocalsOK'
  BY <1>1, <1>2, <1>4 DEF IInv, EnqueueSlot, PlayStep, LocalsOK, InEnqueue, InCopy,
     PlayType, RingType
<1> QED BY <1>8, <1>9, <1>10, <1>11 DEF IInv

(* deque_add_first loading the size to increment keeps IInv.               *)
LEMMA EnqueueReloadKeepsIInv ==
    ASSUME IInv, EnqueueReload
    PROVE  IInv'
<1>1. /\ TypeOK /\ play \in PlayType /\ play.pc = "eqReload" /\ PlayUnchanged
      /\ dq \in RingType /\ buf \in [Buffers -> BufferRecord]
  BY DEF IInv, TypeOK, EnqueueReload
<1>2. RcvBufferNum \in Nat /\ RcvBufferNum >= 2 /\ RcvBufferNum < Capacity
      /\ Capacity \in Nat /\ Chunks \in Nat \ {0}
  BY BuffersAssumption, BoundsAssumption
<1>a. play.size \in 0..Capacity /\ dq.size \in 0..Capacity
  BY <1>1 DEF PlayType, RingType
<1>3. play' \in PlayType
  <2> PICK s \in {play.size, dq.size} : play' = [play EXCEPT !.pc = "eqInc", !.size = s]
    BY DEF EnqueueReload
  <2>1. s \in 0..Capacity
    BY <1>a
  <2> QED BY <1>1, <2>1, PlayUpdate DEF PlayPcs, InDequeue, InEnqueue
<1>4. dq' \in RingType /\ UNCHANGED dq
  BY <1>1 DEF EnqueueReload
<1>5. buf' \in [Buffers -> BufferRecord]
  BY <1>1 DEF EnqueueReload
<1>6. semPlay' \in 0..SemMax /\ semClient' \in 0..SemMax
  BY <1>1 DEF TypeOK, EnqueueReload, sems
<1>7. played' \in 0..MaxTag /\ burst' \in Nat
  BY <1>1 DEF TypeOK, EnqueueReload
<1>8. TypeOK'
  BY <1>1, <1>3, <1>4, <1>5, <1>6, <1>7, PlayFrame
<1>9. CountConserved'
  BY <1>1, <1>2, <1>4, <1>a DEF IInv, EnqueueReload, CountConserved, PlayHasOne,
     InEnqueue, PlayType, RingType
<1>10. RegisterFresh'
  BY <1>1, <1>2, <1>4, <1>a DEF IInv, EnqueueReload, RegisterFresh, CountConserved,
     PlayHasOne, InEnqueue, PlayType, RingType
<1>11. LocalsOK'
  BY <1>1, <1>2, <1>4, <1>a DEF IInv, EnqueueReload, LocalsOK, InEnqueue, InCopy,
     PlayType, RingType
<1> QED BY <1>8, <1>9, <1>10, <1>11 DEF IInv

(* deque_add_first storing the incremented size keeps IInv.                *)
LEMMA EnqueueIncKeepsIInv ==
    ASSUME IInv, EnqueueInc
    PROVE  IInv'
<1>1. /\ TypeOK /\ play \in PlayType /\ play.pc = "eqInc" /\ PlayUnchanged
      /\ dq \in RingType /\ buf \in [Buffers -> BufferRecord]
  BY DEF IInv, TypeOK, EnqueueInc
<1>2. RcvBufferNum \in Nat /\ RcvBufferNum >= 2 /\ RcvBufferNum < Capacity
      /\ Capacity \in Nat /\ Chunks \in Nat \ {0}
  BY BuffersAssumption, BoundsAssumption
<1>a. 0 \in 0..Capacity /\ 0 \in 0..(Capacity - 1) /\ play.elem \in Buffers \cup {Unset}
  BY <1>1, <1>2 DEF PlayType
<1>3. play' \in PlayType
  BY <1>1, <1>2, <1>a, PlayUpdate DEF EnqueueInc, PlayPcs, InDequeue, InEnqueue, InCopy
<1>4. dq' \in RingType
  <2>1. play.size = RcvBufferNum - 2
    BY <1>1 DEF IInv, RegisterFresh
  <2>2. play.size + 1 \in 0..Capacity
    BY <1>2, <2>1
  <2> QED BY <1>1, <2>2, RingUpdate DEF EnqueueInc
<1>5. buf' \in [Buffers -> BufferRecord]
  BY <1>1 DEF EnqueueInc
<1>6. semPlay' \in 0..SemMax /\ semClient' \in 0..SemMax
  BY <1>1 DEF TypeOK, EnqueueInc, sems
<1>7. played' \in 0..MaxTag /\ burst' \in Nat
  BY <1>1 DEF TypeOK, EnqueueInc
<1>8. TypeOK'
  BY <1>1, <1>3, <1>4, <1>5, <1>6, <1>7, PlayFrame
<1>9. CountConserved'
  <2>1. play.size = RcvBufferNum - 2
    BY <1>1 DEF IInv, RegisterFresh
  <2>2. dq'.size = play.size + 1
    BY <1>1 DEF EnqueueInc, RingType
  <2>3. play'.pc \in {"hdr", "chk"}
    BY <1>1 DEF EnqueueInc, PlayType
  <2> QED BY <1>2, <2>1, <2>2, <2>3 DEF CountConserved, PlayHasOne, InEnqueue
<1>10. RegisterFresh'
  BY <1>1, <1>2, <1>4, <1>a DEF IInv, EnqueueInc, RegisterFresh, CountConserved,
     PlayHasOne, InEnqueue, PlayType, RingType
<1>11. LocalsOK'
  BY <1>1, <1>2, <1>4, <1>a DEF IInv, EnqueueInc, LocalsOK, InEnqueue, InCopy,
     PlayType, RingType
<1> QED BY <1>8, <1>9, <1>10, <1>11 DEF IInv

(* task_play looking for a wave header keeps IInv.                         *)
LEMMA HeaderTestKeepsIInv ==
    ASSUME IInv, HeaderTest
    PROVE  IInv'
<1>1. /\ TypeOK /\ play \in PlayType /\ play.pc = "hdr" /\ PlayUnchanged
      /\ dq \in RingType /\ buf \in [Buffers -> BufferRecord]
  BY DEF IInv, TypeOK, HeaderTest
<1>2. RcvBufferNum \in Nat /\ RcvBufferNum >= 2 /\ RcvBufferNum < Capacity
      /\ Capacity \in Nat /\ Chunks \in Nat \ {0}
  BY BuffersAssumption, BoundsAssumption
<1>3. play' \in PlayType
  BY <1>1, <1>2, PlayUpdate DEF HeaderTest, PlayPcs, InDequeue, InEnqueue, InCopy
<1>4. dq' \in RingType /\ UNCHANGED dq
  BY <1>1 DEF HeaderTest
<1>5. buf' \in [Buffers -> BufferRecord]
  BY <1>1 DEF HeaderTest
<1>6. semPlay' \in 0..SemMax /\ semClient' \in 0..SemMax
  BY <1>1 DEF TypeOK, HeaderTest, sems
<1>7. played' \in 0..MaxTag /\ burst' \in Nat
  BY <1>1 DEF TypeOK, HeaderTest
<1>8. TypeOK'
  BY <1>1, <1>3, <1>4, <1>5, <1>6, <1>7, PlayFrame
<1>9. CountConserved'
  BY <1>1, <1>2, <1>4 DEF IInv, HeaderTest, CountConserved, PlayHasOne, InEnqueue,
     PlayType, RingType
<1>10. RegisterFresh'
  BY <1>1, <1>2, <1>4 DEF IInv, HeaderTest, RegisterFresh, CountConserved,
     PlayHasOne, InEnqueue, PlayType, RingType
<1>11. LocalsOK'
  BY <1>1, <1>2, <1>4 DEF IInv, HeaderTest, LocalsOK, InEnqueue, InCopy, PlayType,
     RingType
<1> QED BY <1>8, <1>9, <1>10, <1>11 DEF IInv

(* The first half of task_play's memcpy keeps IInv.                        *)
LEMMA CopyFirstHalfKeepsIInv ==
    ASSUME IInv, CopyFirstHalf
    PROVE  IInv'
<1>1. /\ TypeOK /\ play \in PlayType /\ play.pc = "cp1" /\ PlayUnchanged
      /\ dq \in RingType /\ buf \in [Buffers -> BufferRecord]
  BY DEF IInv, TypeOK, CopyFirstHalf
<1>2. RcvBufferNum \in Nat /\ RcvBufferNum >= 2 /\ RcvBufferNum < Capacity
      /\ Capacity \in Nat /\ Chunks \in Nat \ {0}
  BY BuffersAssumption, BoundsAssumption
<1>a. <<buf[play.elem].tag, play.pbuff[2]>> \in (0..MaxTag) \X (0..MaxTag)
  <2>1. play.elem \in Buffers
    BY <1>1 DEF IInv, LocalsOK, InCopy
  <2> QED BY <1>1, <2>1 DEF PlayType, BufferRecord
<1>3. play' \in PlayType
  BY <1>1, <1>2, <1>a, PlayUpdate DEF CopyFirstHalf, PlayPcs, InDequeue, InEnqueue, InCopy
<1>4. dq' \in RingType /\ UNCHANGED dq
  BY <1>1 DEF CopyFirstHalf
<1>5. buf' \in [Buffers -> BufferRecord]
  BY <1>1 DEF CopyFirstHalf
<1>6. semPlay' \in 0..SemMax /\ semClient' \in 0..SemMax
  BY <1>1 DEF TypeOK, CopyFirstHalf, sems
<1>7. played' \in 0..MaxTag /\ burst' \in Nat
  BY <1>1 DEF TypeOK, CopyFirstHalf
<1>8. TypeOK'
  BY <1>1, <1>3, <1>4, <1>5, <1>6, <1>7, PlayFrame
<1>9. CountConserved'
  BY <1>1, <1>2, <1>4, <1>a DEF IInv, CopyFirstHalf, CountConserved, PlayHasOne,
     InEnqueue, PlayType, RingType
<1>10. RegisterFresh'
  BY <1>1, <1>2, <1>4, <1>a DEF IInv, CopyFirstHalf, RegisterFresh, CountConserved,
     PlayHasOne, InEnqueue, PlayType, RingType
<1>11. LocalsOK'
  BY <1>1, <1>2, <1>4, <1>a DEF IInv, CopyFirstHalf, LocalsOK, InEnqueue, InCopy,
     PlayType, RingType
<1> QED BY <1>8, <1>9, <1>10, <1>11 DEF IInv

(* The second half of task_play's memcpy keeps IInv.                       *)
LEMMA CopySecondHalfKeepsIInv ==
    ASSUME IInv, CopySecondHalf
    PROVE  IInv'
<1>1. /\ TypeOK /\ play \in PlayType /\ play.pc = "cp2" /\ PlayUnchanged
      /\ dq \in RingType /\ buf \in [Buffers -> BufferRecord]
  BY DEF IInv, TypeOK, CopySecondHalf
<1>2. RcvBufferNum \in Nat /\ RcvBufferNum >= 2 /\ RcvBufferNum < Capacity
      /\ Capacity \in Nat /\ Chunks \in Nat \ {0}
  BY BuffersAssumption, BoundsAssumption
<1>b. buf[play.elem].tag \in 0..MaxTag
  <2>1. play.elem \in Buffers
    BY <1>1 DEF IInv, LocalsOK, InCopy
  <2> QED BY <1>1, <2>1 DEF BufferRecord
<1>a. <<play.pbuff[1], buf[play.elem].tag>> \in (0..MaxTag) \X (0..MaxTag)
  BY <1>1, <1>b DEF PlayType
<1>3. play' \in PlayType
  <2> DEFINE pb == <<play.pbuff[1], buf[play.elem].tag>>
  <2>1. play' = [play EXCEPT !.pc = "send", !.pbuff = pb, !.elem = Unset,
                             !.len = 0, !.left = Chunks]
    BY DEF CopySecondHalf
  <2>2. "send" \in PlayPcs /\ Unset \in Buffers \cup {Unset} /\ 0 \in {0, 1}
        /\ Chunks \in 0..Chunks
    BY <1>2 DEF PlayPcs
  <2> HIDE DEF pb
  <2> DEFINE p1 == [play EXCEPT !.pc = "send"]
             p2 == [p1 EXCEPT !.pbuff = pb]
             p3 == [p2 EXCEPT !.elem = Unset]
             p4 == [p3 EXCEPT !.len = 0]
  <2>3. p1 \in PlayType
    BY <1>1, <2>2, PlayUpdate
  <2>4. p2 \in PlayType
    BY <1>a, <2>3, PlayUpdate DEF pb
  <2>5. p3 \in PlayType
    BY <2>2, <2>4, PlayUpdate
  <2>6. p4 \in PlayType
    BY <2>2, <2>5, PlayUpdate
  <2>7. play' = [p4 EXCEPT !.left = Chunks]
    BY <2>1
  <2> HIDE DEF p4
  <2> QED BY <2>2, <2>6, <2>7, PlayUpdate
<1>4. dq' \in RingType /\ UNCHANGED dq
  BY <1>1 DEF CopySecondHalf
<1>5. buf' \in [Buffers -> BufferRecord]
  BY <1>1 DEF CopySecondHalf
<1>6. semPlay' \in 0..SemMax /\ semClient' \in 0..SemMax
  BY <1>1 DEF TypeOK, CopySecondHalf, sems
<1>7. played' \in 0..MaxTag /\ burst' \in Nat
  BY <1>1, <1>b DEF TypeOK, CopySecondHalf
<1>8. TypeOK'
  BY <1>1, <1>3, <1>4, <1>5, <1>6, <1>7, PlayFrame
<1>9. CountConserved'
  BY <1>1, <1>2, <1>4, <1>a DEF IInv, CopySecondHalf, CountConserved, PlayHasOne,
     InEnqueue, PlayType, RingType
<1>10. RegisterFresh'
  BY <1>1, <1>2, <1>4, <1>a DEF IInv, CopySecondHalf, RegisterFresh, CountConserved,
     PlayHasOne, InEnqueue, PlayType, RingType
<1>11. LocalsOK'
  BY <1>1, <1>2, <1>4, <1>a DEF IInv, CopySecondHalf, LocalsOK, InEnqueue, InCopy,
     PlayType, RingType
<1> QED BY <1>8, <1>9, <1>10, <1>11 DEF IInv

(* task_play handing a chunk to the codec keeps IInv.                      *)
LEMMA SendChunkKeepsIInv ==
    ASSUME IInv, SendChunk
    PROVE  IInv'
<1>1. /\ TypeOK /\ play \in PlayType /\ play.pc = "send" /\ PlayUnchanged
      /\ dq \in RingType /\ buf \in [Buffers -> BufferRecord]
  BY DEF IInv, TypeOK, SendChunk
<1>2. RcvBufferNum \in Nat /\ RcvBufferNum >= 2 /\ RcvBufferNum < Capacity
      /\ Capacity \in Nat /\ Chunks \in Nat \ {0}
  BY BuffersAssumption, BoundsAssumption
<1>a. play.left \in Nat /\ play.left > 0 /\ play.left - 1 \in 0..Chunks
  BY <1>1, <1>2 DEF IInv, LocalsOK, PlayType
<1>3. play' \in PlayType
  BY <1>1, <1>2, <1>a, PlayUpdate DEF SendChunk, PlayPcs, InDequeue, InEnqueue, InCopy
<1>4. dq' \in RingType /\ UNCHANGED dq
  BY <1>1 DEF SendChunk
<1>5. buf' \in [Buffers -> BufferRecord]
  BY <1>1 DEF SendChunk
<1>6. semPlay' \in 0..SemMax /\ semClient' \in 0..SemMax
  BY <1>1 DEF TypeOK, SendChunk, sems
<1>7. played' \in 0..MaxTag /\ burst' \in Nat
  BY <1>1 DEF TypeOK, SendChunk
<1>8. TypeOK'
  BY <1>1, <1>3, <1>4, <1>5, <1>6, <1>7, PlayFrame
<1>9. CountConserved'
  BY <1>1, <1>2, <1>4, <1>a DEF IInv, SendChunk, CountConserved, PlayHasOne,
     InEnqueue, PlayType, RingType
<1>10. RegisterFresh'
  BY <1>1, <1>2, <1>4, <1>a DEF IInv, SendChunk, RegisterFresh, CountConserved,
     PlayHasOne, InEnqueue, PlayType, RingType
<1>11. LocalsOK'
  BY <1>1, <1>2, <1>4, <1>a DEF IInv, SendChunk, LocalsOK, InEnqueue, InCopy,
     PlayType, RingType
<1> QED BY <1>8, <1>9, <1>10, <1>11 DEF IInv

(* The end of OSTimeDly in task_play keeps IInv.                           *)
LEMMA TickKeepsIInv ==
    ASSUME IInv, Tick
    PROVE  IInv'
<1>1. /\ TypeOK /\ play \in PlayType /\ play.pc = "dly" /\ PlayUnchanged
      /\ dq \in RingType /\ buf \in [Buffers -> BufferRecord]
  BY DEF IInv, TypeOK, Tick
<1>2. RcvBufferNum \in Nat /\ RcvBufferNum >= 2 /\ RcvBufferNum < Capacity
      /\ Capacity \in Nat /\ Chunks \in Nat \ {0}
  BY BuffersAssumption, BoundsAssumption
<1>a. <<0, 0>> \in (0..MaxTag) \X (0..MaxTag)
  BY BoundsAssumption
<1>3. play' \in PlayType
  BY <1>1, <1>2, <1>a, PlayUpdate DEF Tick, PlayPcs, InDequeue, InEnqueue, InCopy
<1>4. dq' \in RingType /\ UNCHANGED dq
  BY <1>1 DEF Tick
<1>5. buf' \in [Buffers -> BufferRecord]
  BY <1>1 DEF Tick
<1>6. semPlay' \in 0..SemMax /\ semClient' \in 0..SemMax
  BY <1>1 DEF TypeOK, Tick, sems
<1>7. played' \in 0..MaxTag /\ burst' \in Nat
  BY <1>1 DEF TypeOK, Tick
<1>8. TypeOK'
  BY <1>1, <1>3, <1>4, <1>5, <1>6, <1>7, PlayFrame
<1>9. CountConserved'
  BY <1>1, <1>2, <1>4, <1>a DEF IInv, Tick, CountConserved, PlayHasOne, InEnqueue,
     PlayType, RingType
<1>10. RegisterFresh'
  BY <1>1, <1>2, <1>4, <1>a DEF IInv, Tick, RegisterFresh, CountConserved,
     PlayHasOne, InEnqueue, PlayType, RingType
<1>11. LocalsOK'
  BY <1>1, <1>2, <1>4, <1>a DEF IInv, Tick, LocalsOK, InEnqueue, InCopy, PlayType,
     RingType
<1> QED BY <1>8, <1>9, <1>10, <1>11 DEF IInv

(* task_play testing is_line_established keeps IInv.                       *)
LEMMA PlayCheckLineKeepsIInv ==
    ASSUME IInv, PlayCheckLine
    PROVE  IInv'
<1>1. /\ TypeOK /\ play \in PlayType /\ play.pc = "chk" /\ PlayUnchanged
      /\ dq \in RingType /\ buf \in [Buffers -> BufferRecord]
  BY DEF IInv, TypeOK, PlayCheckLine, PlayStep
<1>2. RcvBufferNum \in Nat /\ RcvBufferNum >= 2 /\ RcvBufferNum < Capacity
      /\ Capacity \in Nat /\ Chunks \in Nat \ {0}
  BY BuffersAssumption, BoundsAssumption
<1>3. play' \in PlayType
  BY <1>1, <1>2, PlayUpdate DEF PlayCheckLine, PlayStep, PlayPcs, InDequeue,
     InEnqueue, InCopy
<1>4. dq' \in RingType /\ UNCHANGED dq
  BY <1>1 DEF PlayCheckLine, PlayStep
<1>5. buf' \in [Buffers -> BufferRecord]
  BY <1>1 DEF PlayCheckLine, PlayStep
<1>6. semPlay' \in 0..SemMax /\ semClient' \in 0..SemMax
  BY <1>1 DEF TypeOK, PlayCheckLine, PlayStep, sems
<1>7. played' \in 0..MaxTag /\ burst' \in Nat
  BY <1>1 DEF TypeOK, PlayCheckLine, PlayStep
<1>8. TypeOK'
  BY <1>1, <1>3, <1>4, <1>5, <1>6, <1>7, PlayFrame
<1>9. CountConserved'
  BY <1>1, <1>2, <1>4 DEF IInv, PlayCheckLine, PlayStep, CountConserved, PlayHasOne,
     InEnqueue, PlayType, RingType
<1>10. RegisterFresh'
  BY <1>1, <1>2, <1>4 DEF IInv, PlayCheckLine, PlayStep, RegisterFresh,
     CountConserved, PlayHasOne, InEnqueue, PlayType, RingType
<1>11. LocalsOK'
  BY <1>1, <1>2, <1>4 DEF IInv, PlayCheckLine, PlayStep, LocalsOK, InEnqueue, InCopy,
     PlayType, RingType
<1> QED BY <1>8, <1>9, <1>10, <1>11 DEF IInv

(* Every step of task_play, and the end of its delay, keeps IInv.        *)
LEMMA PlayStepInv ==
    ASSUME IInv, Play \/ Tick
    PROVE  IInv'
  BY PlayPendKeepsIInv, DequeueTestKeepsIInv, DequeueLastKeepsIInv,
     DequeueElemKeepsIInv, DequeueStoreKeepsIInv, DequeueLoadKeepsIInv,
     DequeueDecKeepsIInv, ReadLenKeepsIInv, ZeroLenKeepsIInv,
     EnqueueTestKeepsIInv, EnqueueLoadKeepsIInv, EnqueueFirstKeepsIInv,
     EnqueueSlotKeepsIInv, EnqueueReloadKeepsIInv, EnqueueIncKeepsIInv,
     HeaderTestKeepsIInv, CopyFirstHalfKeepsIInv, CopySecondHalfKeepsIInv,
     SendChunkKeepsIInv, TickKeepsIInv, PlayCheckLineKeepsIInv
  DEF Play, PlayDequeue, PlayEnqueue, PlayCopy

-----------------------------------------------------------------------------
(* task_udpclient touches nothing that the invariant relates.              *)
LEMMA ClientStepInv ==
    ASSUME IInv, Client
    PROVE  IInv'
<1>1. /\ TypeOK /\ client \in ClientType /\ remote \in Peers
      /\ semClient \in 0..SemMax /\ SemMax \in Nat
  BY BoundsAssumption DEF IInv, TypeOK
<1>2. ClientUnchanged
  BY DEF Client, ClientPend, ReadAddr, ReadPort, SendHeader, PollRecorder,
         ClientCheckLine
<1>3. \A c \in ClientPcs :
         /\ [client EXCEPT !.pc = c] \in ClientType
         /\ [client EXCEPT !.pc = c, !.addr = remote] \in ClientType
         /\ [client EXCEPT !.pc = c, !.port = remote] \in ClientType
  <2>1. \A d \in ClientType :
           /\ \A v \in ClientPcs : [d EXCEPT !.pc = v] \in ClientType
           /\ \A v \in Peers : [d EXCEPT !.addr = v] \in ClientType
           /\ \A v \in Peers : [d EXCEPT !.port = v] \in ClientType
    BY DEF ClientType
  <2> QED BY <1>1, <2>1
<1>4. client' \in ClientType
  <2>1. {"pend", "addr", "port", "header", "poll", "chk"} \subseteq ClientPcs
    BY DEF ClientPcs
  <2>2. CASE ClientPend
    BY <1>3, <2>1, <2>2 DEF ClientPend
  <2>3. CASE ReadAddr
    BY <1>3, <2>1, <2>3 DEF ReadAddr
  <2>4. CASE ReadPort
    BY <1>3, <2>1, <2>4 DEF ReadPort
  <2>5. CASE SendHeader
    BY <1>3, <2>1, <2>5 DEF SendHeader
  <2>6. CASE PollRecorder
    BY <1>3, <2>1, <2>6 DEF PollRecorder
  <2>7. CASE ClientCheckLine
    BY <1>3, <2>1, <2>7 DEF ClientCheckLine
  <2> QED BY <2>2, <2>3, <2>4, <2>5, <2>6, <2>7 DEF Client
<1>5. semClient' \in 0..SemMax
  BY <1>1 DEF Client, ClientPend, ReadAddr, ReadPort, SendHeader,
              PollRecorder, ClientCheckLine
<1>6. TypeOK'
  BY <1>1, <1>2, <1>4, <1>5 DEF TypeOK, ClientUnchanged, serverVars, ghosts
<1>7. CountConserved' /\ RegisterFresh' /\ LocalsOK'
  BY <1>2 DEF IInv, ClientUnchanged, CountConserved, PlayHasOne, RegisterFresh,
              LocalsOK
<1> QED BY <1>6, <1>7 DEF IInv

-----------------------------------------------------------------------------
(* A step that changes no variable keeps IInv.                           *)
LEMMA StutterInv ==
    ASSUME IInv, UNCHANGED vars
    PROVE  IInv'
  BY DEF IInv, TypeOK, CountConserved, PlayHasOne, RegisterFresh, LocalsOK, vars

(* The inductive invariant of the three tasks.                             *)
THEOREM Invariance == Spec => []IInv
<1>1. Init => IInv
  BY InitIInv
<1>2. IInv /\ [Next]_vars => IInv'
  BY ServerStep, PlayStepInv, ClientStepInv, StutterInv DEF Next
<1> QED BY <1>1, <1>2, PTL DEF Spec

(* The tasks and the queue they share keep their types whatever preempts   *)
(* what; in particular an index into the deque's buffer stays inside it.   *)
THEOREM TypeCorrect == Spec => []TypeOK
<1>1. IInv => TypeOK
  BY DEF IInv
<1> QED BY <1>1, Invariance, PTL

(* For every number of buffers (two or more) and every interleaving of the *)
(* unlocked deque operations of task_udpserver and task_play, the count of *)
(* the deque is the number of buffers not taken out.                       *)
THEOREM CountIsConserved == Spec => []CountConserved
<1>1. IInv => CountConserved
  BY DEF IInv
<1> QED BY <1>1, Invariance, PTL

(* So task_play is never handed the NULL that it would dereference: when   *)
(* it tests the deque for emptiness there is a buffer in it, and when it   *)
(* gives one back the deque is never taken for full.                       *)
NeverEmptyNeverFull ==
    /\ play.pc = "dqTest" => dq.size # 0
    /\ play.pc = "eqTest" => dq.size # RcvBufferNum

THEOREM NoNullBuffer == Spec => []NeverEmptyNeverFull
<1>1. IInv => NeverEmptyNeverFull
  BY BuffersAssumption DEF IInv, CountConserved, PlayHasOne, InEnqueue,
     NeverEmptyNeverFull
<1> QED BY <1>1, Invariance, PTL

-----------------------------------------------------------------------------
(* The contents of the ring.                                               *)

(* A masked index, without the mask.                                       *)
Index(f, i) == IF f + i < Capacity THEN f + i ELSE f + i - Capacity

(* Between deque->last = last and deque->buffer[deque->first] = element    *)
(* the buffer task_play took is not in the ring.                           *)
Removed == PlayOut \/ play.pc \in {"dqLoad", "dqDec"}
Queued == IF Removed THEN RcvBufferNum - 2 ELSE RcvBufferNum - 1

(* Between deque->first = first and the store of the element the ring      *)
(* starts one word after "first".                                          *)
Front == IF play.pc = "eqSlot" THEN Index(dq.first, 1) ELSE dq.first

(* The buffers in the ring, front first.                                   *)
Places == 0..(Queued - 1)
Ring == [i \in Places |-> dq.buffer[Index(Front, i)]]

(* The indices of the ring, and the index and the element task_play has in *)
(* registers, agree with what is in the ring.                              *)
Shape ==
    /\ play.pc # "fault"
    /\ dq.last = Index(Front, Queued)
    /\ play.pc \in {"dqElem", "dqStore"} => play.reg = Index(Front, Queued - 1)
    /\ play.pc = "dqStore" => play.elem = dq.buffer[play.reg]
    /\ play.pc = "eqFirst" => Index(play.reg, 1) = dq.first
    /\ play.pc = "eqSlot" => play.reg = dq.first

(* Every buffer is in one place: in the server's hands, in task_play's, or *)
(* in one word of the ring.                                                *)
HeldBuffer == held \in Buffers
Distinct ==
    /\ \A i \in Places : Ring[i] \in Buffers /\ Ring[i] # held
    /\ \A i, j \in Places : Ring[i] = Ring[j] => i = j
    /\ Removed => /\ play.elem \in Buffers /\ play.elem # held
                  /\ \A i \in Places : Ring[i] # play.elem
NoneLost == \A b \in Buffers : \/ b = held
                               \/ Removed /\ b = play.elem
                               \/ \E i \in Places : b = Ring[i]

RingInv == Shape /\ HeldBuffer /\ Distinct /\ NoneLost

(* Where task_play has loaded an index of the ring, or moved it, and not   *)
(* yet used it: a turn of the server there moves the ring under it.  At    *)
(* the other points of its queue operations it holds no index.             *)
Torn == {"dqElem", "dqStore", "eqFirst", "eqSlot"}
NeverTorn == [][Server => play.pc \notin Torn]_vars

(* A buffer whose datagram task_play has not read and that carries a tag.  *)
Live(b) == buf[b].len > 0 /\ buf[b].tag > 0

(* Nothing in the ring was received before the datagram in b.              *)
Due(b) == buf[b].tag > 0 => /\ buf[b].tag > played
                            /\ \A i \in Places :
                                  Live(Ring[i]) => buf[Ring[i]].tag > buf[b].tag

(* The ring is in the order of arrival, all of it after what was played.   *)
Fresh == played < nextTag /\ \A b \in Buffers : buf[b].tag < nextTag
Ordered ==
    /\ \A i, j \in Places :
          i < j /\ Live(Ring[i]) /\ Live(Ring[j]) => buf[Ring[i]].tag > buf[Ring[j]].tag
    /\ \A i \in Places : Live(Ring[i]) => buf[Ring[i]].tag > played

(* The buffer task_play has taken is the next one to play, until it has    *)
(* copied it.                                                              *)
Reading == \/ play.pc \in {"dqLoad", "dqDec", "len"} /\ Live(play.elem)
           \/ play.pc \in {"zero"} \cup InEnqueue /\ play.len > 0
           \/ play.pc \in InCopy
NextToPlay ==
    /\ Reading => Due(play.elem)
    /\ play.pc \in InEnqueue \cup InCopy => buf[play.elem].len = 0

(* While task_play copies a buffer it has given back, the buffer moves one *)
(* place to the back with every datagram that arrives.                     *)
Copying ==
    /\ play.pc \in {"eqReload", "eqInc"} => Ring[0] = play.elem
    /\ play.pc \in InCopy =>
          /\ burst < RcvBufferNum
          /\ IF burst = RcvBufferNum - 1 THEN held = play.elem ELSE Ring[burst] = play.elem
    /\ play.pc = "cp2" => play.pbuff[1] = buf[play.elem].tag
    /\ FrameWhole

FrameInv == Fresh /\ Ordered /\ NextToPlay /\ Copying

-----------------------------------------------------------------------------
(* Indices.                                                                *)

(* "Mod Capacity" one turn around the ring.                                *)
LEMMA Mask ==
    ASSUME NEW x \in Int
    PROVE  /\ 0 <= x /\ x < Capacity => x % Capacity = x
           /\ Capacity <= x /\ x < 2 * Capacity => x % Capacity = x - Capacity
           /\ x = -1 => x % Capacity = Capacity - 1
  BY BuffersAssumption

(* Index is a position of the ring.                                        *)
LEMMA IndexInRange ==
    ASSUME NEW f \in 0..(Capacity - 1), NEW i \in 0..(Capacity - 1)
    PROVE  Index(f, i) \in 0..(Capacity - 1)
  BY BuffersAssumption DEF Index

(* Different offsets give different positions.                             *)
LEMMA IndexInjective ==
    ASSUME NEW f \in 0..(Capacity - 1),
           NEW i \in 0..(Capacity - 1), NEW j \in 0..(Capacity - 1),
           Index(f, i) = Index(f, j)
    PROVE  i = j
  BY BuffersAssumption DEF Index

(* What deque_get_at computes.                                             *)
LEMMA IndexIsMask ==
    ASSUME NEW f \in 0..(Capacity - 1), NEW i \in 0..(Capacity - 1)
    PROVE  (f + i) % Capacity = Index(f, i)
<1> DEFINE x == f + i
<1>1. x \in Int /\ 0 <= x /\ x < 2 * Capacity
  BY BuffersAssumption
<1>2. Index(f, i) = IF x < Capacity THEN x ELSE x - Capacity
  BY BuffersAssumption DEF Index
<1> HIDE DEF x
<1>3. x % Capacity = IF x < Capacity THEN x ELSE x - Capacity
  BY <1>1, Mask, BuffersAssumption
<1>4. x % Capacity = Index(f, i)
  BY <1>2, <1>3, Zenon
<1> QED BY <1>4, Zenon DEF x

(* The word before another one.                                            *)
LEMMA PrevIs ==
    ASSUME NEW d \in RingType, NEW i \in 0..(Capacity - 1)
    PROVE  Prev(d, i) = IF i = 0 THEN Capacity - 1 ELSE i - 1
<1>1. d.capacity = Capacity /\ i - 1 \in Int
  BY BuffersAssumption DEF RingType
<1>2. CASE i = 0
  BY <1>1, <1>2, Mask DEF Prev
<1>3. CASE i # 0
  <2>1. 0 <= i - 1 /\ i - 1 < Capacity
    BY <1>3, BuffersAssumption
  <2> QED BY <1>1, <1>3, <2>1, Mask DEF Prev
<1> QED BY <1>2, <1>3

(* Stepping back from an offset.                                           *)
LEMMA PrevOfIndex ==
    ASSUME NEW d \in RingType, NEW f \in 0..(Capacity - 1),
           NEW i \in 1..(Capacity - 1)
    PROVE  Prev(d, Index(f, i)) = Index(f, i - 1)
<1>1. Index(f, i) \in 0..(Capacity - 1)
  BY IndexInRange
<1>2. Prev(d, Index(f, i)) = IF Index(f, i) = 0 THEN Capacity - 1 ELSE Index(f, i) - 1
  BY <1>1, PrevIs
<1> QED BY <1>2, BuffersAssumption DEF Index

(* The words seen from the one before the first.                           *)
LEMMA IndexFromPrev ==
    ASSUME NEW d \in RingType, NEW f \in 0..(Capacity - 1),
           NEW i \in 0..(Capacity - 2)
    PROVE  /\ Prev(d, f) \in 0..(Capacity - 1)
           /\ Index(Prev(d, f), i + 1) = Index(f, i)
<1>1. Prev(d, f) = IF f = 0 THEN Capacity - 1 ELSE f - 1
  BY PrevIs
<1> QED BY <1>1, BuffersAssumption DEF Index

(* The words seen from the one after the first.                            *)
LEMMA IndexFromNext ==
    ASSUME NEW f \in 0..(Capacity - 1), NEW i \in 0..(Capacity - 2)
    PROVE  /\ Index(f, 1) \in 0..(Capacity - 1)
           /\ Index(Index(f, 1), i) = Index(f, i + 1)
  BY BuffersAssumption DEF Index

(* Offset 0.                                                               *)
LEMMA IndexZero ==
    ASSUME NEW f \in 0..(Capacity - 1)
    PROVE  Index(f, 0) = f
  BY BuffersAssumption DEF Index

-----------------------------------------------------------------------------
(* The four ways in which a step moves the buffers.                        *)

(* No buffer moves.                                                        *)
Kept ==
    /\ held' = held /\ Queued' = Queued
    /\ \A i \in Places : Ring'[i] = Ring[i]
    /\ Removed' <=> Removed
    /\ Removed => play'.elem = play.elem

(* task_play takes the last one.                                           *)
Taken ==
    /\ held' = held /\ Queued > 0 /\ Queued' = Queued - 1
    /\ \A i \in Places' : Ring'[i] = Ring[i]
    /\ ~Removed /\ Removed'
    /\ play'.elem = Ring[Queued - 1]

(* task_play puts its one in front.                                        *)
Given ==
    /\ held' = held /\ Queued' = Queued + 1
    /\ \A i \in Places' : Ring'[i] = IF i = 0 THEN play.elem ELSE Ring[i - 1]
    /\ Removed /\ ~Removed'
    /\ play'.elem = play.elem

(* The server puts its one in front and takes the last one.                *)
Rotated ==
    /\ Queued' = Queued
    /\ \A i \in Places : Ring'[i] = IF i = 0 THEN held ELSE Ring[i - 1]
    /\ held' = IF Queued = 0 THEN held ELSE Ring[Queued - 1]
    /\ Removed' <=> Removed
    /\ play'.elem = play.elem

(* There is room in the ring for what is in it.                            *)
LEMMA QueuedFits ==
    /\ RcvBufferNum \in Nat /\ RcvBufferNum >= 2
    /\ Capacity \in Nat /\ Capacity > RcvBufferNum
    /\ Queued \in Nat /\ Queued < RcvBufferNum
    /\ Removed => Queued = RcvBufferNum - 2
    /\ ~Removed => Queued = RcvBufferNum - 1
  BY BuffersAssumption DEF Queued

(* Each of the moves leaves every buffer in one place: a step that moves   *)
(* none,                                                                   *)
LEMMA KeptPlaces ==
    ASSUME HeldBuffer, Distinct, NoneLost, Kept
    PROVE  HeldBuffer' /\ Distinct' /\ NoneLost'
<1>1. Places' = Places
  BY DEF Kept, Places
<1>2. HeldBuffer' /\ Distinct'
  BY <1>1 DEF Kept, HeldBuffer, Distinct, Buffers
<1>3. NoneLost'
  BY <1>1 DEF Kept, NoneLost, Buffers
<1> QED BY <1>2, <1>3

(* task_play taking the last one,                                          *)
LEMMA TakenPlaces ==
    ASSUME HeldBuffer, Distinct, NoneLost, Taken
    PROVE  HeldBuffer' /\ Distinct' /\ NoneLost'
<1>1. /\ Queued \in Nat
      /\ \A i : i \in Places <=> i \in Int /\ 0 <= i /\ i < Queued
      /\ \A i : i \in Places' <=> i \in Int /\ 0 <= i /\ i < Queued - 1
  BY QueuedFits DEF Taken, Places
<1>2. Queued - 1 \in Places /\ \A i \in Places' : i \in Places /\ i # Queued - 1
  BY <1>1 DEF Taken
<1>3. HeldBuffer' /\ Distinct'
  BY <1>2 DEF Taken, HeldBuffer, Distinct, Buffers
<1>4. \A i \in Places : i = Queued - 1 \/ i \in Places'
  BY <1>1
<1>5. NoneLost'
  BY <1>2, <1>4 DEF Taken, NoneLost, Buffers
<1> QED BY <1>3, <1>5

(* task_play putting its one in front,                                     *)
LEMMA GivenPlaces ==
    ASSUME HeldBuffer, Distinct, NoneLost, Given
    PROVE  HeldBuffer' /\ Distinct' /\ NoneLost'
<1>1. /\ Queued \in Nat
      /\ \A i : i \in Places <=> i \in Int /\ 0 <= i /\ i < Queued
      /\ \A i : i \in Places' <=> i \in Int /\ 0 <= i /\ i < Queued + 1
  BY QueuedFits DEF Given, Places
<1>2. \A i \in Places' : i # 0 => i - 1 \in Places
  BY <1>1
<1>3. HeldBuffer' /\ held' = held /\ ~Removed'
  BY DEF Given, HeldBuffer, Buffers
<1>4. \A i \in Places' : Ring'[i] \in Buffers /\ Ring'[i] # held
  BY <1>2 DEF Given, Distinct
<1>5. \A i, j \in Places' : Ring'[i] = Ring'[j] => i = j
  <2> TAKE i, j \in Places'
  <2>1. i \in Int /\ j \in Int
    BY <1>1
  <2>2. CASE i = 0 \/ j = 0
    BY <1>2, <2>2 DEF Given, Distinct
  <2>3. CASE i # 0 /\ j # 0
    <3>1. Ring'[i] = Ring[i - 1] /\ Ring'[j] = Ring[j - 1]
      BY <2>3 DEF Given
    <3>2. Ring[i - 1] = Ring[j - 1] => i - 1 = j - 1
      BY <1>2, <2>3 DEF Distinct
    <3> QED BY <2>1, <3>1, <3>2
  <2> QED BY <2>2, <2>3
<1>6. Distinct'
  BY <1>3, <1>4, <1>5 DEF Distinct, Buffers
<1>7. 0 \in Places' /\ Ring'[0] = play.elem
  BY <1>1 DEF Given
<1>8. \A i \in Places : i + 1 \in Places' /\ Ring'[i + 1] = Ring[i]
  <2> TAKE i \in Places
  <2>1. i + 1 \in Places' /\ i + 1 # 0 /\ (i + 1) - 1 = i
    BY <1>1
  <2> QED BY <2>1 DEF Given
<1>9. NoneLost'
  <2> SUFFICES ASSUME NEW b \in Buffers
               PROVE  b = held' \/ \E i \in Places' : b = Ring'[i]
    BY DEF NoneLost, Buffers
  <2>1. CASE b = held
    BY <1>3, <2>1
  <2>2. CASE b = play.elem
    BY <1>7, <2>2
  <2>3. CASE \E i \in Places : b = Ring[i]
    <3> PICK i \in Places : b = Ring[i]
      BY <2>3
    <3> QED BY <1>8
  <2> QED BY <2>1, <2>2, <2>3 DEF NoneLost
<1> QED BY <1>3, <1>6, <1>9

(* the server giving its one back and taking the last one.                 *)
LEMMA RotatedPlaces ==
    ASSUME HeldBuffer, Distinct, NoneLost, Rotated
    PROVE  HeldBuffer' /\ Distinct' /\ NoneLost'
<1>1. /\ Queued \in Nat /\ Places' = Places
      /\ \A i : i \in Places <=> i \in Int /\ 0 <= i /\ i < Queued
  BY QueuedFits DEF Rotated, Places
<1>2. \A i \in Places : i # 0 => i - 1 \in Places /\ i - 1 # Queued - 1
  BY <1>1
<1>3. CASE Queued = 0
  <2>1. held' = held /\ \A i \in Places : FALSE
    BY <1>1, <1>3 DEF Rotated
  <2>2. HeldBuffer' /\ Distinct'
    BY <1>1, <2>1 DEF Rotated, HeldBuffer, Distinct, Buffers
  <2>3. NoneLost'
    BY <1>1, <2>1 DEF Rotated, NoneLost, Buffers
  <2> QED BY <2>2, <2>3
<1>4. CASE Queued # 0
  <2>1. Queued - 1 \in Places /\ held' = Ring[Queued - 1] /\ 0 \in Places
    BY <1>1, <1>4 DEF Rotated
  <2>2. HeldBuffer'
    BY <2>1 DEF HeldBuffer, Distinct, Buffers
  <2>3. \A i \in Places : Ring'[i] \in Buffers /\ Ring'[i] # held'
    <3> TAKE i \in Places
    <3>1. CASE i = 0
      BY <2>1, <3>1 DEF Rotated, Distinct, HeldBuffer
    <3>2. CASE i # 0
      <4>1. Ring'[i] = Ring[i - 1] /\ i - 1 \in Places /\ i - 1 # Queued - 1
        BY <1>2, <3>2 DEF Rotated
      <4> QED BY <2>1, <4>1 DEF Distinct
    <3> QED BY <3>1, <3>2
  <2>4. \A i, j \in Places : Ring'[i] = Ring'[j] => i = j
    <3> TAKE i, j \in Places
    <3>1. i \in Int /\ j \in Int
      BY <1>1
    <3>2. CASE i = 0 \/ j = 0
      BY <1>2, <3>2 DEF Rotated, Distinct
    <3>3. CASE i # 0 /\ j # 0
      <4>1. Ring'[i] = Ring[i - 1] /\ Ring'[j] = Ring[j - 1]
        BY <3>3 DEF Rotated
      <4>2. Ring[i - 1] = Ring[j - 1] => i - 1 = j - 1
        BY <1>2, <3>3 DEF Distinct
      <4> QED BY <3>1, <4>1, <4>2
    <3> QED BY <3>2, <3>3
  <2>5. Removed => /\ play.elem \in Buffers /\ play.elem # held'
                   /\ \A i \in Places : Ring'[i] # play.elem
    BY <1>2, <2>1 DEF Rotated, Distinct
  <2>6. Distinct'
    BY <1>1, <2>3, <2>4, <2>5 DEF Rotated, Distinct, Buffers
  <2>7. \A i \in Places : i # Queued - 1 => i + 1 \in Places /\ Ring'[i + 1] = Ring[i]
    <3> TAKE i \in Places
    <3> HAVE i # Queued - 1
    <3>1. i + 1 \in Places /\ i + 1 # 0 /\ (i + 1) - 1 = i
      BY <1>1
    <3> QED BY <3>1 DEF Rotated
  <2>8. NoneLost'
    <3> SUFFICES ASSUME NEW b \in Buffers
                 PROVE  \/ b = held'
                        \/ Removed /\ b = play.elem
                        \/ \E i \in Places : b = Ring'[i]
      BY <1>1 DEF Rotated, NoneLost, Buffers
    <3>1. CASE b = held
      BY <2>1, <3>1 DEF Rotated
    <3>2. CASE Removed /\ b = play.elem
      BY <3>2
    <3>3. CASE \E i \in Places : b = Ring[i]
      <4> PICK i \in Places : b = Ring[i]
        BY <3>3
      <4>1. CASE i = Queued - 1
        <5>1. b = Ring[Queued - 1]
          BY <4>1
        <5> QED BY <2>1, <5>1
      <4>2. CASE i # Queued - 1
        <5>1. i + 1 \in Places /\ b = Ring'[i + 1]
          BY <2>7, <4>2
        <5> QED BY <5>1
      <4> QED BY <4>1, <4>2
    <3> QED BY <3>1, <3>2, <3>3 DEF NoneLost
  <2> QED BY <2>2, <2>6, <2>8
<1> QED BY <1>3, <1>4

-----------------------------------------------------------------------------
(* The server.                                                             *)

(* What deque_add_first leaves in the fields of the ring,                  *)
LEMMA PushFirstFields ==
    ASSUME NEW d \in RingType, NEW b
    PROVE  /\ PushFirst(d, b).first = Prev(d, d.first)
           /\ PushFirst(d, b).last = d.last
           /\ PushFirst(d, b).buffer = [d.buffer EXCEPT ![Prev(d, d.first)] = b]
  BY DEF PushFirst, RingType

(* and deque_remove_last.                                                  *)
LEMMA RemoveLastFields ==
    ASSUME NEW d \in RingType, d.size # 0
    PROVE  /\ RemoveLast(d).first = d.first
           /\ RemoveLast(d).last = Prev(d, d.last)
           /\ RemoveLast(d).buffer = d.buffer
  BY DEF RemoveLast, RingType

(* One turn of the server rotates the buffers: its own goes to the front,  *)
(* the last one is next.  That is so inside task_play's operations as      *)
(* well, where the ring has moved and size has not been stored.            *)
LEMMA ServerRotates ==
    ASSUME IInv, Shape, HeldBuffer, play.pc \notin Torn,
           NEW d, NEW peer, ServerReceive(d, peer)
    PROVE  Rotated /\ Shape'
<1> DEFINE f == dq.first
           p == Prev(dq, f)
           q == PushFirst(dq, held)
           n == Queued
<1>1. play' = play /\ play.pc # "fault"
  BY DEF ServerReceive, Shape
<1>2. /\ Front = f /\ Front' = dq'.first
      /\ Removed' <=> Removed
      /\ Queued' = Queued /\ Places' = Places
  BY <1>1 DEF Front, Removed, PlayOut, Queued, Places, Torn
<1>3. /\ dq \in RingType /\ dq.size \in Int /\ dq.size >= 0
      /\ dq.size < RcvBufferNum /\ dq.size < Capacity
  BY <1>1, BuffersAssumption DEF IInv, TypeOK, CountConserved, RingType
<1>4. f \in 0..(Capacity - 1) /\ dq.last \in 0..(Capacity - 1)
      /\ dq.buffer \in [0..(Capacity - 1) -> Buffers \cup {Unset}]
  BY <1>3 DEF RingType
<1>5. q \in RingType /\ q.size = dq.size + 1
  BY <1>3, PushFirstRing DEF HeldBuffer
<1>6. /\ q.first = p /\ q.last = dq.last
      /\ q.buffer = [dq.buffer EXCEPT ![p] = held]
  BY <1>3, PushFirstFields
<1>7. RcvEnqueue(dq, held) = q
  <2>1. dq.size # RcvBufferNum /\ dq.capacity = Capacity
    BY <1>3, BuffersAssumption DEF RingType
  <2> QED BY <1>3, <2>1 DEF RcvEnqueue, AddFirst
<1>8. q.size # 0
  BY <1>3, <1>5
<1>9. /\ dq' = RemoveLast(q)
      /\ held' = q.buffer[Prev(q, dq.last)]
  BY <1>6, <1>7, <1>8 DEF ServerReceive, Dequeued, LastOut
<1> HIDE DEF q
<1>10. dq'.first = p /\ dq'.last = Prev(q, dq.last) /\ dq'.buffer = q.buffer
  BY <1>5, <1>6, <1>8, <1>9, RemoveLastFields
<1>11. p \in 0..(Capacity - 1)
  BY <1>3, <1>4, IndexFromPrev, BuffersAssumption
<1>12. n \in 0..(Capacity - 2)
  BY QueuedFits
<1>13. \A i \in 0..(Capacity - 2) : Index(p, i + 1) = Index(f, i)
  BY <1>3, <1>4, IndexFromPrev
<1>14. dq.last = Index(f, n)
  BY <1>2 DEF Shape
<1> HIDE DEF n, f, p
<1>15. Prev(q, dq.last) = Index(p, n)
  <2>1. dq.last = Index(p, n + 1)
    BY <1>12, <1>13, <1>14
  <2>2. n + 1 \in 1..(Capacity - 1) /\ (n + 1) - 1 = n
    BY <1>12, BuffersAssumption
  <2> QED BY <1>5, <1>11, <2>1, <2>2, PrevOfIndex
<1>16. q.buffer[p] = held /\ Index(p, 0) = p
  BY <1>4, <1>6, <1>11, IndexZero
<1>17. \A i \in 1..(Capacity - 2) : q.buffer[Index(p, i)] = dq.buffer[Index(f, i - 1)]
  <2> TAKE i \in 1..(Capacity - 2)
  <2>1. i - 1 \in 0..(Capacity - 2) /\ (i - 1) + 1 = i
        /\ i \in 0..(Capacity - 1) /\ 0 \in 0..(Capacity - 1) /\ i # 0
    BY BuffersAssumption
  <2>2. Index(p, i) = Index(f, i - 1)
    BY <1>13, <2>1
  <2>3. Index(p, i) # p
    BY <1>11, <1>16, <2>1, IndexInjective
  <2>4. Index(p, i) \in 0..(Capacity - 1)
    BY <1>11, <2>1, IndexInRange
  <2> QED BY <1>4, <1>6, <2>2, <2>3, <2>4
<1>18. \A i \in Places : Ring[i] = dq.buffer[Index(f, i)]
  BY <1>2 DEF Ring
<1>19. \A i \in Places : Ring'[i] = q.buffer[Index(p, i)]
  BY <1>2, <1>10 DEF Ring
<1>20. \A i \in Places : i # 0 => i \in 1..(Capacity - 2) /\ i - 1 \in Places
  BY <1>12, BuffersAssumption DEF Places, n
<1>21. \A i \in Places : Ring'[i] = IF i = 0 THEN held ELSE Ring[i - 1]
  BY <1>16, <1>17, <1>18, <1>19, <1>20
<1>22. held' = IF Queued = 0 THEN held ELSE Ring[Queued - 1]
  <2>1. held' = q.buffer[Index(p, n)]
    BY <1>9, <1>15
  <2>2. CASE n = 0
    BY <1>16, <2>1, <2>2 DEF n
  <2>3. CASE n # 0
    <3>1. n \in 1..(Capacity - 2) /\ n - 1 \in Places
      BY <1>12, <2>3 DEF n, Places
    <3> QED BY <1>17, <1>18, <2>1, <2>3, <3>1 DEF n
  <2> QED BY <2>2, <2>3
<1>23. Rotated
  BY <1>1, <1>2, <1>21, <1>22 DEF Rotated
<1>24. dq'.last = Index(Front', Queued')
  BY <1>2, <1>10, <1>15 DEF n
<1>25. Shape'
  BY <1>1, <1>24 DEF Shape, Torn
<1> QED BY <1>23, <1>25

(* So a turn of the server keeps the ring.                                 *)
LEMMA ServerRing ==
    ASSUME IInv, RingInv, play.pc \notin Torn, NEW d, NEW peer, ServerReceive(d, peer)
    PROVE  RingInv'
<1>1. Rotated /\ Shape'
  BY ServerRotates DEF RingInv
<1> QED BY <1>1, RotatedPlaces DEF RingInv

-----------------------------------------------------------------------------
(* task_play.                                                              *)

(* A step that moves no buffer and leaves the registers of the queue       *)
(* operations unused keeps the shape of the ring.                          *)
LEMMA QuietKeepsShape ==
    ASSUME Shape, held' = held,
           dq'.first = dq.first, dq'.last = dq.last, dq'.buffer = dq.buffer,
           play.pc # "eqSlot",
           play'.pc \notin {"fault", "eqSlot", "dqElem", "dqStore", "eqFirst"},
           Removed' <=> Removed, Removed => play'.elem = play.elem
    PROVE  Kept /\ Shape'
<1>1. Front' = dq.first /\ Front = dq.first
  BY DEF Front
<1>2. Queued' = Queued /\ Places' = Places
  BY DEF Queued, Places
<1>3. \A i \in Places : Ring'[i] = Ring[i]
  BY <1>1, <1>2 DEF Ring
<1>4. Kept
  BY <1>2, <1>3 DEF Kept
<1>5. dq'.last = Index(Front', Queued')
  BY <1>1, <1>2 DEF Shape
<1>6. Shape'
  BY <1>5 DEF Shape
<1> QED BY <1>4, <1>6

(* Every quiet step of task_play is one.                                   *)
Quiet == \/ PlayPend \/ DequeueTest \/ DequeueLoad \/ DequeueDec \/ ReadLen
         \/ ZeroLen \/ EnqueueTest \/ EnqueueReload \/ EnqueueInc
         \/ HeaderTest \/ CopyFirstHalf \/ CopySecondHalf \/ SendChunk
         \/ Tick \/ PlayCheckLine

(* What the quiet steps do to the program point.                           *)
QuietPoints ==
    {<<"pend", "dqTest">>, <<"dqTest", "dqLast">>, <<"dqLoad", "dqDec">>,
     <<"dqDec", "len">>, <<"len", "zero">>, <<"zero", "eqTest">>,
     <<"eqTest", "eqLoad">>, <<"eqReload", "eqInc">>, <<"eqInc", "hdr">>,
     <<"eqInc", "chk">>, <<"hdr", "dqTest">>, <<"hdr", "cp1">>,
     <<"cp1", "cp2">>, <<"cp2", "send">>, <<"send", "dly">>,
     <<"dly", "send">>, <<"dly", "chk">>, <<"chk", "dqTest">>,
     <<"chk", "pend">>}

(* A quiet step goes from one of these points to the next, leaves the      *)
(* indices and the words of the ring alone and task_play with its buffer.  *)
LEMMA QuietEffect ==
    ASSUME IInv, RingInv, Quiet
    PROVE  /\ <<play.pc, play'.pc>> \in QuietPoints
           /\ held' = held
           /\ dq'.first = dq.first /\ dq'.last = dq.last /\ dq'.buffer = dq.buffer
           /\ Removed => play'.elem = play.elem
<1>1. dq \in RingType /\ play \in PlayType
  BY DEF IInv, TypeOK
<1>2. play.pc = "dqTest" => dq.size # 0
  BY BuffersAssumption DEF IInv, CountConserved, PlayHasOne, InEnqueue
<1>3. play.pc = "eqTest" => dq.size # RcvBufferNum
  BY BuffersAssumption DEF IInv, CountConserved, PlayHasOne, InEnqueue
<1>4. play.pc = "len" => play.elem # Unset
  BY BuffersAssumption DEF RingInv, Distinct, Removed, PlayOut
<1>5. CASE PlayPend
  <2>1. play.pc = "pend" /\ play'.pc \in {"dqTest"}
    BY <1>1, <1>5 DEF PlayPend, PlayStep, PlayType
  <2>2. dq'.first = dq.first /\ dq'.last = dq.last /\ dq'.buffer = dq.buffer
    BY <1>5 DEF PlayPend, PlayStep
  <2>3. ~Removed
    BY <2>1 DEF Removed, PlayOut
  <2> QED BY <1>5, <2>1, <2>2, <2>3 DEF PlayPend, PlayUnchanged, serverVars, QuietPoints
<1>6. CASE DequeueTest
  <2>1. play.pc = "dqTest" /\ play'.pc \in {"dqLast"}
    BY <1>1, <1>2, <1>6 DEF DequeueTest, PlayType
  <2>2. dq'.first = dq.first /\ dq'.last = dq.last /\ dq'.buffer = dq.buffer
    BY <1>6, <1>2 DEF DequeueTest
  <2>3. ~Removed
    BY <2>1 DEF Removed, PlayOut
  <2> QED BY <1>6, <2>1, <2>2, <2>3
          DEF DequeueTest, PlayUnchanged, serverVars, QuietPoints
<1>7. CASE DequeueLoad
  <2>1. play.pc = "dqLoad" /\ play'.pc \in {"dqDec"}
    BY <1>1, <1>7 DEF DequeueLoad, PlayType
  <2>2. dq'.first = dq.first /\ dq'.last = dq.last /\ dq'.buffer = dq.buffer
    BY <1>7 DEF DequeueLoad
  <2>3. Removed => play'.elem = play.elem
    BY <1>1, <1>7 DEF DequeueLoad, PlayType
  <2> QED BY <1>7, <2>1, <2>2, <2>3
          DEF DequeueLoad, PlayUnchanged, serverVars, QuietPoints
<1>8. CASE DequeueDec
  <2>1. play.pc = "dqDec" /\ play'.pc \in {"len"}
    BY <1>1, <1>8 DEF DequeueDec, PlayType
  <2>2. dq'.first = dq.first /\ dq'.last = dq.last /\ dq'.buffer = dq.buffer
    BY <1>1, <1>8 DEF DequeueDec, RingType
  <2>3. Removed => play'.elem = play.elem
    BY <1>1, <1>8 DEF DequeueDec, PlayType
  <2> QED BY <1>8, <2>1, <2>2, <2>3
          DEF DequeueDec, PlayUnchanged, serverVars, QuietPoints
<1>9. CASE ReadLen
  <2>1. play.pc = "len" /\ play'.pc \in {"zero"}
    BY <1>1, <1>4, <1>9 DEF ReadLen, PlayType
  <2>2. dq'.first = dq.first /\ dq'.last = dq.last /\ dq'.buffer = dq.buffer
    BY <1>9, <1>4 DEF ReadLen
  <2>3. Removed => play'.elem = play.elem
    BY <1>1, <1>4, <1>9 DEF ReadLen, PlayType
  <2> QED BY <1>9, <2>1, <2>2, <2>3 DEF ReadLen, PlayUnchanged, serverVars, QuietPoints
<1>10. CASE ZeroLen
  <2>1. play.pc = "zero" /\ play'.pc \in {"eqTest"}
    BY <1>1, <1>10 DEF ZeroLen, PlayStep, PlayType
  <2>2. dq'.first = dq.first /\ dq'.last = dq.last /\ dq'.buffer = dq.buffer
    BY <1>10 DEF ZeroLen, PlayStep
  <2>3. Removed => play'.elem = play.elem
    BY <1>1, <1>10 DEF ZeroLen, PlayStep, PlayType
  <2> QED BY <1>10, <2>1, <2>2, <2>3 DEF ZeroLen, PlayUnchanged, serverVars, QuietPoints
<1>11. CASE EnqueueTest
  <2>1. play.pc = "eqTest" /\ play'.pc \in {"eqLoad"}
    BY <1>1, <1>3, <1>11 DEF EnqueueTest, PlayStep, PlayType
  <2>2. dq'.first = dq.first /\ dq'.last = dq.last /\ dq'.buffer = dq.buffer
    BY <1>11, <1>3 DEF EnqueueTest, PlayStep
  <2>3. Removed => play'.elem = play.elem
    BY <1>1, <1>3, <1>11 DEF EnqueueTest, PlayStep, PlayType
  <2> QED BY <1>11, <2>1, <2>2, <2>3
          DEF EnqueueTest, PlayUnchanged, serverVars, QuietPoints
<1>12. CASE EnqueueReload
  <2>1. play.pc = "eqReload" /\ play'.pc \in {"eqInc"}
    BY <1>1, <1>12 DEF EnqueueReload, PlayType
  <2>2. dq'.first = dq.first /\ dq'.last = dq.last /\ dq'.buffer = dq.buffer
    BY <1>12 DEF EnqueueReload
  <2>3. ~Removed
    BY <2>1 DEF Removed, PlayOut
  <2> QED BY <1>12, <2>1, <2>2, <2>3
          DEF EnqueueReload, PlayUnchanged, serverVars, QuietPoints
<1>13. CASE EnqueueInc
  <2>1. play.pc = "eqInc" /\ play'.pc \in {"hdr", "chk"}
    BY <1>1, <1>13 DEF EnqueueInc, PlayType
  <2>2. dq'.first = dq.first /\ dq'.last = dq.last /\ dq'.buffer = dq.buffer
    BY <1>1, <1>13 DEF EnqueueInc, RingType
  <2>3. ~Removed
    BY <2>1 DEF Removed, PlayOut
  <2> QED BY <1>13, <2>1, <2>2, <2>3
          DEF EnqueueInc, PlayUnchanged, serverVars, QuietPoints
<1>14. CASE HeaderTest
  <2>1. play.pc = "hdr" /\ play'.pc \in {"dqTest", "cp1"}
    BY <1>1, <1>14 DEF HeaderTest, PlayType
  <2>2. dq'.first = dq.first /\ dq'.last = dq.last /\ dq'.buffer = dq.buffer
    BY <1>14 DEF HeaderTest
  <2>3. ~Removed
    BY <2>1 DEF Removed, PlayOut
  <2> QED BY <1>14, <2>1, <2>2, <2>3
          DEF HeaderTest, PlayUnchanged, serverVars, QuietPoints
<1>15. CASE CopyFirstHalf
  <2>1. play.pc = "cp1" /\ play'.pc \in {"cp2"}
    BY <1>1, <1>15 DEF CopyFirstHalf, PlayType
  <2>2. dq'.first = dq.first /\ dq'.last = dq.last /\ dq'.buffer = dq.buffer
    BY <1>15 DEF CopyFirstHalf
  <2>3. ~Removed
    BY <2>1 DEF Removed, PlayOut
  <2> QED BY <1>15, <2>1, <2>2, <2>3
          DEF CopyFirstHalf, PlayUnchanged, serverVars, QuietPoints
<1>16. CASE CopySecondHalf
  <2>1. play.pc = "cp2" /\ play'.pc \in {"send"}
    BY <1>1, <1>16 DEF CopySecondHalf, PlayType
  <2>2. dq'.first = dq.first /\ dq'.last = dq.last /\ dq'.buffer = dq.buffer
    BY <1>16 DEF CopySecondHalf
  <2>3. ~Removed
    BY <2>1 DEF Removed, PlayOut
  <2> QED BY <1>16, <2>1, <2>2, <2>3
          DEF CopySecondHalf, PlayUnchanged, serverVars, QuietPoints
<1>17. CASE SendChunk
  <2>1. play.pc = "send" /\ play'.pc \in {"dly"}
    BY <1>1, <1>17 DEF SendChunk, PlayType
  <2>2. dq'.first = dq.first /\ dq'.last = dq.last /\ dq'.buffer = dq.buffer
    BY <1>17 DEF SendChunk
  <2>3. ~Removed
    BY <2>1 DEF Removed, PlayOut
  <2> QED BY <1>17, <2>1, <2>2, <2>3
          DEF SendChunk, PlayUnchanged, serverVars, QuietPoints
<1>18. CASE Tick
  <2>1. play.pc = "dly" /\ play'.pc \in {"send", "chk"}
    BY <1>1, <1>18 DEF Tick, PlayType
  <2>2. dq'.first = dq.first /\ dq'.last = dq.last /\ dq'.buffer = dq.buffer
    BY <1>18 DEF Tick
  <2>3. ~Removed
    BY <2>1 DEF Removed, PlayOut
  <2> QED BY <1>18, <2>1, <2>2, <2>3 DEF Tick, PlayUnchanged, serverVars, QuietPoints
<1>19. CASE PlayCheckLine
  <2>1. play.pc = "chk" /\ play'.pc \in {"dqTest", "pend"}
    BY <1>1, <1>19 DEF PlayCheckLine, PlayStep, PlayType
  <2>2. dq'.first = dq.first /\ dq'.last = dq.last /\ dq'.buffer = dq.buffer
    BY <1>19 DEF PlayCheckLine, PlayStep
  <2>3. ~Removed
    BY <2>1 DEF Removed, PlayOut
  <2> QED BY <1>19, <2>1, <2>2, <2>3
          DEF PlayCheckLine, PlayUnchanged, serverVars, QuietPoints
<1> QED BY <1>5, <1>6, <1>7, <1>8, <1>9, <1>10, <1>11, <1>12, <1>13, <1>14, <1>15,
           <1>16, <1>17, <1>18, <1>19 DEF Quiet

(* So a quiet step keeps every buffer where it is.                         *)
LEMMA QuietRing ==
    ASSUME IInv, RingInv, Quiet
    PROVE  Kept /\ RingInv'
<1>1. /\ <<play.pc, play'.pc>> \in QuietPoints
      /\ held' = held
      /\ dq'.first = dq.first /\ dq'.last = dq.last /\ dq'.buffer = dq.buffer
      /\ Removed => play'.elem = play.elem
  BY QuietEffect
<1>2. /\ play.pc # "eqSlot"
      /\ play'.pc \notin {"fault", "eqSlot", "dqElem", "dqStore", "eqFirst"}
      /\ Removed' <=> Removed
  BY <1>1 DEF QuietPoints, Removed, PlayOut
<1>3. Kept /\ Shape'
  BY <1>1, <1>2, QuietKeepsShape DEF RingInv
<1> QED BY <1>3, KeptPlaces DEF RingInv

(* last = (deque->last - 1) & (deque->capacity - 1): the index of the last *)
(* element of the ring.                                                    *)
LEMMA DequeueLastRing ==
    ASSUME IInv, RingInv, DequeueLast
    PROVE  Kept /\ RingInv'
<1>1. /\ dq \in RingType /\ play \in PlayType
      /\ dq.first \in 0..(Capacity - 1) /\ dq.last \in 0..(Capacity - 1)
  BY DEF IInv, TypeOK, RingType
<1>2. /\ play.pc = "dqLast" /\ play'.pc = "dqElem"
      /\ play'.reg = Prev(dq, dq.last)
      /\ dq' = dq /\ held' = held
  BY <1>1 DEF DequeueLast, PlayUnchanged, serverVars, PlayType
<1>3. ~Removed /\ ~Removed' /\ Front = dq.first /\ Front' = dq.first
  BY <1>2 DEF Removed, PlayOut, Front
<1>4. Queued' = Queued /\ Places' = Places
  BY <1>3 DEF Queued, Places
<1>5. Kept
  BY <1>2, <1>3, <1>4 DEF Kept, Ring
<1>6. dq.last = Index(dq.first, Queued) /\ Queued \in 1..(Capacity - 1)
  BY <1>3, QueuedFits DEF RingInv, Shape
<1>7. Prev(dq, dq.last) = Index(dq.first, Queued - 1)
  BY <1>1, <1>6, PrevOfIndex
<1>8. Shape'
  BY <1>2, <1>3, <1>4, <1>6, <1>7 DEF Shape
<1> QED BY <1>5, <1>8, KeptPlaces DEF RingInv

(* element = deque->buffer[last].                                          *)
LEMMA DequeueElemRing ==
    ASSUME IInv, RingInv, DequeueElem
    PROVE  Kept /\ RingInv'
<1>1. play \in PlayType
  BY DEF IInv, TypeOK
<1>2. /\ play.pc = "dqElem" /\ play'.pc = "dqStore"
      /\ play'.reg = play.reg /\ play'.elem = dq.buffer[play.reg]
      /\ dq' = dq /\ held' = held
  BY <1>1 DEF DequeueElem, PlayUnchanged, serverVars, PlayType
<1>3. ~Removed /\ ~Removed' /\ Front = dq.first /\ Front' = dq.first
  BY <1>2 DEF Removed, PlayOut, Front
<1>4. Queued' = Queued /\ Places' = Places
  BY <1>3 DEF Queued, Places
<1>5. Kept
  BY <1>2, <1>3, <1>4 DEF Kept, Ring
<1>6. Shape'
  BY <1>2, <1>3, <1>4 DEF RingInv, Shape
<1> QED BY <1>5, <1>6, KeptPlaces DEF RingInv

(* deque->last = last: the last element leaves the ring.                   *)
LEMMA DequeueStoreRing ==
    ASSUME IInv, RingInv, DequeueStore
    PROVE  Taken /\ RingInv'
<1>1. dq \in RingType /\ play \in PlayType
  BY DEF IInv, TypeOK
<1>2. /\ play.pc = "dqStore" /\ play'.pc = "dqLoad" /\ play'.elem = play.elem
      /\ dq' = [dq EXCEPT !.last = play.reg] /\ held' = held
  BY <1>1 DEF DequeueStore, PlayStep, PlayUnchanged, serverVars, PlayType
<1>3. dq'.first = dq.first /\ dq'.last = play.reg /\ dq'.buffer = dq.buffer
  BY <1>1, <1>2 DEF RingType
<1>4. ~Removed /\ Removed' /\ Front = dq.first /\ Front' = dq.first
  BY <1>2, <1>3 DEF Removed, PlayOut, Front
<1>5. /\ Queued = RcvBufferNum - 1 /\ Queued' = Queued - 1 /\ Queued > 0
      /\ Queued \in Nat
  BY <1>4, BuffersAssumption DEF Queued
<1>6. \A i \in Places' : i \in Places
  BY <1>5 DEF Places
<1>7. \A i \in Places' : Ring'[i] = Ring[i]
  <2>1. \A i \in Places' : Ring'[i] = dq.buffer[Index(dq.first, i)]
    BY <1>3, <1>4 DEF Ring
  <2>2. \A i \in Places : Ring[i] = dq.buffer[Index(dq.first, i)]
    BY <1>4 DEF Ring
  <2> QED BY <1>6, <2>1, <2>2
<1>8. Queued - 1 \in Places
  BY <1>5 DEF Places
<1>9. play.reg = Index(dq.first, Queued - 1) /\ play.elem = dq.buffer[play.reg]
  BY <1>2, <1>4 DEF RingInv, Shape
<1>10. play'.elem = Ring[Queued - 1]
  <2>1. Ring[Queued - 1] = dq.buffer[Index(Front, Queued - 1)]
    BY <1>8 DEF Ring
  <2> QED BY <1>2, <1>4, <1>9, <2>1
<1>11. Taken
  BY <1>2, <1>4, <1>5, <1>7, <1>10 DEF Taken
<1>12. Shape'
  BY <1>2, <1>3, <1>4, <1>5, <1>9 DEF Shape
<1> QED BY <1>11, <1>12, TakenPlaces DEF RingInv

(* first = (deque->first - 1) & (deque->capacity - 1).                     *)
LEMMA EnqueueLoadRing ==
    ASSUME IInv, RingInv, EnqueueLoad
    PROVE  Kept /\ RingInv'
<1>1. /\ dq \in RingType /\ play \in PlayType
      /\ dq.first \in 0..(Capacity - 1)
  BY DEF IInv, TypeOK, RingType
<1>2. /\ play.pc = "eqLoad" /\ play'.pc = "eqFirst"
      /\ play'.reg = Prev(dq, dq.first) /\ play'.elem = play.elem
      /\ dq' = dq /\ held' = held
  BY <1>1 DEF EnqueueLoad, PlayUnchanged, serverVars, PlayType
<1>3. Removed /\ Removed' /\ Front = dq.first /\ Front' = dq.first
  BY <1>2 DEF Removed, PlayOut, Front
<1>4. Queued' = Queued /\ Places' = Places
  BY <1>3 DEF Queued, Places
<1>5. Kept
  BY <1>2, <1>3, <1>4 DEF Kept, Ring
<1>6. Index(Prev(dq, dq.first), 1) = dq.first
  <2>1. 0 \in 0..(Capacity - 2) /\ 0 + 1 = 1
    BY BuffersAssumption
  <2>2. Index(Prev(dq, dq.first), 0 + 1) = Index(dq.first, 0)
    BY <1>1, <2>1, IndexFromPrev
  <2> QED BY <1>1, <2>1, <2>2, IndexZero
<1>7. Shape'
  BY <1>2, <1>3, <1>4, <1>6 DEF RingInv, Shape
<1> QED BY <1>5, <1>7, KeptPlaces DEF RingInv

(* deque->first = first: the ring starts one word after "first" until the  *)
(* element is stored.                                                      *)
LEMMA EnqueueFirstRing ==
    ASSUME IInv, RingInv, EnqueueFirst
    PROVE  Kept /\ RingInv'
<1>1. dq \in RingType /\ play \in PlayType
  BY DEF IInv, TypeOK
<1>2. /\ play.pc = "eqFirst" /\ play'.pc = "eqSlot" /\ play'.elem = play.elem
      /\ play'.reg = play.reg
      /\ dq' = [dq EXCEPT !.first = play.reg] /\ held' = held
  BY <1>1 DEF EnqueueFirst, PlayStep, PlayUnchanged, serverVars, PlayType
<1>3. dq'.first = play.reg /\ dq'.last = dq.last /\ dq'.buffer = dq.buffer
  BY <1>1, <1>2 DEF RingType
<1>4. Index(play.reg, 1) = dq.first /\ dq.last = Index(Front, Queued)
  BY <1>2 DEF RingInv, Shape
<1>5. Removed /\ Removed' /\ Front = dq.first /\ Front' = dq.first
  BY <1>2, <1>3, <1>4 DEF Removed, PlayOut, Front
<1>6. Queued' = Queued /\ Places' = Places
  BY <1>5 DEF Queued, Places
<1>7. Kept
  BY <1>2, <1>3, <1>5, <1>6 DEF Kept, Ring
<1>8. Shape'
  BY <1>2, <1>3, <1>4, <1>5, <1>6 DEF Shape
<1> QED BY <1>7, <1>8, KeptPlaces DEF RingInv

(* deque->buffer[deque->first] = element: task_play's buffer is the first  *)
(* of the ring.                                                            *)
LEMMA EnqueueSlotRing ==
    ASSUME IInv, RingInv, EnqueueSlot
    PROVE  /\ Given /\ RingInv'
           /\ 0 \in Places' /\ Ring'[0] = play'.elem
<1> DEFINE f == dq.first
           g == Index(f, 1)
<1>1. /\ dq \in RingType /\ play \in PlayType
      /\ f \in 0..(Capacity - 1)
      /\ dq.buffer \in [0..(Capacity - 1) -> Buffers \cup {Unset}]
  BY DEF IInv, TypeOK, RingType
<1>2. /\ play.pc = "eqSlot" /\ play'.pc = "eqReload" /\ play'.elem = play.elem
      /\ held' = held
  BY <1>1 DEF EnqueueSlot, PlayStep, PlayUnchanged, serverVars, PlayType
<1>3. play.reg = f /\ dq.last = Index(g, Queued)
  BY <1>2 DEF RingInv, Shape, Front
<1>4. dq' = [dq EXCEPT !.buffer[f] = play.elem]
  BY <1>3 DEF EnqueueSlot
<1>5. /\ dq'.first = f /\ dq'.last = dq.last
      /\ dq'.buffer = [dq.buffer EXCEPT ![f] = play.elem]
  BY <1>1, <1>4 DEF RingType
<1>6. Removed /\ ~Removed' /\ Front = g /\ Front' = f
  BY <1>2, <1>5 DEF Removed, PlayOut, Front
<1>7. /\ Queued = RcvBufferNum - 2 /\ Queued' = Queued + 1
      /\ Queued \in 0..(Capacity - 2) /\ Queued' \in 1..(Capacity - 2)
  BY <1>6, BuffersAssumption DEF Queued
<1> HIDE DEF f, g
<1>8. \A i \in 0..(Capacity - 2) : Index(g, i) = Index(f, i + 1)
  BY <1>1, IndexFromNext DEF g
<1>9. \A i \in Places' : Ring'[i] = dq'.buffer[Index(f, i)]
  BY <1>6 DEF Ring
<1>10. \A i \in Places : Ring[i] = dq.buffer[Index(g, i)]
  BY <1>6 DEF Ring
<1>11. 0 \in Places' /\ Ring'[0] = play.elem
  <2>1. 0 \in Places'
    BY <1>7 DEF Places
  <2>2. Ring'[0] = dq'.buffer[f]
    BY <1>1, <1>9, <2>1, IndexZero
  <2> QED BY <1>1, <1>5, <2>1, <2>2
<1>12. \A i \in Places' : i # 0 => Ring'[i] = Ring[i - 1]
  <2> TAKE i \in Places'
  <2> HAVE i # 0
  <2>1. /\ i \in 1..(Capacity - 2) /\ i \in 0..(Capacity - 1)
        /\ i - 1 \in 0..(Capacity - 2) /\ (i - 1) + 1 = i
        /\ i - 1 \in Places /\ 0 \in 0..(Capacity - 1)
    BY <1>7, BuffersAssumption DEF Places
  <2>2. Index(f, i) \in 0..(Capacity - 1)
    BY <1>1, <2>1, IndexInRange
  <2>3. Index(f, i) # f
    <3>1. Index(f, 0) = f
      BY <1>1, IndexZero
    <3> QED BY <1>1, <2>1, <3>1, IndexInjective
  <2>4. Ring'[i] = dq.buffer[Index(f, i)]
    BY <1>1, <1>5, <1>9, <2>2, <2>3
  <2>5. Index(f, i) = Index(g, i - 1)
    BY <1>8, <2>1
  <2> QED BY <1>10, <2>1, <2>4, <2>5
<1>13. Given
  BY <1>2, <1>6, <1>7, <1>11, <1>12 DEF Given
<1>14. dq'.last = Index(Front', Queued')
  BY <1>3, <1>5, <1>6, <1>7, <1>8
<1>15. Shape'
  BY <1>2, <1>14 DEF Shape
<1>16. RingInv'
  BY <1>13, <1>15, GivenPlaces DEF RingInv
<1> QED BY <1>2, <1>11, <1>13, <1>16

-----------------------------------------------------------------------------
(* The ring is kept.                                                       *)

(* What rev_buffer_init and the first rcv_queue_dequeue leave: the buffers *)
(* but the first are in the ring, the youngest in front.                   *)
LEMMA InitRing == Init => RingInv
<1> SUFFICES ASSUME Init PROVE RingInv
  OBVIOUS
<1> DEFINE q == InitialQueue
<1>1. q \in RingType /\ q.size = RcvBufferNum
  BY BuffersAssumption DEF InitialQueue, RingType, Buffers
<1>2. /\ q.first = Capacity - RcvBufferNum /\ q.last = 0
      /\ \A i \in (Capacity - RcvBufferNum)..(Capacity - 1) : q.buffer[i] = Capacity - i
  <2>1. /\ q.first = Capacity - RcvBufferNum /\ q.last = 0
        /\ q.buffer = [i \in 0..(Capacity - 1) |->
                         IF i >= Capacity - RcvBufferNum THEN Capacity - i ELSE Unset]
    BY DEF InitialQueue
  <2>2. \A i \in (Capacity - RcvBufferNum)..(Capacity - 1) :
           i \in 0..(Capacity - 1) /\ i >= Capacity - RcvBufferNum
    BY BuffersAssumption
  <2> HIDE DEF q
  <2> QED BY <2>1, <2>2
<1>3. play.pc = "pend" /\ dq = RemoveLast(q) /\ held = Dequeued(q)
  BY DEF Init
<1> HIDE DEF q
<1>4. q.size # 0 /\ 0 \in 0..(Capacity - 1)
  BY <1>1, BuffersAssumption
<1>5. Prev(q, q.last) = Capacity - 1
  BY <1>1, <1>2, <1>4, PrevIs
<1>6. /\ dq.first = Capacity - RcvBufferNum /\ dq.last = Capacity - 1
      /\ dq.buffer = q.buffer
  BY <1>1, <1>2, <1>3, <1>4, <1>5, RemoveLastFields
<1>7. held = 1
  <2>1. held = q.buffer[Capacity - 1]
    BY <1>3, <1>4, <1>5 DEF Dequeued, LastOut
  <2>2. Capacity - 1 \in (Capacity - RcvBufferNum)..(Capacity - 1)
        /\ Capacity - (Capacity - 1) = 1
    BY BuffersAssumption
  <2> QED BY <1>2, <2>1, <2>2
<1>8. /\ ~Removed /\ Front = Capacity - RcvBufferNum /\ Queued = RcvBufferNum - 1
      /\ Places = 0..(RcvBufferNum - 2)
  <2>1. ~Removed /\ Front = dq.first
    BY <1>3 DEF Removed, PlayOut, Front
  <2>2. Queued = RcvBufferNum - 1
    BY <2>1 DEF Queued
  <2> QED BY <1>6, <2>1, <2>2, BuffersAssumption DEF Places
<1>9. \A i \in Places : Ring[i] = RcvBufferNum - i
  <2> TAKE i \in Places
  <2>1. Index(Front, i) = Capacity - RcvBufferNum + i
    BY <1>8, BuffersAssumption DEF Index
  <2>2. Capacity - RcvBufferNum + i \in (Capacity - RcvBufferNum)..(Capacity - 1)
        /\ Capacity - (Capacity - RcvBufferNum + i) = RcvBufferNum - i
    BY <1>8, BuffersAssumption
  <2>3. Ring[i] = dq.buffer[Index(Front, i)]
    BY DEF Ring
  <2> QED BY <1>2, <1>6, <2>1, <2>2, <2>3
<1>10. Shape
  <2>1. Index(Front, Queued) = Capacity - 1
    BY <1>8, BuffersAssumption DEF Index
  <2> QED BY <1>3, <1>6, <2>1 DEF Shape
<1>11. HeldBuffer
  BY <1>7, BuffersAssumption DEF HeldBuffer, Buffers
<1>12. Distinct
  BY <1>7, <1>8, <1>9, BuffersAssumption DEF Distinct, Buffers
<1>13. NoneLost
  <2> SUFFICES ASSUME NEW b \in Buffers, b # held
               PROVE  \E i \in Places : b = Ring[i]
    BY DEF NoneLost
  <2>1. RcvBufferNum - b \in Places /\ RcvBufferNum - (RcvBufferNum - b) = b
    BY <1>7, <1>8, BuffersAssumption DEF Buffers
  <2> QED BY <1>9, <2>1
<1> QED BY <1>10, <1>11, <1>12, <1>13 DEF RingInv

(* A step that leaves the queue, the buffers held and task_play alone.     *)
LEMMA ElsewhereRing ==
    ASSUME RingInv, UNCHANGED <<dq, held, play>>
    PROVE  Kept /\ RingInv'
<1>1. Front' = Front /\ (Removed' <=> Removed)
  BY DEF Front, Removed, PlayOut
<1>2. Queued' = Queued /\ Places' = Places
  BY <1>1 DEF Queued, Places
<1>3. Kept
  BY <1>1, <1>2 DEF Kept, Ring
<1>4. Shape'
  BY <1>1, <1>2 DEF RingInv, Shape
<1> QED BY <1>3, <1>4, KeptPlaces DEF RingInv

(* task_udpclient never touches the queue.                                 *)
LEMMA ClientElsewhere ==
    ASSUME Client \/ UNCHANGED vars
    PROVE  UNCHANGED <<dq, buf, held, play, nextTag, played, burst>>
  BY DEF Client, ClientPend, ReadAddr, ReadPort, SendHeader, PollRecorder,
         ClientCheckLine, ClientUnchanged, serverVars, ghosts, vars

(* A turn of the server is the reception of one datagram, which carries    *)
(* the next tag or none.                                                   *)
LEMMA ServerReceives ==
    ASSUME IInv, Server
    PROVE  \E peer \in Peers, d \in BufferRecord :
              /\ ServerReceive(d, peer)
              /\ \/ d.tag = 0 /\ nextTag' = nextTag
                 \/ d.tag = nextTag /\ nextTag' = nextTag + 1
<1> PICK peer \in Peers : \/ ServerCommand(peer) \/ ServerHeader(peer)
                          \/ ServerEmpty(peer) \/ ServerAudio(peer)
  BY DEF Server
<1>1. \A k, t, l : Datagram(k, t, l).tag = t
  BY DEF Datagram
<1>2. \A k \in Kinds, t \in 0..MaxTag, l \in {0, 1} : Datagram(k, t, l) \in BufferRecord
  BY DEF Datagram, BufferRecord
<1>3. /\ Commands \subseteq Kinds /\ "RIFF" \in Kinds /\ "PCM" \in Kinds
      /\ 0 \in 0..MaxTag /\ (nextTag <= MaxTag => nextTag \in 0..MaxTag)
  BY BoundsAssumption DEF IInv, TypeOK, Kinds
<1>4. CASE ServerCommand(peer)
  <2> PICK k \in Commands : ServerReceive(Datagram(k, 0, 1), peer)
    BY <1>4 DEF ServerCommand
  <2>1. Datagram(k, 0, 1) \in BufferRecord
    BY <1>2, <1>3
  <2> QED BY <1>1, <1>4, <2>1 DEF ServerCommand
<1>5. CASE ServerHeader(peer)
  <2>1. Datagram("RIFF", 0, 1) \in BufferRecord
    BY <1>2, <1>3
  <2> QED BY <1>1, <1>5, <2>1 DEF ServerHeader
<1>6. CASE ServerEmpty(peer)
  <2>1. Datagram("PCM", 0, 0) \in BufferRecord
    BY <1>2, <1>3
  <2> QED BY <1>1, <1>6, <2>1 DEF ServerEmpty
<1>7. CASE ServerAudio(peer)
  <2>1. Datagram("PCM", 0, 1) \in BufferRecord
    BY <1>2, <1>3
  <2>2. nextTag <= MaxTag => Datagram("PCM", nextTag, 1) \in BufferRecord
    BY <1>2, <1>3
  <2> QED BY <1>1, <1>7, <2>1, <2>2 DEF ServerAudio
<1> QED BY <1>4, <1>5, <1>6, <1>7

(* The steps of task_play by what they do to the ring.                     *)
LEMMA PlaySplit ==
    ASSUME Play \/ Tick
    PROVE  \/ Quiet \/ DequeueLast \/ DequeueElem \/ DequeueStore
           \/ EnqueueLoad \/ EnqueueFirst \/ EnqueueSlot
  BY DEF Play, PlayDequeue, PlayEnqueue, PlayCopy, Quiet

(* Every step keeps the ring but a turn of the server at a torn point.     *)
LEMMA NextRing ==
    ASSUME IInv, RingInv, [Next]_vars, Server => play.pc \notin Torn
    PROVE  RingInv'
<1>1. CASE Server
  BY <1>1, ServerReceives, ServerRing
<1>2. CASE Play \/ Tick
  BY <1>2, PlaySplit, QuietRing, DequeueLastRing, DequeueElemRing,
     DequeueStoreRing, EnqueueLoadRing, EnqueueFirstRing, EnqueueSlotRing
<1>3. CASE Client \/ UNCHANGED vars
  BY <1>3, ClientElsewhere, ElsewhereRing
<1> QED BY <1>1, <1>2, <1>3 DEF Next

(* No datagram between two queue operations alone is at a torn point.      *)
LEMMA NotPreempted ==
    ASSUME ~PreemptQueue, Server
    PROVE  play.pc \notin InDequeue \cup InEnqueue /\ play.pc \notin Torn
<1>1. MayArrive
  BY DEF Server, ServerCommand, ServerHeader, ServerEmpty, ServerAudio, ServerReceive
<1> QED BY <1>1 DEF MayArrive, Torn, InDequeue, InEnqueue

(* The inductive invariant of the ring, for every number of buffers and    *)
(* every capacity that has room for them, wherever datagrams arrive but at *)
(* a torn point.                                                           *)
THEOREM RingInvariance == Spec /\ NeverTorn => [](IInv /\ RingInv)
<1>1. Init => IInv /\ RingInv
  BY InitIInv, InitRing
<1>2. IInv /\ RingInv /\ [Next]_vars /\ [Server => play.pc \notin Torn]_vars
         => (IInv /\ RingInv)'
  <2>1. IInv /\ [Next]_vars => IInv'
    BY ServerStep, PlayStepInv, ClientStepInv, StutterInv DEF Next
  <2>2. IInv /\ RingInv /\ UNCHANGED vars => RingInv'
    BY ClientElsewhere, ElsewhereRing
  <2> QED BY <2>1, <2>2, NextRing
<1> QED BY <1>1, <1>2, PTL DEF Spec, NeverTorn

(* deque_add_first and deque_remove_last, unlocked, lose and duplicate     *)
(* buffers only by a turn of task_udpserver at one of the four torn points *)
(* of task_play's; whatever arrives anywhere else, inside the operations   *)
(* too, each buffer is in the queue, with the server or with task_play.    *)
THEOREM EveryBufferInOnePlace == Spec /\ NeverTorn => []RingIntact
<1>1. IInv /\ RingInv => RingIntact
  <2> SUFFICES ASSUME IInv, RingInv,
                      play.pc \notin InDequeue \cup InEnqueue \cup {"fault"}
               PROVE  LET inQueue == {Contents(dq)[i] : i \in 1..dq.size}
                          out     == {held} \cup (IF PlayHasOne THEN {play.elem} ELSE {})
                      IN inQueue \cup out = Buffers /\ inQueue \cap out = {}
    BY DEF RingIntact
  <2> DEFINE inQueue == {Contents(dq)[i] : i \in 1..dq.size}
             out     == {held} \cup (IF PlayHasOne THEN {play.elem} ELSE {})
  <2>1. (PlayHasOne <=> Removed) /\ Front = dq.first
    BY DEF PlayHasOne, Removed, PlayOut, Front, InDequeue, InEnqueue
  <2>2. dq.size = Queued /\ dq \in RingType /\ Queued \in Nat /\ Queued < Capacity
    BY <2>1, QueuedFits DEF IInv, TypeOK, CountConserved, Queued
  <2>3. dq.first \in 0..(Capacity - 1) /\ dq.capacity = Capacity
    BY <2>2 DEF RingType
  <2>4. \A i \in 1..dq.size : i - 1 \in Places /\ Contents(dq)[i] = Ring[i - 1]
    <3> TAKE i \in 1..dq.size
    <3>1. i - 1 \in Places /\ i - 1 \in 0..(Capacity - 1)
      BY <2>2, BuffersAssumption DEF Places
    <3>2. Contents(dq)[i] = dq.buffer[(dq.first + (i - 1)) % Capacity]
      BY <2>3 DEF Contents, At
    <3>3. (dq.first + (i - 1)) % Capacity = Index(dq.first, i - 1)
      BY <2>3, <3>1, IndexIsMask
    <3>4. Ring[i - 1] = dq.buffer[Index(dq.first, i - 1)]
      BY <2>1, <3>1 DEF Ring
    <3> QED BY <3>1, <3>2, <3>3, <3>4
  <2>5. \A i \in Places : i + 1 \in 1..dq.size /\ Contents(dq)[i + 1] = Ring[i]
    <3> TAKE i \in Places
    <3>1. i + 1 \in 1..dq.size /\ (i + 1) - 1 = i
      BY <2>2 DEF Places
    <3> QED BY <2>4, <3>1
  <2>6. \A b : b \in inQueue <=> \E i \in Places : b = Ring[i]
    BY <2>4, <2>5
  <2>7. \A b : b \in out <=> b = held \/ (Removed /\ b = play.elem)
    BY <2>1
  <2> HIDE DEF inQueue, out
  <2>8. inQueue \cup out = Buffers
    <3>1. \A b \in Buffers : b \in inQueue \cup out
      BY <2>6, <2>7 DEF RingInv, NoneLost
    <3>2. \A b \in inQueue \cup out : b \in Buffers
      BY <2>6, <2>7 DEF RingInv, Distinct, HeldBuffer
    <3> QED BY <3>1, <3>2
  <2>9. inQueue \cap out = {}
    BY <2>6, <2>7 DEF RingInv, Distinct
  <2> QED BY <2>8, <2>9 DEF inQueue, out
<1> QED BY <1>1, RingInvariance, PTL

(* Nor does queue_poll hand to a task a buffer the other task has, or      *)
(* task_play dereference NULL or an unwritten word of the ring, before     *)
(* task_udpserver has run at a torn point.                                 *)
THEOREM BufferOutOnce == Spec /\ NeverTorn => [](RemovedOnce /\ play.pc # "fault")
<1>1. RingInv => RemovedOnce /\ play.pc # "fault"
  BY DEF RingInv, Shape, HeldBuffer, Distinct, Removed, RemovedOnce
<1> QED BY <1>1, RingInvariance, PTL

-----------------------------------------------------------------------------
(* Frames.  The steps of task_play that neither write a buffer nor finish  *)
(* a copy, and move no buffer.                                             *)
Plain == \/ PlayPend \/ DequeueTest \/ DequeueLast \/ DequeueElem \/ DequeueLoad
         \/ DequeueDec \/ ReadLen \/ EnqueueTest \/ EnqueueLoad \/ EnqueueFirst
         \/ EnqueueReload \/ EnqueueInc \/ HeaderTest \/ CopyFirstHalf
         \/ SendChunk \/ Tick \/ PlayCheckLine

PlainPoints ==
    {<<"pend", "dqTest">>, <<"dqTest", "dqLast">>, <<"dqLast", "dqElem">>,
     <<"dqElem", "dqStore">>, <<"dqLoad", "dqDec">>, <<"dqDec", "len">>,
     <<"len", "zero">>, <<"eqTest", "eqLoad">>, <<"eqLoad", "eqFirst">>,
     <<"eqFirst", "eqSlot">>, <<"eqReload", "eqInc">>, <<"eqInc", "hdr">>,
     <<"eqInc", "chk">>, <<"hdr", "dqTest">>, <<"hdr", "cp1">>,
     <<"cp1", "cp2">>, <<"send", "dly">>, <<"dly", "send">>,
     <<"dly", "chk">>, <<"chk", "dqTest">>, <<"chk", "pend">>}

(* What a plain step does to the locals of task_play that the frame it     *)
(* plays depends on.                                                       *)
PlainLocals ==
    /\ play'.pc \in {"dqDec", "len", "zero"} \cup InEnqueue \cup InCopy =>
          play'.elem = play.elem
    /\ play'.pc = "zero" => play'.len = buf[play.elem].len
    /\ play'.pc \in InEnqueue => play'.len = play.len
    /\ play'.pc = "hdr" => play.len > 0 /\ burst' = 0
    /\ play'.pc \in {"cp1", "cp2"} => burst' = burst
    /\ play'.pc = "cp2" => play'.pbuff[1] = buf[play.elem].tag
    /\ play'.pc \in {"send", "dly"} => play'.pbuff = play.pbuff

(* Every plain step is of this kind.                                       *)
LEMMA PlainEffect ==
    ASSUME IInv, RingInv, Plain
    PROVE  /\ <<play.pc, play'.pc>> \in PlainPoints
           /\ UNCHANGED <<buf, held, played, nextTag>>
           /\ PlainLocals
<1>1. dq \in RingType /\ play \in PlayType
  BY DEF IInv, TypeOK
<1>2. play.pc = "dqTest" => dq.size # 0
  BY BuffersAssumption DEF IInv, CountConserved, PlayHasOne, InEnqueue
<1>3. play.pc = "len" => play.elem # Unset
  BY BuffersAssumption DEF RingInv, Distinct, Removed, PlayOut
<1>4. CASE PlayPend
  <2>1. play.pc = "pend" /\ play'.pc \in {"dqTest"}
    BY <1>1, <1>4 DEF PlayPend, PlayStep, PlayType
  <2>2. UNCHANGED <<buf, held, played, nextTag>>
    BY <1>4 DEF PlayPend, PlayStep, PlayUnchanged, serverVars
  <2>3. PlainLocals
    BY <1>1, <1>4, <2>1 DEF PlayPend, PlayStep, PlainLocals, PlayType, InEnqueue, InCopy
  <2> QED BY <2>1, <2>2, <2>3 DEF PlainPoints
<1>5. CASE DequeueTest
  <2>1. play.pc = "dqTest" /\ play'.pc \in {"dqLast"}
    BY <1>1, <1>2, <1>5 DEF DequeueTest, PlayType
  <2>2. UNCHANGED <<buf, held, played, nextTag>>
    BY <1>5 DEF DequeueTest, PlayUnchanged, serverVars
  <2>3. PlainLocals
    BY <1>1, <1>2, <1>5, <2>1 DEF DequeueTest, PlainLocals, PlayType, InEnqueue, InCopy
  <2> QED BY <2>1, <2>2, <2>3 DEF PlainPoints
<1>6. CASE DequeueLast
  <2>1. play.pc = "dqLast" /\ play'.pc \in {"dqElem"}
    BY <1>1, <1>6 DEF DequeueLast, PlayType
  <2>2. UNCHANGED <<buf, held, played, nextTag>>
    BY <1>6 DEF DequeueLast, PlayUnchanged, serverVars
  <2>3. PlainLocals
    BY <1>1, <1>6, <2>1 DEF DequeueLast, PlainLocals, PlayType, InEnqueue, InCopy
  <2> QED BY <2>1, <2>2, <2>3 DEF PlainPoints
<1>7. CASE DequeueElem
  <2>1. play.pc = "dqElem" /\ play'.pc \in {"dqStore"}
    BY <1>1, <1>7 DEF DequeueElem, PlayType
  <2>2. UNCHANGED <<buf, held, played, nextTag>>
    BY <1>7 DEF DequeueElem, PlayUnchanged, serverVars
  <2>3. PlainLocals
    BY <1>1, <1>7, <2>1 DEF DequeueElem, PlainLocals, PlayType, InEnqueue, InCopy
  <2> QED BY <2>1, <2>2, <2>3 DEF PlainPoints
<1>8. CASE DequeueLoad
  <2>1. play.pc = "dqLoad" /\ play'.pc \in {"dqDec"}
    BY <1>1, <1>8 DEF DequeueLoad, PlayType
  <2>2. UNCHANGED <<buf, held, played, nextTag>>
    BY <1>8 DEF DequeueLoad, PlayUnchanged, serverVars
  <2>3. PlainLocals
    BY <1>1, <1>8, <2>1 DEF DequeueLoad, PlainLocals, PlayType, InEnqueue, InCopy
  <2> QED BY <2>1, <2>2, <2>3 DEF PlainPoints
<1>9. CASE DequeueDec
  <2>1. play.pc = "dqDec" /\ play'.pc \in {"len"}
    BY <1>1, <1>9 DEF DequeueDec, PlayType
  <2>2. UNCHANGED <<buf, held, played, nextTag>>
    BY <1>9 DEF DequeueDec, PlayUnchanged, serverVars
  <2>3. PlainLocals
    BY <1>1, <1>9, <2>1 DEF DequeueDec, PlainLocals, PlayType, InEnqueue, InCopy
  <2> QED BY <2>1, <2>2, <2>3 DEF PlainPoints
<1>10. CASE ReadLen
  <2>1. play.pc = "len" /\ play'.pc \in {"zero"}
    BY <1>1, <1>3, <1>10 DEF ReadLen, PlayType
  <2>2. UNCHANGED <<buf, held, played, nextTag>>
    BY <1>10 DEF ReadLen, PlayUnchanged, serverVars
  <2>3. PlainLocals
    BY <1>1, <1>3, <1>10, <2>1 DEF ReadLen, PlainLocals, PlayType, InEnqueue, InCopy
  <2> QED BY <2>1, <2>2, <2>3 DEF PlainPoints
<1>11. CASE EnqueueTest
  <2>1. play.pc = "eqTest" /\ play'.pc \in {"eqLoad"}
    BY <1>1, <1>11 DEF EnqueueTest, PlayStep, PlayType
  <2>2. UNCHANGED <<buf, held, played, nextTag>>
    BY <1>11 DEF EnqueueTest, PlayStep, PlayUnchanged, serverVars
  <2>3. PlainLocals
    BY <1>1, <1>11, <2>1
    DEF EnqueueTest, PlayStep, PlainLocals, PlayType, InEnqueue, InCopy
  <2> QED BY <2>1, <2>2, <2>3 DEF PlainPoints
<1>12. CASE EnqueueLoad
  <2>1. play.pc = "eqLoad" /\ play'.pc \in {"eqFirst"}
    BY <1>1, <1>12 DEF EnqueueLoad, PlayType
  <2>2. UNCHANGED <<buf, held, played, nextTag>>
    BY <1>12 DEF EnqueueLoad, PlayUnchanged, serverVars
  <2>3. PlainLocals
    BY <1>1, <1>12, <2>1 DEF EnqueueLoad, PlainLocals, PlayType, InEnqueue, InCopy
  <2> QED BY <2>1, <2>2, <2>3 DEF PlainPoints
<1>13. CASE EnqueueFirst
  <2>1. play.pc = "eqFirst" /\ play'.pc \in {"eqSlot"}
    BY <1>1, <1>13 DEF EnqueueFirst, PlayStep, PlayType
  <2>2. UNCHANGED <<buf, held, played, nextTag>>
    BY <1>13 DEF EnqueueFirst, PlayStep, PlayUnchanged, serverVars
  <2>3. PlainLocals
    BY <1>1, <1>13, <2>1
    DEF EnqueueFirst, PlayStep, PlainLocals, PlayType, InEnqueue, InCopy
  <2> QED BY <2>1, <2>2, <2>3 DEF PlainPoints
<1>14. CASE EnqueueReload
  <2>1. play.pc = "eqReload" /\ play'.pc \in {"eqInc"}
    BY <1>1, <1>14 DEF EnqueueReload, PlayType
  <2>2. UNCHANGED <<buf, held, played, nextTag>>
    BY <1>14 DEF EnqueueReload, PlayUnchanged, serverVars
  <2>3. PlainLocals
    BY <1>1, <1>14, <2>1 DEF EnqueueReload, PlainLocals, PlayType, InEnqueue, InCopy
  <2> QED BY <2>1, <2>2, <2>3 DEF PlainPoints
<1>15. CASE EnqueueInc
  <2>1. play.pc = "eqInc" /\ play'.pc \in {"hdr", "chk"}
    BY <1>1, <1>15 DEF EnqueueInc, PlayType
  <2>2. UNCHANGED <<buf, held, played, nextTag>>
    BY <1>15 DEF EnqueueInc, PlayUnchanged, serverVars
  <2>3. PlainLocals
    BY <1>1, <1>15, <2>1 DEF EnqueueInc, PlainLocals, PlayType, InEnqueue, InCopy
  <2> QED BY <2>1, <2>2, <2>3 DEF PlainPoints
<1>16. CASE HeaderTest
  <2>1. play.pc = "hdr" /\ play'.pc \in {"dqTest", "cp1"}
    BY <1>1, <1>16 DEF HeaderTest, PlayType
  <2>2. UNCHANGED <<buf, held, played, nextTag>>
    BY <1>16 DEF HeaderTest, PlayUnchanged, serverVars
  <2>3. PlainLocals
    BY <1>1, <1>16, <2>1 DEF HeaderTest, PlainLocals, PlayType, InEnqueue, InCopy
  <2> QED BY <2>1, <2>2, <2>3 DEF PlainPoints
<1>17. CASE CopyFirstHalf
  <2>1. play.pc = "cp1" /\ play'.pc \in {"cp2"}
    BY <1>1, <1>17 DEF CopyFirstHalf, PlayType
  <2>2. UNCHANGED <<buf, held, played, nextTag>>
    BY <1>17 DEF CopyFirstHalf, PlayUnchanged, serverVars
  <2>3. PlainLocals
    BY <1>1, <1>17, <2>1 DEF CopyFirstHalf, PlainLocals, PlayType, InEnqueue, InCopy
  <2> QED BY <2>1, <2>2, <2>3 DEF PlainPoints
<1>18. CASE SendChunk
  <2>1. play.pc = "send" /\ play'.pc \in {"dly"}
    BY <1>1, <1>18 DEF SendChunk, PlayType
  <2>2. UNCHANGED <<buf, held, played, nextTag>>
    BY <1>18 DEF SendChunk, PlayUnchanged, serverVars
  <2>3. PlainLocals
    BY <1>1, <1>18, <2>1 DEF SendChunk, PlainLocals, PlayType, InEnqueue, InCopy
  <2> QED BY <2>1, <2>2, <2>3 DEF PlainPoints
<1>19. CASE Tick
  <2>1. play.pc = "dly" /\ play'.pc \in {"send", "chk"}
    BY <1>1, <1>19 DEF Tick, PlayType
  <2>2. UNCHANGED <<buf, held, played, nextTag>>
    BY <1>19 DEF Tick, PlayUnchanged, serverVars
  <2>3. PlainLocals
    BY <1>1, <1>19, <2>1 DEF Tick, PlainLocals, PlayType, InEnqueue, InCopy
  <2> QED BY <2>1, <2>2, <2>3 DEF PlainPoints
<1>20. CASE PlayCheckLine
  <2>1. play.pc = "chk" /\ play'.pc \in {"dqTest", "pend"}
    BY <1>1, <1>20 DEF PlayCheckLine, PlayStep, PlayType
  <2>2. UNCHANGED <<buf, held, played, nextTag>>
    BY <1>20 DEF PlayCheckLine, PlayStep, PlayUnchanged, serverVars
  <2>3. PlainLocals
    BY <1>1, <1>20, <2>1
    DEF PlayCheckLine, PlayStep, PlainLocals, PlayType, InEnqueue, InCopy
  <2> QED BY <2>1, <2>2, <2>3 DEF PlainPoints
<1> QED BY <1>4, <1>5, <1>6, <1>7, <1>8, <1>9, <1>10, <1>11, <1>12, <1>13, <1>14,
           <1>15, <1>16, <1>17, <1>18, <1>19, <1>20 DEF Plain

(* And moves no buffer.                                                    *)
LEMMA PlainKept ==
    ASSUME IInv, RingInv, Plain
    PROVE  Kept
  BY QuietRing, DequeueLastRing, DequeueElemRing, EnqueueLoadRing, EnqueueFirstRing
  DEF Plain, Quiet

(* If no buffer moves and none is written, the order of the ring stays and *)
(* what is due stays due.                                                  *)
LEMMA KeptOrder ==
    ASSUME Fresh, Ordered, Kept, UNCHANGED <<buf, played, nextTag>>
    PROVE  /\ Fresh' /\ Ordered'
           /\ \A b : Live(b)' <=> Live(b)
<1>1. Places' = Places
  BY DEF Kept, Places
<1>2. Fresh'
  BY DEF Fresh, Buffers
<1>3. \A b : Live(b)' <=> Live(b)
  BY DEF Live
<1>4. Ordered'
  BY <1>1, <1>3 DEF Ordered, Kept
<1> QED BY <1>2, <1>3, <1>4

(* The buffer task_play has stays the next one to play.                    *)
LEMMA KeptDue ==
    ASSUME Kept, UNCHANGED <<buf, played>>, play'.elem = play.elem,
           Due(play.elem)
    PROVE  Due(play.elem)'
<1>1. Places' = Places
  BY DEF Kept, Places
<1> QED BY <1>1 DEF Kept, Due, Live

(* A plain step keeps the order of the frames.                             *)
LEMMA PlainFrame ==
    ASSUME IInv, RingInv, FrameInv, Plain
    PROVE  FrameInv'
<1>1. /\ <<play.pc, play'.pc>> \in PlainPoints
      /\ UNCHANGED <<buf, held, played, nextTag>>
      /\ PlainLocals
  BY PlainEffect
<1>2. Kept
  BY PlainKept
<1>3. /\ Fresh' /\ Ordered'
      /\ \A b : Live(b)' <=> Live(b)
  BY <1>1, <1>2, KeptOrder DEF FrameInv
<1>4. Reading' => Due(play.elem)'
  <2> SUFFICES ASSUME Reading' PROVE Due(play.elem)'
    OBVIOUS
  <2>1. play'.pc \in {"dqDec", "len", "zero"} \cup InEnqueue \cup InCopy
    BY <1>1 DEF Reading, PlainPoints, InEnqueue, InCopy
  <2>2. play'.elem = play.elem
    BY <1>1, <2>1 DEF PlainLocals
  <2>3. Due(play.elem)
    <3>1. CASE play'.pc \in {"dqDec", "len"}
      <4>1. Live(play.elem)
        BY <1>1, <2>2, <3>1 DEF Reading, Live, InEnqueue, InCopy
      <4>2. Reading
        BY <1>1, <3>1, <4>1 DEF Reading, PlainPoints
      <4> QED BY <4>2 DEF FrameInv, NextToPlay
    <3>2. CASE play'.pc = "zero"
      <4>1. buf[play.elem].len > 0
        BY <1>1, <3>2 DEF Reading, PlainLocals, InCopy
      <4>2. play.pc = "len"
        BY <1>1, <3>2 DEF PlainPoints
      <4>3. CASE buf[play.elem].tag > 0
        BY <4>1, <4>2, <4>3 DEF FrameInv, NextToPlay, Reading, Live
      <4> QED BY <4>3 DEF Due
    <3>3. CASE play'.pc \in InEnqueue
      <4>1. play.len > 0 /\ play.pc \in InEnqueue
        BY <1>1, <3>3 DEF Reading, PlainLocals, PlainPoints, InEnqueue, InCopy
      <4> QED BY <4>1 DEF FrameInv, NextToPlay, Reading
    <3>4. CASE play'.pc \in InCopy
      <4>1. play.pc \in InCopy \/ (play.pc \in InEnqueue /\ play.len > 0)
        BY <1>1, <3>4 DEF PlainLocals, PlainPoints, InEnqueue, InCopy
      <4> QED BY <4>1 DEF FrameInv, NextToPlay, Reading
    <3> QED BY <2>1, <3>1, <3>2, <3>3, <3>4
  <2> QED BY <1>1, <1>2, <2>2, <2>3, KeptDue
<1>5. play'.pc \in InEnqueue \cup InCopy => buf'[play'.elem].len = 0
  <2>1. play'.pc \in InEnqueue \cup InCopy => play.pc \in InEnqueue \cup InCopy
    BY <1>1 DEF PlainPoints, InEnqueue, InCopy
  <2> QED BY <1>1, <2>1 DEF PlainLocals, FrameInv, NextToPlay
<1>6. NextToPlay'
  BY <1>4, <1>5 DEF NextToPlay
<1>7. ~Removed' => Queued' = RcvBufferNum - 1 /\ Queued = Queued'
  BY <1>2 DEF Kept, Queued
<1>8. play'.pc = "eqInc" => Ring'[0] = play'.elem
  <2> SUFFICES ASSUME play'.pc = "eqInc" PROVE Ring'[0] = play'.elem
    OBVIOUS
  <2>1. play.pc = "eqReload" /\ play'.elem = play.elem
    BY <1>1 DEF PlainLocals, PlainPoints, InEnqueue
  <2>2. 0 \in Places
    BY <1>7, BuffersAssumption DEF Places, Removed, PlayOut
  <2> QED BY <1>2, <2>1, <2>2 DEF Kept, FrameInv, Copying
<1>9. play'.pc \in InCopy =>
         /\ burst' < RcvBufferNum
         /\ IF burst' = RcvBufferNum - 1 THEN held' = play'.elem
            ELSE Ring'[burst'] = play'.elem
  <2> SUFFICES ASSUME play'.pc \in InCopy
               PROVE  /\ burst' < RcvBufferNum
                      /\ IF burst' = RcvBufferNum - 1 THEN held' = play'.elem
                         ELSE Ring'[burst'] = play'.elem
    OBVIOUS
  <2>1. Queued = RcvBufferNum - 1 /\ Queued' = Queued /\ play'.elem = play.elem
    BY <1>1, <1>7 DEF Removed, PlayOut, InCopy, PlainLocals
  <2>2. CASE play'.pc = "hdr"
    <3>1. burst' = 0 /\ play.pc = "eqInc" /\ 0 \in Places /\ RcvBufferNum > 1
      BY <1>1, <2>1, <2>2, BuffersAssumption DEF PlainLocals, PlainPoints, Places
    <3>2. Ring'[0] = Ring[0] /\ Ring[0] = play.elem
      BY <1>2, <3>1 DEF Kept, FrameInv, Copying
    <3> QED BY <2>1, <3>1, <3>2, BuffersAssumption
  <2>3. CASE play'.pc \in {"cp1", "cp2"}
    <3>1. burst' = burst /\ play.pc \in InCopy
      BY <1>1, <2>3 DEF PlainLocals, PlainPoints, InCopy
    <3>2. /\ burst < RcvBufferNum
          /\ IF burst = RcvBufferNum - 1 THEN held = play.elem ELSE Ring[burst] = play.elem
      BY <3>1 DEF FrameInv, Copying
    <3>3. burst # RcvBufferNum - 1 => burst \in Places
      BY <2>1, <3>2, BuffersAssumption DEF IInv, TypeOK, Places
    <3> QED BY <1>1, <1>2, <2>1, <3>1, <3>2, <3>3 DEF Kept
  <2> QED BY <2>2, <2>3 DEF InCopy
<1>10. play'.pc = "cp2" => play'.pbuff[1] = buf'[play'.elem].tag
  BY <1>1 DEF PlainLocals, InCopy
<1>11. FrameWhole'
  <2>1. play'.pc \in {"send", "dly"} => play.pc \in {"send", "dly"}
    BY <1>1 DEF PlainPoints
  <2> QED BY <1>1, <2>1 DEF PlainLocals, FrameInv, Copying, FrameWhole
<1>12. play'.pc # "eqReload"
  BY <1>1 DEF PlainPoints
<1>13. Copying'
  BY <1>8, <1>9, <1>10, <1>11, <1>12 DEF Copying
<1> QED BY <1>3, <1>6, <1>13 DEF FrameInv

(* prcv_buff->len = 0: the buffer written is not in the ring.              *)
LEMMA ZeroLenFrame ==
    ASSUME IInv, RingInv, FrameInv, ZeroLen
    PROVE  FrameInv'
<1>1. /\ play \in PlayType /\ buf \in [Buffers -> BufferRecord]
  BY DEF IInv, TypeOK
<1>2. /\ play.pc = "zero" /\ play'.pc = "eqTest" /\ play'.elem = play.elem
      /\ play'.len = play.len
      /\ buf' = [buf EXCEPT ![play.elem].len = 0]
      /\ played' = played /\ nextTag' = nextTag
  BY <1>1 DEF ZeroLen, PlayStep, PlayUnchanged, PlayType
<1>3. Kept
  BY QuietRing DEF Quiet
<1>4. Removed /\ play.elem \in Buffers
      /\ \A i \in Places : Ring[i] \in Buffers /\ Ring[i] # play.elem
  BY <1>2 DEF RingInv, Distinct, Removed, PlayOut
<1>5. /\ \A b \in Buffers : buf'[b].tag = buf[b].tag
      /\ \A b \in Buffers : b # play.elem => buf'[b] = buf[b]
      /\ buf'[play.elem].len = 0
  BY <1>1, <1>2, <1>4 DEF BufferRecord
<1>6. /\ Places' = Places
      /\ \A i \in Places : Ring'[i] = Ring[i] /\ buf'[Ring[i]] = buf[Ring[i]]
  BY <1>3, <1>4, <1>5 DEF Kept, Places
<1>7. Fresh'
  BY <1>2, <1>5 DEF FrameInv, Fresh, Buffers
<1>8. Ordered'
  BY <1>2, <1>6 DEF FrameInv, Ordered, Live
<1>9. Reading' => Due(play.elem)'
  <2> SUFFICES ASSUME Reading' PROVE Due(play.elem)'
    OBVIOUS
  <2>1. play.len > 0
    BY <1>2 DEF Reading, InCopy
  <2>2. Due(play.elem)
    BY <1>2, <2>1 DEF FrameInv, NextToPlay, Reading
  <2> QED BY <1>2, <1>4, <1>5, <1>6, <2>2 DEF Due, Live
<1>10. NextToPlay'
  BY <1>2, <1>5, <1>9 DEF NextToPlay
<1>11. Copying'
  BY <1>2 DEF Copying, FrameWhole, InCopy
<1> QED BY <1>7, <1>8, <1>10, <1>11 DEF FrameInv

(* The end of the copy: the frame is whole, and what is in the ring was    *)
(* received after it.                                                      *)
LEMMA CopySecondHalfFrame ==
    ASSUME IInv, RingInv, FrameInv, CopySecondHalf
    PROVE  /\ FrameInv'
           /\ play'.pbuff[2] > 0 => play'.pbuff[2] > played
<1> DEFINE tag == buf[play.elem].tag
<1>1. /\ play \in PlayType /\ buf \in [Buffers -> BufferRecord]
      /\ played \in Nat /\ nextTag \in Nat
  BY BoundsAssumption DEF IInv, TypeOK
<1>2. /\ play.pc = "cp2" /\ play'.pc = "send"
      /\ play'.pbuff = <<play.pbuff[1], tag>>
      /\ buf' = buf /\ nextTag' = nextTag
      /\ played' = IF tag > played THEN tag ELSE played
  BY <1>1 DEF CopySecondHalf, PlayUnchanged, PlayType
<1>3. play.elem \in Buffers /\ tag \in Nat
  <2>1. play.elem \in Buffers
    BY <1>2 DEF IInv, LocalsOK, InCopy
  <2> QED BY <1>1, <2>1, BoundsAssumption DEF BufferRecord
<1>4. Kept
  BY QuietRing DEF Quiet
<1>5. Due(play.elem) /\ play.pbuff[1] = tag
  BY <1>2 DEF FrameInv, NextToPlay, Reading, Copying, InCopy
<1>6. tag > 0 => /\ tag > played
                 /\ \A i \in Places : Live(Ring[i]) => buf[Ring[i]].tag > tag
  BY <1>5 DEF Due
<1>7. Places' = Places /\ \A i \in Places : Ring'[i] = Ring[i]
  BY <1>4 DEF Kept, Places
<1>8. /\ played < nextTag /\ \A b \in Buffers : buf[b].tag < nextTag
      /\ \A i \in Places : Live(Ring[i]) => buf[Ring[i]].tag > played
      /\ \A i, j \in Places :
            i < j /\ Live(Ring[i]) /\ Live(Ring[j]) => buf[Ring[i]].tag > buf[Ring[j]].tag
  BY DEF FrameInv, Fresh, Ordered
<1>9. tag < nextTag
  BY <1>3, <1>8
<1> HIDE DEF tag
<1>10. Fresh'
  BY <1>2, <1>8, <1>9 DEF Fresh, Buffers
<1>11. \A b : Live(b)' <=> Live(b)
  BY <1>2 DEF Live
<1>12. \A i \in Places : Live(Ring[i]) => buf[Ring[i]].tag > played'
  BY <1>1, <1>2, <1>3, <1>6, <1>8
<1>13. Ordered'
  BY <1>2, <1>7, <1>8, <1>11, <1>12 DEF Ordered, Live
<1>14. NextToPlay'
  BY <1>2 DEF NextToPlay, Reading, InEnqueue, InCopy
<1>15. play'.pbuff[1] = play'.pbuff[2] /\ play'.pbuff[2] = tag
  BY <1>2, <1>5
<1>16. Copying'
  BY <1>2, <1>15 DEF Copying, FrameWhole, InCopy
<1>17. play'.pbuff[2] > 0 => play'.pbuff[2] > played
  BY <1>6, <1>15
<1> QED BY <1>10, <1>13, <1>14, <1>16, <1>17 DEF FrameInv

(* The buffer taken from the back of the ring is the oldest one.           *)
LEMMA DequeueStoreFrame ==
    ASSUME IInv, RingInv, FrameInv, DequeueStore
    PROVE  FrameInv'
<1>1. play \in PlayType
  BY DEF IInv, TypeOK
<1>2. /\ play.pc = "dqStore" /\ play'.pc = "dqLoad"
      /\ buf' = buf /\ played' = played /\ nextTag' = nextTag
  BY <1>1 DEF DequeueStore, PlayStep, PlayUnchanged, PlayType
<1>3. Taken
  BY DequeueStoreRing
<1>4. /\ Queued \in Nat /\ Queued - 1 \in Places
      /\ \A i \in Places' : /\ i \in Places /\ i < Queued - 1
                            /\ Ring'[i] = Ring[i]
  BY <1>3, QueuedFits DEF Taken, Places
<1>5. \A b : Live(b)' <=> Live(b)
  BY <1>2 DEF Live
<1>6. Fresh'
  BY <1>2 DEF FrameInv, Fresh, Buffers
<1>7. Ordered'
  BY <1>2, <1>4, <1>5 DEF FrameInv, Ordered, Live
<1>8. Reading' => Due(play.elem)'
  <2> SUFFICES ASSUME Reading' PROVE Due(play.elem)'
    OBVIOUS
  <2>1. play'.elem = Ring[Queued - 1]
    BY <1>3 DEF Taken
  <2>2. Live(Ring[Queued - 1])
    BY <1>2, <2>1 DEF Reading, Live, InEnqueue, InCopy
  <2>3. /\ buf[Ring[Queued - 1]].tag > played
        /\ \A i \in Places : i < Queued - 1 /\ Live(Ring[i]) =>
              buf[Ring[i]].tag > buf[Ring[Queued - 1]].tag
    BY <1>4, <2>2 DEF FrameInv, Ordered
  <2> QED BY <1>2, <1>4, <2>1, <2>3 DEF Due, Live
<1>9. NextToPlay'
  BY <1>2, <1>8 DEF NextToPlay, InEnqueue, InCopy
<1>10. Copying'
  BY <1>2 DEF Copying, FrameWhole, InCopy
<1> QED BY <1>6, <1>7, <1>9, <1>10 DEF FrameInv

(* The buffer given back is in front of the ring and counts as read.       *)
LEMMA EnqueueSlotFrame ==
    ASSUME IInv, RingInv, FrameInv, EnqueueSlot
    PROVE  FrameInv'
<1>1. play \in PlayType
  BY DEF IInv, TypeOK
<1>2. /\ play.pc = "eqSlot" /\ play'.pc = "eqReload"
      /\ play'.elem = play.elem /\ play'.len = play.len
      /\ buf' = buf /\ played' = played /\ nextTag' = nextTag
  BY <1>1 DEF EnqueueSlot, PlayStep, PlayUnchanged, PlayType
<1>3. Given /\ Ring'[0] = play'.elem
  BY EnqueueSlotRing
<1>4. /\ Ring'[0] = play.elem
      /\ \A i \in Places' : i # 0 => /\ i - 1 \in Places
                                     /\ Ring'[i] = Ring[i - 1]
      /\ \A i \in Places' : i \in Int /\ i >= 0
  BY <1>2, <1>3, QueuedFits DEF Given, Places
<1>5. \A b : Live(b)' <=> Live(b)
  BY <1>2 DEF Live
<1>6. buf[play.elem].len = 0
  BY <1>2 DEF FrameInv, NextToPlay, InEnqueue
<1>7. ~Live(play.elem)
  BY <1>6 DEF Live
<1>8. Fresh'
  BY <1>2 DEF FrameInv, Fresh, Buffers
<1>9. \A i, j \in Places' :
         i < j /\ Live(Ring'[i]) /\ Live(Ring'[j]) => buf[Ring'[i]].tag > buf[Ring'[j]].tag
  <2> TAKE i, j \in Places'
  <2> HAVE i < j /\ Live(Ring'[i]) /\ Live(Ring'[j])
  <2>1. i # 0 /\ j # 0
    BY <1>4, <1>7
  <2>2. i - 1 < j - 1 /\ i - 1 \in Places /\ j - 1 \in Places
        /\ Ring'[i] = Ring[i - 1] /\ Ring'[j] = Ring[j - 1]
    BY <1>4, <2>1
  <2> QED BY <2>2 DEF FrameInv, Ordered
<1>10. \A i \in Places' : Live(Ring'[i]) => buf[Ring'[i]].tag > played
  BY <1>4, <1>7 DEF FrameInv, Ordered
<1>11. Ordered'
  BY <1>2, <1>9, <1>10 DEF Ordered, Live
<1>12. Reading' => Due(play.elem)'
  <2> SUFFICES ASSUME Reading' PROVE Due(play.elem)'
    OBVIOUS
  <2>1. Reading
    BY <1>2 DEF Reading, InEnqueue, InCopy
  <2>2. Due(play.elem)
    BY <2>1 DEF FrameInv, NextToPlay
  <2>3. buf[play.elem].tag > 0 =>
           /\ buf[play.elem].tag > played
           /\ \A i \in Places' : Live(Ring'[i]) => buf[Ring'[i]].tag > buf[play.elem].tag
    BY <1>4, <1>7, <2>2 DEF Due
  <2> QED BY <1>2, <2>3 DEF Due, Live
<1>13. NextToPlay'
  BY <1>2, <1>6, <1>12 DEF NextToPlay
<1>14. Copying'
  BY <1>2, <1>3 DEF Copying, FrameWhole, InCopy
<1> QED BY <1>8, <1>11, <1>13, <1>14 DEF FrameInv

(* The record the server leaves in the buffer it held: what it received is *)
(* the youngest frame, or not a tagged frame at all.                       *)
LEMMA ServerStores ==
    ASSUME IInv, Fresh, HeldBuffer, NEW d \in BufferRecord, NEW peer,
           ServerReceive(d, peer),
           \/ d.tag = 0 /\ nextTag' = nextTag
           \/ d.tag = nextTag /\ nextTag' = nextTag + 1
    PROVE  /\ \A b \in Buffers : b # held => buf'[b] = buf[b]
           /\ buf'[held].tag < nextTag'
           /\ buf'[held].len > 0 /\ buf'[held].tag > 0 => buf'[held].tag = nextTag
           /\ nextTag' >= nextTag /\ nextTag \in Nat /\ nextTag > played
           /\ played \in Nat
<1> DEFINE got  == Stored(held, d)
           kept == IF got.kind \in Commands THEN [got EXCEPT !.len = 0] ELSE got
<1>1. /\ buf \in [Buffers -> BufferRecord] /\ held \in Buffers
      /\ nextTag \in Nat /\ nextTag > 0 /\ played \in Nat
  BY BoundsAssumption DEF IInv, TypeOK, HeldBuffer
<1>2. buf' = [buf EXCEPT ![held] = kept]
  BY DEF ServerReceive
<1>3. /\ got \in BufferRecord
      /\ d.len = 0 => got.len = 0 /\ got.tag = buf[held].tag
      /\ d.len # 0 => got = d
  BY <1>1 DEF Stored, BufferRecord
<1>4. /\ buf[held].tag < nextTag /\ nextTag > played
      /\ d.len \in {0, 1}
  BY <1>1 DEF Fresh, BufferRecord
<1> HIDE DEF got
<1>5. kept.tag = got.tag /\ (kept.len = 0 \/ kept = got)
  BY <1>3 DEF BufferRecord
<1> HIDE DEF kept
<1>6. buf'[held] = kept /\ \A b \in Buffers : b # held => buf'[b] = buf[b]
  BY <1>1, <1>2
<1>7. nextTag' >= nextTag /\ kept.tag < nextTag'
  <2>1. buf[held].tag \in Nat /\ nextTag' \in Nat /\ nextTag' >= nextTag
    BY <1>1, BoundsAssumption DEF BufferRecord
  <2>2. CASE d.len = 0
    BY <1>1, <1>3, <1>4, <1>5, <2>1, <2>2
  <2>3. CASE d.len # 0
    <3>1. kept.tag = d.tag
      BY <1>3, <1>5, <2>3
    <3>2. d.tag < nextTag'
      BY <1>1
    <3> QED BY <2>1, <3>1, <3>2
  <2> QED BY <2>2, <2>3
<1>8. kept.len > 0 /\ kept.tag > 0 => kept.tag = nextTag
  BY <1>1, <1>3, <1>4, <1>5
<1> QED BY <1>1, <1>4, <1>6, <1>7, <1>8

(* A turn of the server keeps the order of the frames, as long as fewer    *)
(* datagrams than there are buffers arrive while task_play copies one.     *)
LEMMA ServerFrame ==
    ASSUME IInv, RingInv, FrameInv, ~PreemptQueue,
           MaxBurst \in Nat, MaxBurst < RcvBufferNum,
           NEW d \in BufferRecord, NEW peer, ServerReceive(d, peer),
           \/ d.tag = 0 /\ nextTag' = nextTag
           \/ d.tag = nextTag /\ nextTag' = nextTag + 1
    PROVE  FrameInv'
<1>1. Rotated
  <2>1. play.pc \notin Torn
    BY DEF ServerReceive, MayArrive, Torn, InDequeue, InEnqueue
  <2> QED BY <2>1, ServerRotates DEF RingInv
<1>2. /\ \A b \in Buffers : b # held => buf'[b] = buf[b]
      /\ buf'[held].tag < nextTag'
      /\ buf'[held].len > 0 /\ buf'[held].tag > 0 => buf'[held].tag = nextTag
      /\ nextTag' >= nextTag /\ nextTag \in Nat /\ nextTag > played
      /\ played \in Nat
  BY ServerStores DEF RingInv, FrameInv
<1>3. /\ play' = play /\ played' = played
      /\ play.pc \notin InDequeue \cup InEnqueue
      /\ play.pc \in InCopy => burst < MaxBurst /\ burst' = burst + 1
      /\ nextTag' \in Nat
  <2>1. MaxBurst # Boundless
    BY BoundsAssumption
  <2>2. /\ play' = play /\ played' = played
        /\ play.pc \in InDequeue \cup InEnqueue => PreemptQueue
        /\ play.pc \in InCopy => burst < MaxBurst /\ burst' = burst + 1
    BY <2>1, Zenon DEF ServerReceive, MayArrive
  <2>3. nextTag' \in Nat
    BY <1>2
  <2> QED BY <2>2, <2>3
<1>4. /\ held \in Buffers /\ burst \in Nat
      /\ RcvBufferNum \in Nat
      /\ \A b \in Buffers : buf[b].tag \in Nat /\ buf[b].tag < nextTag
  BY BuffersAssumption, BoundsAssumption
  DEF IInv, TypeOK, RingInv, HeldBuffer, FrameInv, Fresh, BufferRecord
<1>5. /\ Places' = Places
      /\ \A i \in Places : /\ Ring[i] \in Buffers /\ Ring[i] # held
                            /\ buf'[Ring[i]] = buf[Ring[i]]
      /\ \A i \in Places : i \in Int /\ i >= 0 /\ (i # 0 => i - 1 \in Places)
      /\ \A i \in Places : Ring'[i] = IF i = 0 THEN held ELSE Ring[i - 1]
  BY <1>1, <1>2, QueuedFits DEF Rotated, Places, RingInv, Distinct
<1>6. Fresh'
  BY <1>2, <1>3, <1>4 DEF Fresh, Buffers
<1>7. \A i \in Places :
         /\ i = 0 => Ring'[i] = held
         /\ i # 0 => /\ i - 1 \in Places /\ Ring'[i] = Ring[i - 1]
                     /\ buf'[Ring'[i]] = buf[Ring[i - 1]]
  BY <1>5
<1>8. Ordered'
  <2>1. \A i, j \in Places :
           /\ i < j
           /\ buf'[Ring'[i]].len > 0 /\ buf'[Ring'[i]].tag > 0
           /\ buf'[Ring'[j]].len > 0 /\ buf'[Ring'[j]].tag > 0
           => buf'[Ring'[i]].tag > buf'[Ring'[j]].tag
    <3> TAKE i, j \in Places
    <3> HAVE /\ i < j
             /\ buf'[Ring'[i]].len > 0 /\ buf'[Ring'[i]].tag > 0
             /\ buf'[Ring'[j]].len > 0 /\ buf'[Ring'[j]].tag > 0
    <3>1. j # 0 /\ j - 1 \in Places /\ buf'[Ring'[j]] = buf[Ring[j - 1]]
          /\ Ring[j - 1] \in Buffers
      BY <1>5, <1>7
    <3>2. CASE i = 0
      <4>1. buf'[Ring'[i]].tag = nextTag
        BY <1>2, <1>7, <3>2
      <4>2. buf'[Ring'[j]].tag < nextTag /\ buf'[Ring'[j]].tag \in Nat
        BY <1>4, <3>1
      <4> QED BY <1>2, <4>1, <4>2
    <3>3. CASE i # 0
      <4>1. /\ i - 1 \in Places /\ buf'[Ring'[i]] = buf[Ring[i - 1]]
            /\ i - 1 < j - 1
        BY <1>5, <1>7, <3>3
      <4>2. Live(Ring[i - 1]) /\ Live(Ring[j - 1])
        BY <3>1, <4>1 DEF Live
      <4>3. buf[Ring[i - 1]].tag > buf[Ring[j - 1]].tag
        BY <3>1, <4>1, <4>2 DEF FrameInv, Ordered
      <4> QED BY <3>1, <4>1, <4>3
    <3> QED BY <3>2, <3>3
  <2>2. \A i \in Places :
           buf'[Ring'[i]].len > 0 /\ buf'[Ring'[i]].tag > 0 => buf'[Ring'[i]].tag > played
    <3> TAKE i \in Places
    <3>1. CASE i = 0
      BY <1>2, <1>7, <3>1
    <3>2. CASE i # 0
      BY <1>7, <3>2 DEF FrameInv, Ordered, Live
    <3> QED BY <3>1, <3>2
  <2> QED BY <1>3, <1>5, <2>1, <2>2 DEF Ordered, Live
<1>9. play.pc \in {"len", "zero"} \cup InCopy => play.elem \in Buffers /\ play.elem # held
  <2>1. CASE play.pc \in {"len", "zero"}
    BY <2>1 DEF RingInv, Distinct, Removed, PlayOut
  <2>2. CASE play.pc \in InCopy
    <3>1. burst < RcvBufferNum - 1 /\ burst \in Places
      <4>1. Queued = RcvBufferNum - 1
        BY <2>2 DEF Queued, Removed, PlayOut, InCopy
      <4>2. burst < RcvBufferNum - 1
        BY <1>3, <1>4, <2>2
      <4> QED BY <1>4, <4>1, <4>2 DEF Places
    <3>2. Ring[burst] = play.elem
      BY <1>4, <2>2, <3>1 DEF FrameInv, Copying
    <3> QED BY <1>5, <3>1, <3>2
  <2> QED BY <2>1, <2>2
<1>10. play.pc \in {"len", "zero"} \cup InCopy => buf'[play.elem] = buf[play.elem]
  BY <1>2, <1>9
<1>11. Reading' => Due(play.elem)'
  <2> SUFFICES ASSUME Reading' PROVE Due(play.elem)'
    OBVIOUS
  <2>1. play.pc \in {"len", "zero"} \cup InCopy
    BY <1>3 DEF Reading, InDequeue, InEnqueue
  <2>2. Reading
    BY <1>3, <1>10, <2>1 DEF Reading, Live, InDequeue, InEnqueue
  <2>3. Due(play.elem)
    BY <2>2 DEF FrameInv, NextToPlay
  <2>4. \A i \in Places :
           buf[play.elem].tag > 0 /\ buf'[Ring'[i]].len > 0 /\ buf'[Ring'[i]].tag > 0
           => buf'[Ring'[i]].tag > buf[play.elem].tag
    <3> TAKE i \in Places
    <3>1. CASE i = 0
      BY <1>2, <1>4, <1>7, <1>9, <2>1, <3>1
    <3>2. CASE i # 0
      BY <1>7, <2>3, <3>2 DEF Due, Live
    <3> QED BY <3>1, <3>2
  <2> QED BY <1>3, <1>5, <1>10, <2>1, <2>3, <2>4 DEF Due, Live
<1>12. NextToPlay'
  BY <1>3, <1>10, <1>11 DEF NextToPlay, FrameInv
<1>13. play.pc \in InCopy =>
          /\ burst' < RcvBufferNum
          /\ IF burst' = RcvBufferNum - 1 THEN held' = play.elem
             ELSE Ring'[burst'] = play.elem
  <2> SUFFICES ASSUME play.pc \in InCopy
               PROVE  /\ burst' < RcvBufferNum
                      /\ IF burst' = RcvBufferNum - 1 THEN held' = play.elem
                         ELSE Ring'[burst'] = play.elem
    OBVIOUS
  <2>1. Queued = RcvBufferNum - 1
    BY DEF Queued, Removed, PlayOut, InCopy
  <2>2. burst' = burst + 1 /\ burst < RcvBufferNum - 1
    BY <1>3, <1>4
  <2>3. Ring[burst] = play.elem
    BY <1>4, <2>2 DEF FrameInv, Copying
  <2>4. CASE burst' = RcvBufferNum - 1
    <3>1. burst = Queued - 1 /\ Queued # 0
      BY <1>4, <2>1, <2>2, <2>4
    <3>2. held' = Ring[Queued - 1]
      BY <1>1, <3>1 DEF Rotated
    <3> QED BY <1>4, <2>2, <2>3, <2>4, <3>1, <3>2
  <2>5. CASE burst' # RcvBufferNum - 1
    <3>1. burst' \in Places /\ burst' # 0 /\ burst' - 1 = burst /\ burst' < RcvBufferNum
      BY <1>4, <2>1, <2>2, <2>5 DEF Places
    <3>2. Ring'[burst'] = Ring[burst]
      BY <1>7, <3>1
    <3> QED BY <2>3, <2>5, <3>1, <3>2
  <2> QED BY <2>4, <2>5
<1>14. play.pc = "cp2" => play.pbuff[1] = buf'[play.elem].tag
  BY <1>10 DEF FrameInv, Copying, InCopy
<1>15. Copying'
  BY <1>3, <1>13, <1>14 DEF Copying, FrameWhole, FrameInv, InEnqueue
<1> QED BY <1>6, <1>8, <1>12, <1>15 DEF FrameInv

(* Initially nothing has been received.                                    *)
LEMMA InitFrame == Init => FrameInv
<1> SUFFICES ASSUME Init PROVE FrameInv
  OBVIOUS
<1>1. /\ play.pc = "pend" /\ nextTag = 1 /\ played = 0
      /\ buf = [b \in Buffers |-> [kind |-> "PCM", tag |-> 0, len |-> 0]]
  BY DEF Init
<1>2. RingInv
  BY InitRing
<1>3. \A b \in Buffers : buf[b].tag = 0 /\ ~Live(b)
  BY <1>1 DEF Live
<1>4. \A i \in Places : Ring[i] \in Buffers
  BY <1>2 DEF RingInv, Distinct
<1>5. Fresh
  BY <1>1, <1>3 DEF Fresh
<1>6. Ordered
  BY <1>3, <1>4 DEF Ordered
<1>7. NextToPlay
  BY <1>1 DEF NextToPlay, Reading, InEnqueue, InCopy
<1>8. Copying
  BY <1>1 DEF Copying, FrameWhole, InCopy
<1> QED BY <1>5, <1>6, <1>7, <1>8 DEF FrameInv

(* What leaves the queue, the buffers and task_play alone keeps the order. *)
LEMMA ElsewhereFrame ==
    ASSUME RingInv, FrameInv,
           UNCHANGED <<dq, buf, held, play, nextTag, played, burst>>
    PROVE  FrameInv'
<1>1. Kept
  BY ElsewhereRing
<1>2. Fresh' /\ Ordered' /\ \A b : Live(b)' <=> Live(b)
  BY <1>1, KeptOrder DEF FrameInv
<1>3. Reading' => Due(play.elem)'
  <2>1. Reading' => Reading
    BY DEF Reading, Live
  <2> QED BY <1>1, <2>1, KeptDue DEF FrameInv, NextToPlay
<1>4. NextToPlay'
  BY <1>3 DEF NextToPlay, FrameInv
<1>5. Ring' = Ring
  <2>1. Front' = Front /\ Places' = Places
    BY DEF Front, Places, Queued, Removed, PlayOut
  <2> QED BY <2>1 DEF Ring
<1>6. Copying'
  BY <1>5 DEF FrameInv, Copying, FrameWhole
<1> QED BY <1>2, <1>4, <1>6 DEF FrameInv

(* Every step keeps the order of the frames.                               *)
LEMMA NextFrame ==
    ASSUME ~PreemptQueue, MaxBurst \in Nat, MaxBurst < RcvBufferNum,
           IInv, RingInv, FrameInv, [Next]_vars
    PROVE  FrameInv'
<1>1. CASE Server
  <2> PICK peer \in Peers, d \in BufferRecord :
              /\ ServerReceive(d, peer)
              /\ \/ d.tag = 0 /\ nextTag' = nextTag
                 \/ d.tag = nextTag /\ nextTag' = nextTag + 1
    BY <1>1, ServerReceives
  <2> QED BY ServerFrame
<1>2. CASE Play \/ Tick
  <2>1. \/ Plain \/ ZeroLen \/ CopySecondHalf \/ DequeueStore \/ EnqueueSlot
    BY <1>2 DEF Play, PlayDequeue, PlayEnqueue, PlayCopy, Plain
  <2> QED BY <2>1, PlainFrame, ZeroLenFrame, CopySecondHalfFrame,
             DequeueStoreFrame, EnqueueSlotFrame
<1>3. CASE Client \/ UNCHANGED vars
  BY <1>3, ClientElsewhere, ElsewhereFrame
<1> QED BY <1>1, <1>2, <1>3 DEF Next

-----------------------------------------------------------------------------
(* The inductive invariant of the frames.  MaxBurst < RcvBufferNum is what *)
(* the number of buffers buys: with one more arrival the server receives   *)
(* into the buffer that is being copied.                                   *)
THEOREM FrameInvariance ==
    ASSUME ~PreemptQueue, MaxBurst \in Nat, MaxBurst < RcvBufferNum
    PROVE  Spec => [](IInv /\ RingInv /\ FrameInv)
<1>1. Init => IInv /\ RingInv /\ FrameInv
  BY InitIInv, InitRing, InitFrame
<1>2. IInv /\ RingInv /\ FrameInv /\ [Next]_vars => (IInv /\ RingInv /\ FrameInv)'
  <2>1. IInv /\ [Next]_vars => IInv'
    BY ServerStep, PlayStepInv, ClientStepInv, StutterInv DEF Next
  <2> QED BY <2>1, NotPreempted, NextRing, NextFrame
<1> QED BY <1>1, <1>2, PTL DEF Spec

(* A frame handed to the codec is one datagram, although task_play gives   *)
(* the buffer back before it copies it.                                    *)
THEOREM FramesAreWhole ==
    ASSUME ~PreemptQueue, MaxBurst \in Nat, MaxBurst < RcvBufferNum
    PROVE  Spec => []FrameWhole
<1>1. FrameInv => FrameWhole
  BY DEF FrameInv, Copying
<1> QED BY <1>1, FrameInvariance, PTL

(* Frames are handed to the codec in the order in which they arrived, none *)
(* of them twice.                                                          *)
THEOREM FramesInOrder ==
    ASSUME ~PreemptQueue, MaxBurst \in Nat, MaxBurst < RcvBufferNum
    PROVE  Spec => PlayedInOrder
<1>1. IInv /\ RingInv /\ FrameInv /\ [Next]_vars =>
         [CopySecondHalf /\ play'.pbuff[2] > 0 => play'.pbuff[2] > played]_vars
  BY CopySecondHalfFrame
<1> QED BY <1>1, FrameInvariance, PTL DEF Spec, PlayedInOrder
=============================================================================
