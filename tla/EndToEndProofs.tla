--------------------------- MODULE EndToEndProofs ---------------------------
(***************************************************************************)
(* Proofs about EndToEnd, for any number of blocks, sessions and losses:   *)
(* the invariant Base and what follows from it.  Base says what a test of  *)
(* Count is worth to the thread that made it (Room): consumers only lower  *)
(* a size, or store one less than a size that was, so the producer keeps   *)
(* the room it found however many updates are lost; and where the          *)
(* recording, its flag and the button stand (Control).                     *)
(***************************************************************************)
EXTENDS EndToEnd, FunctionTheorems, SequenceTheorems, TLAPS

Clearing == {"array", "head", "tail", "size"}
Starting == Clearing \cup {"establish", "play", "record"}
UiPcs == Starting \cup {"idle", "stop", "enqueue"}
UiType == [pc : UiPcs, clears : Queues, todo : Seq(BlockType), stopping : BOOLEAN]
GhostType == [at1 : {"unsent", "sent", "received", "lost"}, late : BOOLEAN, failed : BOOLEAN,
              failures : Nat, recorded : BOOLEAN, callbacks : Nat, overlap : SUBSET Queues,
              sent : 0..MaxSessions]

QueueTypes == /\ queue \in [Queues -> QueueType]
              /\ thread \in [Queues -> [Threads -> ThreadType]]

Typed ==
    /\ scenario \in Scenarios
    /\ QueueTypes
    /\ connected \in BOOLEAN /\ lineRcv \in BOOLEAN /\ lineSnd \in BOOLEAN
    /\ posted \in BOOLEAN /\ line \in BOOLEAN /\ sending \in BOOLEAN
    /\ session \in 0..MaxSessions
    /\ waveIn \in {"null", "recording", "stopped"}
    /\ ui \in UiType /\ ghost \in GhostType
    /\ net \in Seq({"AT1", "AT2"} \X Sessions) /\ air \in Seq({Audio})
    /\ audio \in Nat /\ loss \in 0..scenario.loss
    /\ crash \in {"no", "empty", "range", "argument", "system", "null"}

(* From its test of Count to the store of _size, the producer has room.    *)
Writing == {"write", "writeLen", "tail", "grow"}
RoomOf(q) ==
    LET me == thread[q][Producer]
    IN /\ me.pc \in Writing \cup {"enqueue"} => queue[q].size <= Blocks - 1
       /\ me.pc \in Writing \cup {"growStore"} => me.size <= Blocks - 1

Room ==
    /\ \A q \in Queues : RoomOf(q)
    /\ \A s \in Sessions : thread["rec"][s].pc = "shut" => thread["rec"][s].left > 0
    /\ ui.pc = "enqueue" <=> ui.todo # <<>>

(* The button, the recording and its flag.                                 *)
Control ==
    /\ session = 0 => ui.pc = "idle" /\ ~connected /\ waveIn = "null"
    /\ ui.pc \in Starting => connected /\ waveIn = "null" /\ ghost.callbacks = 0
    /\ ui.pc = "stop" => ui.stopping
    /\ ui.stopping => ~connected /\ ui.pc \in {"enqueue", "stop"}
    /\ posted <=> waveIn = "stopped"
    /\ posted => ui.pc = "idle"
    /\ ui.pc \in {"enqueue", "stop"} => waveIn = "recording"
    /\ ui.pc = "enqueue" => lineSnd /\ (connected \/ ui.stopping)
    /\ connected /\ ui.pc \notin Starting /\ ~ghost.failed => waveIn = "recording"
    /\ ~connected /\ Alive /\ ui.pc = "idle" => waveIn # "recording"
    /\ waveIn = "null" => ~lineSnd
    /\ waveIn # "null" => (lineSnd <=> ghost.callbacks > 0)
    /\ crash = "null" => ghost.failed

Base == Typed /\ Room /\ Control
Still == UNCHANGED <<line, sending, audio, loss>>

Others(q, t) == \A p \in Queues, r \in Threads :
                   p # q \/ r # t => thread'[p][r] = thread[p][r]
OtherQueues(q) == \A p \in Queues \ {q} : queue'[p] = queue[p]

-----------------------------------------------------------------------------

(* One thread's record is replaced; all others keep theirs.                *)
LEMMA ThreadUpdate ==
    ASSUME QueueTypes, NEW q \in Queues, NEW t \in Threads, NEW v \in ThreadType,
           Becomes(q, t, v)
    PROVE  /\ thread' \in [Queues -> [Threads -> ThreadType]]
           /\ thread'[q][t] = v /\ Others(q, t)
  BY DEF QueueTypes, Becomes, Others

(* One queue is stored to; the other keeps its contents.                   *)
LEMMA QueueUpdate ==
    ASSUME QueueTypes, NEW q \in Queues, NEW v \in QueueType, Store(q, v)
    PROVE  /\ queue' \in [Queues -> QueueType]
           /\ queue'[q] = v /\ OtherQueues(q)
  BY DEF QueueTypes, Store, OtherQueues

(* What the constants promise.                                             *)
LEMMA Bounds == Blocks \in Nat \ {0} /\ MinSize \in Int /\ MinSize < 0
  BY YHbufferAssumption

(* An index stays in the array, and one less is a size with room.          *)
LEMMA Integer ==
    /\ \A i \in 0..(Blocks - 1) : Succ(i) \in 0..(Blocks - 1)
    /\ \A n \in MinSize..Blocks : Less1(n) \in MinSize..(Blocks - 1)
    /\ 0 \in MinSize..(Blocks - 1) /\ 0 \in 0..(Blocks - 1)
  BY Bounds DEF Succ, Less1

InQueue(t) == IF t = Producer THEN InLoop \cup InEnqueue \cup {"done"} ELSE InLoop

Kept(q, t) ==
    /\ queue' \in [Queues -> QueueType] /\ thread' \in [Queues -> [Threads -> ThreadType]]
    /\ Others(q, t) /\ OtherQueues(q)
    /\ thread'[q][t].left = thread[q][t].left
    /\ thread[q][t].pc \in InQueue(t) /\ thread'[q][t].pc \in InQueue(t)
    /\ crash = "no" /\ crash' \in {"no", "empty"}

(* What a Dequeue leaves of a queue's size, and of a producer's room.      *)
Takes(q, t) ==
    /\ queue'[q].size = queue[q].size \/ queue'[q].size <= Blocks - 1
    /\ thread'[q][t].pc \in InLoop \/ (thread'[q][t].pc = "enqueue" /\ queue'[q].size <= Blocks - 1)

(* A step of Queue<T>.Dequeue, by a consumer or by the producer that       *)
(* drops, keeps the types, whatever another thread has done to the queue   *)
(* since the step before: a size it stores is one less than one that was   *)
(* read.                                                                   *)
LEMMA DequeueKept ==
    ASSUME QueueTypes, NEW q \in Queues, NEW t \in Threads, Dequeue(q, t)
    PROVE  Kept(q, t) /\ Takes(q, t)
<1> DEFINE me == thread[q][t]  Q == queue[q]
<1>1. /\ me \in ThreadType /\ Q \in QueueType /\ Q.array \in [0..(Blocks - 1) -> SlotType]
      /\ Q.head \in 0..(Blocks - 1) /\ me.index \in 0..(Blocks - 1)
      /\ Q.size \in MinSize..Blocks /\ me.size \in MinSize..Blocks
  BY DEF QueueTypes, QueueType, ThreadType
<1> HIDE DEF me, Q
<1>a. ASSUME NEW v \in ThreadType, NEW w \in QueueType,
             Becomes(q, t, v), Store(q, w) \/ (queue' = queue /\ w = Q),
             v.left = me.left, me.pc \in InDequeue, v.pc \in InDequeue \cup {"use", "test"},
             w.size = Q.size \/ w.size <= Blocks - 1, crash = "no", crash' = "no"
      PROVE  Kept(q, t) /\ Takes(q, t)
  <2>1. /\ thread' \in [Queues -> [Threads -> ThreadType]]
        /\ thread'[q][t] = v /\ Others(q, t)
    BY <1>a, ThreadUpdate
  <2>2. queue' \in [Queues -> QueueType] /\ queue'[q] = w /\ OtherQueues(q)
    BY <1>a, QueueUpdate DEF Q, QueueTypes, OtherQueues
  <2> QED BY <1>a, <2>1, <2>2 DEF me, Q, Kept, Takes, InQueue, InLoop
<1>2. CASE DequeueCheck(q, t)
  <2>1. CASE Q.size = 0
    BY <1>1, <1>2, <2>1 DEF DequeueCheck, Kept, Takes, At, Alive, QueueTypes, Others, OtherQueues,
       InQueue, InLoop, InDequeue, Q
  <2>2. CASE Q.size # 0
    <3> DEFINE v == [me EXCEPT !.pc = "data", !.size = Q.size]
    <3>1. v \in ThreadType /\ v.pc = "data" /\ v.left = me.left
      BY <1>1 DEF ThreadType, InLoop, InDequeue
    <3>2. Becomes(q, t, v) /\ queue' = queue /\ me.pc = "check" /\ crash = "no" /\ crash' = "no"
      BY <1>2, <2>2 DEF DequeueCheck, At, Alive, me, Q
    <3> QED BY <1>1, <1>a, <3>1, <3>2 DEF InDequeue
  <2> QED BY <2>1, <2>2
<1>3. CASE DequeueData(q, t)
  <2> DEFINE v == IF t = Producer
                  THEN [me EXCEPT !.pc = "clear", !.index = Q.head]
                  ELSE [me EXCEPT !.pc = "len", !.index = Q.head, !.data = Q.array[Q.head].data]
  <2>1. v \in ThreadType /\ v.pc \in {"clear", "len"} /\ v.left = me.left
    BY <1>1 DEF ThreadType, SlotType, InLoop, InDequeue
  <2>2. Becomes(q, t, v) /\ queue' = queue /\ me.pc = "data" /\ crash = "no" /\ crash' = "no"
    BY <1>3 DEF DequeueData, At, Alive, me, Q
  <2> QED BY <1>1, <1>a, <2>1, <2>2 DEF InDequeue
<1>4. CASE DequeueLen(q, t)
  <2> DEFINE v == [me EXCEPT !.pc = "clear", !.len = Q.array[me.index].len]
  <2>1. v \in ThreadType /\ v.pc = "clear" /\ v.left = me.left
    BY <1>1 DEF ThreadType, SlotType, InLoop, InDequeue
  <2>2. Becomes(q, t, v) /\ queue' = queue /\ me.pc = "len" /\ crash = "no" /\ crash' = "no"
    BY <1>4 DEF DequeueLen, At, Alive, me, Q
  <2> QED BY <1>1, <1>a, <2>1, <2>2 DEF InDequeue
<1>5. CASE DequeueClear(q, t)
  <2>1. PICK i \in {me.index, Q.head} :
           /\ Store(q, [Q EXCEPT !.array[i].data = Nothing])
           /\ Becomes(q, t, [me EXCEPT !.pc = "clearLen", !.index = i])
    BY <1>5 DEF DequeueClear, me, Q
  <2> DEFINE v == [me EXCEPT !.pc = "clearLen", !.index = i]
             w == [Q EXCEPT !.array[i].data = Nothing]
  <2>2. v \in ThreadType /\ v.pc = "clearLen" /\ v.left = me.left
    BY <1>1 DEF ThreadType, InLoop, InDequeue
  <2>5. Nothing \in BlockType
    BY DEF BlockType
  <2>3. w \in QueueType /\ w.size = Q.size
    BY <1>1, <2>5 DEF QueueType, SlotType
  <2>4. me.pc = "clear" /\ crash = "no" /\ crash' = "no"
    BY <1>5 DEF DequeueClear, At, Alive, me
  <2> QED BY <1>a, <2>1, <2>2, <2>3, <2>4 DEF InDequeue
<1>6. CASE DequeueClearLen(q, t)
  <2> DEFINE v == [me EXCEPT !.pc = "head"]
             w == [Q EXCEPT !.array[me.index].len = FALSE]
  <2>2. v \in ThreadType /\ v.pc = "head" /\ v.left = me.left
    BY <1>1 DEF ThreadType, InLoop, InDequeue
  <2>3. w \in QueueType /\ w.size = Q.size
    BY <1>1 DEF QueueType, SlotType
  <2>4. /\ me.pc = "clearLen" /\ crash = "no" /\ crash' = "no"
        /\ Becomes(q, t, v) /\ Store(q, w)
    BY <1>6 DEF DequeueClearLen, At, Alive, Go, me, Q
  <2> QED BY <1>a, <2>2, <2>3, <2>4 DEF InDequeue
<1>7. CASE DequeueHead(q, t)
  <2>1. PICK i \in {me.index, Q.head} :
           Becomes(q, t, [me EXCEPT !.pc = "headStore", !.index = Succ(i)])
    BY <1>7 DEF DequeueHead, me, Q
  <2> DEFINE v == [me EXCEPT !.pc = "headStore", !.index = Succ(i)]
  <2>2. v \in ThreadType /\ v.pc = "headStore" /\ v.left = me.left
    BY <1>1, Integer, Bounds DEF ThreadType, InLoop, InDequeue
  <2>4. me.pc = "head" /\ crash = "no" /\ crash' = "no" /\ queue' = queue
    BY <1>7 DEF DequeueHead, At, Alive, me
  <2> QED BY <1>1, <1>a, <2>1, <2>2, <2>4 DEF InDequeue
<1>8. CASE DequeueHeadStore(q, t)
  <2> DEFINE v == [me EXCEPT !.pc = "size", !.index = 0]
             w == [Q EXCEPT !.head = me.index]
  <2>2. v \in ThreadType /\ v.pc = "size" /\ v.left = me.left
    BY <1>1, Integer, Bounds DEF ThreadType, InLoop, InDequeue
  <2>3. w \in QueueType /\ w.size = Q.size
    BY <1>1 DEF QueueType
  <2>4. /\ me.pc = "headStore" /\ crash = "no" /\ crash' = "no"
        /\ Becomes(q, t, v) /\ Store(q, w)
    BY <1>8 DEF DequeueHeadStore, At, Alive, me, Q
  <2> QED BY <1>a, <2>2, <2>3, <2>4 DEF InDequeue
<1>9. CASE DequeueSize(q, t)
  <2>1. PICK n \in {me.size, Q.size} :
           Becomes(q, t, [me EXCEPT !.pc = "sizeStore", !.size = n])
    BY <1>9 DEF DequeueSize, me, Q
  <2> DEFINE v == [me EXCEPT !.pc = "sizeStore", !.size = n]
  <2>2. v \in ThreadType /\ v.pc = "sizeStore" /\ v.left = me.left
    BY <1>1 DEF ThreadType, InLoop, InDequeue
  <2>4. me.pc = "size" /\ crash = "no" /\ crash' = "no" /\ queue' = queue
    BY <1>9 DEF DequeueSize, At, Alive, me
  <2> QED BY <1>1, <1>a, <2>1, <2>2, <2>4 DEF InDequeue
<1>10. CASE DequeueSizeStore(q, t)
  <2> DEFINE v == [me EXCEPT !.size = 0, !.data = IF me.len THEN @ ELSE Nothing,
                             !.pc = IF t = Producer THEN "enqueue"
                                    ELSE IF me.len THEN "use" ELSE "test"]
             w == [Q EXCEPT !.size = Less1(me.size)]
  <2>7. Nothing \in BlockType /\ me.data \in BlockType /\ 0 \in MinSize..Blocks
    BY <1>1, Integer, Bounds DEF BlockType, ThreadType
  <2>8. (IF me.len THEN me.data ELSE Nothing) \in BlockType
    BY <2>7
  <2>2. /\ v \in ThreadType /\ v.left = me.left
        /\ v.pc = IF t = Producer THEN "enqueue" ELSE IF me.len THEN "use" ELSE "test"
    BY <1>1, <2>7, <2>8 DEF ThreadType, InLoop, InDequeue, InEnqueue
  <2>9. Less1(me.size) \in MinSize..(Blocks - 1)
    BY <1>1, Integer
  <2>3. w \in QueueType /\ w.size \in MinSize..(Blocks - 1)
    BY <1>1, <2>9, Bounds DEF QueueType
  <2>4. /\ me.pc = "sizeStore" /\ crash = "no" /\ crash' = "no"
        /\ Becomes(q, t, v) /\ Store(q, w)
    BY <1>10 DEF DequeueSizeStore, At, Alive, me, Q
  <2>5. /\ thread' \in [Queues -> [Threads -> ThreadType]]
        /\ thread'[q][t] = v /\ Others(q, t)
    BY <2>2, <2>4, ThreadUpdate
  <2>6. queue' \in [Queues -> QueueType] /\ queue'[q] = w /\ OtherQueues(q)
    BY <2>3, <2>4, QueueUpdate
  <2> QED BY <2>2, <2>3, <2>4, <2>5, <2>6, Integer
          DEF me, Q, Kept, Takes, InQueue, InLoop, InDequeue, InEnqueue
<1> QED BY <1>2, <1>3, <1>4, <1>5, <1>6, <1>7, <1>8, <1>9, <1>10 DEF Dequeue

(* A step of YHbuffer.Enqueue outside Dequeue: the size it stores is one   *)
(* more than one that was read with room left.                             *)
LEMMA EnqueueKept ==
    ASSUME QueueTypes, NEW q \in Queues, RoomOf(q), Enqueue(q)
    PROVE  Kept(q, Producer) /\ RoomOf(q)'
<1> DEFINE me == thread[q][Producer]  Q == queue[q]
<1>1. /\ me \in ThreadType /\ Q \in QueueType /\ Q.array \in [0..(Blocks - 1) -> SlotType]
      /\ Q.tail \in 0..(Blocks - 1) /\ me.index \in 0..(Blocks - 1)
      /\ Q.size \in MinSize..Blocks /\ me.size \in MinSize..Blocks
      /\ me.data \in BlockType /\ me.len \in BOOLEAN /\ Producer \in Threads
  BY DEF QueueTypes, QueueType, ThreadType, Threads
<1>2. /\ me.pc \in Writing \cup {"enqueue"} => Q.size <= Blocks - 1
      /\ me.pc \in Writing \cup {"growStore"} => me.size <= Blocks - 1
  BY DEF RoomOf
<1> HIDE DEF me, Q
<1>a. ASSUME NEW v \in ThreadType, NEW w \in QueueType,
             Becomes(q, Producer, v), Store(q, w) \/ (queue' = queue /\ w = Q),
             v.left = me.left, me.pc \in InEnqueue \cup {"count"},
             v.pc \in InEnqueue \cup {"check", "done"}, crash = "no", crash' = "no",
             v.pc \in Writing \cup {"enqueue"} => w.size <= Blocks - 1,
             v.pc \in Writing \cup {"growStore"} => v.size <= Blocks - 1
      PROVE  Kept(q, Producer) /\ RoomOf(q)'
  <2>1. /\ thread' \in [Queues -> [Threads -> ThreadType]]
        /\ thread'[q][Producer] = v /\ Others(q, Producer)
    BY <1>a, <1>1, ThreadUpdate
  <2>2. queue' \in [Queues -> QueueType] /\ queue'[q] = w /\ OtherQueues(q)
    BY <1>a, QueueUpdate DEF Q, QueueTypes, OtherQueues
  <2>3. Kept(q, Producer)
    BY <1>a, <2>1, <2>2 DEF me, Q, Kept, InQueue, InLoop, InDequeue
  <2>4. RoomOf(q)'
    BY <1>a, <2>1, <2>2 DEF RoomOf
  <2> QED BY <2>3, <2>4
<1>3. CASE EnqueueCount(q)
  <2> DEFINE pc == IF ~Followed(q) THEN "done" ELSE IF Full(q) THEN "check" ELSE "enqueue"
             v == [me EXCEPT !.pc = pc]
  <2>1. v \in ThreadType /\ v.pc = pc /\ v.left = me.left
    BY <1>1 DEF ThreadType, InLoop, InDequeue, InEnqueue
  <2>2. /\ Becomes(q, Producer, v) /\ queue' = queue /\ me.pc = "count"
        /\ crash = "no" /\ crash' = "no"
    BY <1>3 DEF EnqueueCount, At, Go, Alive, me, Q
  <2>3. pc = "enqueue" => Q.size <= Blocks - 1
    BY <1>1, Bounds DEF Full, Q
  <2>4. pc \in {"done", "check", "enqueue"}
    OBVIOUS
  <2> HIDE DEF pc
  <2> QED BY <1>1, <1>a, <2>1, <2>2, <2>3, <2>4 DEF InEnqueue, Writing
<1>4. CASE EnqueueCheck(q)
  <2> DEFINE v == [me EXCEPT !.pc = "write", !.size = Q.size]
  <2>1. v \in ThreadType /\ v.pc = "write" /\ v.left = me.left /\ v.size = Q.size
    BY <1>1 DEF ThreadType, InLoop, InEnqueue
  <2>2. me.pc = "enqueue" /\ crash = "no"
    BY <1>4 DEF EnqueueCheck, At, Alive, me
  <2>3. Q.size <= Blocks - 1 /\ Q.size # Blocks
    BY <1>1, <1>2, <2>2, Bounds
  <2>4. Becomes(q, Producer, v) /\ queue' = queue /\ crash' = "no"
    BY <1>4, <2>2, <2>3 DEF EnqueueCheck, me, Q
  <2> QED BY <1>1, <1>a, <2>1, <2>2, <2>3, <2>4 DEF InEnqueue, Writing
<1>5. CASE EnqueueData(q)
  <2> DEFINE v == [me EXCEPT !.pc = "writeLen", !.index = Q.tail]
             w == [Q EXCEPT !.array[Q.tail].data = me.data]
  <2>1. v \in ThreadType /\ v.pc = "writeLen" /\ v.left = me.left /\ v.size = me.size
    BY <1>1 DEF ThreadType, InLoop, InEnqueue
  <2>2. w \in QueueType /\ w.size = Q.size
    BY <1>1 DEF QueueType, SlotType
  <2>3. /\ me.pc = "write" /\ crash = "no" /\ crash' = "no"
        /\ Becomes(q, Producer, v) /\ Store(q, w)
    BY <1>5 DEF EnqueueData, At, Alive, me, Q
  <2> QED BY <1>a, <1>2, <2>1, <2>2, <2>3 DEF InEnqueue, Writing
<1>6. CASE EnqueueLen(q)
  <2> DEFINE v == [me EXCEPT !.pc = "tail"]
             w == [Q EXCEPT !.array[me.index].len = me.len]
  <2>1. v \in ThreadType /\ v.pc = "tail" /\ v.left = me.left /\ v.size = me.size
    BY <1>1 DEF ThreadType, InLoop, InEnqueue
  <2>2. w \in QueueType /\ w.size = Q.size
    BY <1>1 DEF QueueType, SlotType
  <2>3. /\ me.pc = "writeLen" /\ crash = "no" /\ crash' = "no"
        /\ Becomes(q, Producer, v) /\ Store(q, w)
    BY <1>6 DEF EnqueueLen, At, Go, Alive, me, Q
  <2> QED BY <1>a, <1>2, <2>1, <2>2, <2>3 DEF InEnqueue, Writing
<1>7. CASE EnqueueTail(q)
  <2>1. PICK i \in {me.index, Q.tail} : Store(q, [Q EXCEPT !.tail = Succ(i)])
    BY <1>7 DEF EnqueueTail, me, Q
  <2> DEFINE v == [me EXCEPT !.pc = "grow", !.index = 0]
             w == [Q EXCEPT !.tail = Succ(i)]
  <2>2. v \in ThreadType /\ v.pc = "grow" /\ v.left = me.left /\ v.size = me.size
    BY <1>1, Integer, Bounds DEF ThreadType, InLoop, InEnqueue
  <2>3. w \in QueueType /\ w.size = Q.size
    BY <1>1, Integer, Bounds DEF QueueType
  <2>4. /\ me.pc = "tail" /\ crash = "no" /\ crash' = "no"
        /\ Becomes(q, Producer, v)
    BY <1>7 DEF EnqueueTail, At, Alive, me, Q
  <2> QED BY <1>a, <1>2, <2>1, <2>2, <2>3, <2>4 DEF InEnqueue, Writing
<1>8. CASE EnqueueSize(q)
  <2>1. PICK n \in {me.size, Q.size} :
           Becomes(q, Producer, [me EXCEPT !.pc = "growStore", !.size = n])
    BY <1>8 DEF EnqueueSize, me, Q
  <2> DEFINE v == [me EXCEPT !.pc = "growStore", !.size = n]
  <2>2. v \in ThreadType /\ v.pc = "growStore" /\ v.left = me.left /\ v.size = n
    BY <1>1, <2>1 DEF ThreadType, InLoop, InEnqueue
  <2>3. me.pc = "grow" /\ crash = "no" /\ crash' = "no" /\ queue' = queue
    BY <1>8 DEF EnqueueSize, At, Alive, me
  <2>4. n <= Blocks - 1
    BY <1>2, <2>1, <2>3 DEF Writing
  <2> QED BY <1>1, <1>a, <2>1, <2>2, <2>3, <2>4 DEF InEnqueue, Writing
<1>9. CASE EnqueueSizeStore(q)
  <2> DEFINE v == [me EXCEPT !.pc = "done", !.size = 0]
             w == [Q EXCEPT !.size = me.size + 1]
  <2>1. me.pc = "growStore" /\ crash = "no" /\ crash' = "no"
        /\ Becomes(q, Producer, v) /\ Store(q, w)
    BY <1>9 DEF EnqueueSizeStore, At, Alive, me, Q
  <2>5. 0 \in MinSize..Blocks /\ "done" \in InLoop \cup InEnqueue \cup {"none", "done", "shut", "end"}
    BY Bounds
  <2>2. v \in ThreadType /\ v.pc = "done" /\ v.left = me.left
    BY <1>1, <2>5 DEF ThreadType
  <2>3. me.size + 1 \in MinSize..Blocks
    BY <1>1, <1>2, <2>1, Bounds
  <2>4. w \in QueueType
    BY <1>1, <2>3 DEF QueueType
  <2> QED BY <1>a, <2>1, <2>2, <2>4 DEF InEnqueue, Writing
<1> QED BY <1>3, <1>4, <1>5, <1>6, <1>7, <1>8, <1>9 DEF Enqueue

(* A consumer tests Count.                                                 *)
LEMMA DequeueCountKept ==
    ASSUME QueueTypes, NEW q \in Queues, NEW t \in Sessions, DequeueCount(q, t)
    PROVE  Kept(q, t) /\ Takes(q, t)
<1> DEFINE me == thread[q][t]
           pc == IF queue[q].size = 0 THEN "test" ELSE "check"
           v == [me EXCEPT !.pc = pc]
<1>1. t \in Threads /\ me \in ThreadType
  BY DEF QueueTypes, Threads
<1>2. v \in ThreadType /\ v.pc = pc /\ v.left = me.left
  BY <1>1 DEF ThreadType, InLoop, InDequeue
<1>3. /\ Becomes(q, t, v) /\ queue' = queue /\ me.pc = "count" /\ crash = "no" /\ crash' = "no"
  BY DEF DequeueCount, At, Go, Alive
<1>4. /\ thread' \in [Queues -> [Threads -> ThreadType]]
      /\ thread'[q][t] = v /\ Others(q, t)
  BY <1>1, <1>2, <1>3, ThreadUpdate
<1> QED BY <1>2, <1>3, <1>4 DEF QueueTypes, OtherQueues, Kept, Takes, InQueue, InLoop, InDequeue

(* A step that takes leaves the producer the room it has tested for.       *)
LEMMA TakesRoom ==
    ASSUME NEW q \in Queues, NEW t \in Threads, RoomOf(q), Kept(q, t), Takes(q, t)
    PROVE  RoomOf(q)'
<1>1. Producer \in Threads
  BY DEF Threads
<1>2. CASE t = Producer
  BY <1>2 DEF Takes, RoomOf, InLoop, InDequeue, Writing
<1>3. CASE t # Producer
  <2>1. thread'[q][Producer] = thread[q][Producer]
    BY <1>1, <1>3 DEF Kept, Others
  <2> QED BY <2>1 DEF Takes, RoomOf
<1> QED BY <1>2, <1>3

(* Any step of a thread within its queue.                                  *)
QueueStep(q, t) == IF t = Producer THEN Enqueue(q) \/ Dequeue(q, t)
                   ELSE DequeueCount(q, t) \/ Dequeue(q, t)

(* A step inside YHbuffer, of a producer or of a consumer.                 *)
LEMMA QueueStepKept ==
    ASSUME QueueTypes, NEW q \in Queues, NEW t \in Threads, RoomOf(q), QueueStep(q, t)
    PROVE  Kept(q, t) /\ RoomOf(q)'
<1>1. CASE Dequeue(q, t)
  BY <1>1, DequeueKept, TakesRoom
<1>2. CASE t = Producer /\ Enqueue(q)
  BY <1>2, EnqueueKept
<1>3. CASE t # Producer /\ DequeueCount(q, t)
  <2>1. t \in Sessions
    BY <1>3 DEF Threads
  <2> QED BY <1>3, <2>1, DequeueCountKept, TakesRoom
<1> QED BY <1>1, <1>2, <1>3 DEF QueueStep

-----------------------------------------------------------------------------
(* The UI thread.                                                          *)

QueuesSame == UNCHANGED <<queue, thread>>

(* A step that leaves queues and threads alone leaves room.                *)
LEMMA RoomSame ==
    ASSUME Room, QueuesSame, ui'.pc = "enqueue" <=> ui'.todo # <<>>
    PROVE  Room'
  BY DEF Room, RoomOf, QueuesSame

(* The button connects.                                                    *)
LEMMA BaseClickStart ==
    ASSUME Base, ClickStart, Still
    PROVE  Base'
<1>1. ui \in UiType /\ ghost \in GhostType /\ scenario \in Scenarios
  BY DEF Base, Typed
<1>2. session' \in 0..MaxSessions /\ session' # 0
  BY <1>1, YHbufferAssumption DEF ClickStart, Base, Typed
<1>3. /\ ui' \in UiType /\ ui'.pc = "array" /\ ui'.todo = ui.todo /\ ui'.stopping = ui.stopping
      /\ ui.pc = "idle" /\ crash = "no" /\ ~posted
  BY <1>1 DEF ClickStart, Ui, Alive, UiType, UiPcs, Starting, Clearing, Queues
<1>4. /\ ghost' \in GhostType /\ ghost'.callbacks = 0
  BY <1>1 DEF ClickStart, GhostType
<1>5. Typed'
  BY <1>2, <1>3, <1>4 DEF ClickStart, Still, bufferVars, Base, Typed, QueueTypes
<1>6. Room'
  BY <1>3, RoomSame DEF Base, Room, QueuesSame, ClickStart, bufferVars
<1>7. waveIn = "null" /\ ~lineSnd /\ ~ui.stopping
  BY <1>3 DEF ClickStart, Base, Control, Typed, Alive
<1>8. /\ waveIn' = "null" /\ ~lineSnd' /\ ~ui'.stopping /\ connected' /\ ~posted' /\ crash' = "no"
      /\ ui'.pc = "array" /\ ghost'.callbacks = 0 /\ session' # 0
  BY <1>2, <1>3, <1>4, <1>7 DEF ClickStart, bufferVars
<1>9. Control'
  BY <1>8 DEF Control, Starting, Clearing
<1> QED BY <1>5, <1>6, <1>9 DEF Base

(* The flags as Booleans.                                                  *)
LEMMA ControlBooleans ==
    ASSUME Typed
    PROVE  /\ connected \in BOOLEAN /\ lineSnd \in BOOLEAN /\ posted \in BOOLEAN
           /\ ui.stopping \in BOOLEAN /\ ghost.failed \in BOOLEAN /\ ghost.callbacks \in Nat
           /\ ui.pc \in UiPcs /\ waveIn \in {"null", "recording", "stopped"}
           /\ ui \in UiType /\ ghost \in GhostType
  BY DEF Typed, UiType, GhostType

(* Within Start, before the recording.                                     *)
LEMMA ControlStart ==
    ASSUME Base, ui.pc \in Starting, ui'.pc \in Starting, ui'.stopping = ui.stopping,
           ghost'.callbacks = ghost.callbacks, ghost'.failed = ghost.failed,
           UNCHANGED <<connected, session, lineSnd, waveIn, posted>>,
           crash' # "null"
    PROVE  Control'
<1>1. connected /\ waveIn = "null" /\ ghost.callbacks = 0 /\ session # 0 /\ ~posted /\ ~lineSnd
      /\ ~ui.stopping
  BY DEF Base, Control, Starting, Clearing
<1>2. /\ connected' /\ waveIn' = "null" /\ ghost'.callbacks = 0 /\ session' # 0 /\ ~posted'
      /\ ~lineSnd' /\ ~ui'.stopping
  BY <1>1
<1> QED BY <1>2 DEF Control, Starting, Clearing

(* Clear of a queue: its array, or one of its fields.                      *)
LEMMA BaseStartClear ==
    ASSUME Base, StartClear, Still
    PROVE  Base'
<1> DEFINE q == ui.clears  Q == queue[q]
<1>1. /\ ui \in UiType /\ ghost \in GhostType /\ q \in Queues /\ Q \in QueueType /\ QueueTypes
      /\ ui.pc \in UiPcs /\ ui.todo \in Seq(BlockType)
  BY DEF Base, Typed, UiType, QueueTypes
<1>2. ui.pc \in Clearing /\ crash = "no" /\ UNCHANGED <<scenario, thread>>
  BY DEF StartClear, Ui, Alive, Clearing, ClearArray, ClearField, bufferVars
<1>3. /\ ui' \in UiType /\ ui'.todo = ui.todo /\ ui'.stopping = ui.stopping
      /\ ui'.pc \in Clearing \cup {"establish"}
  <2>1. AfterClear \in UiType /\ AfterClear.todo = ui.todo /\ AfterClear.stopping = ui.stopping
        /\ AfterClear.pc \in Clearing \cup {"establish"}
    BY <1>1 DEF AfterClear, UiType, UiPcs, Starting, Clearing, Queues
  <2>2. \A pc \in Clearing : [ui EXCEPT !.pc = pc] \in UiType
                             /\ [ui EXCEPT !.pc = pc].todo = ui.todo
                             /\ [ui EXCEPT !.pc = pc].stopping = ui.stopping
                             /\ [ui EXCEPT !.pc = pc].pc = pc
    BY <1>1 DEF UiType, UiPcs, Starting, Clearing
  <2>3. ui' = AfterClear \/ \E pc \in Clearing : ui' = [ui EXCEPT !.pc = pc]
    BY DEF StartClear, UiGo, Clearing
  <2> QED BY <2>1, <2>2, <2>3
<1>4. \/ UNCHANGED queue /\ crash' \in {"no", "range"}
      \/ /\ Store(q, [Q EXCEPT !.array = [i \in 0..(Blocks - 1) |->
                 IF i \in Cleared(Q) THEN Element(Nothing) ELSE @[i]]])
         /\ crash' = "no"
      \/ Store(q, [Q EXCEPT !.head = 0]) /\ crash' = "no"
      \/ Store(q, [Q EXCEPT !.tail = 0]) /\ crash' = "no"
      \/ Store(q, [Q EXCEPT !.size = 0]) /\ crash' = "no"
  BY <1>2 DEF StartClear, ClearArray, ClearField, bufferVars
<1>5. /\ queue' \in [Queues -> QueueType]
      /\ crash' \in {"no", "range"}
      /\ \A p \in Queues : queue'[p].size = queue[p].size \/ queue'[p].size <= Blocks - 1
  <2>a. ASSUME NEW w \in QueueType, Store(q, w), crash' = "no",
               w.size = Q.size \/ w.size <= Blocks - 1
        PROVE  /\ queue' \in [Queues -> QueueType]
               /\ \A p \in Queues : queue'[p].size = queue[p].size \/ queue'[p].size <= Blocks - 1
    BY <2>a, <1>1, QueueUpdate DEF OtherQueues
  <2>1. CASE UNCHANGED queue /\ crash' \in {"no", "range"}
    BY <2>1, <1>1 DEF QueueTypes
  <2>2. CASE /\ Store(q, [Q EXCEPT !.array = [i \in 0..(Blocks - 1) |->
                 IF i \in Cleared(Q) THEN Element(Nothing) ELSE @[i]]])
             /\ crash' = "no"
    <3> DEFINE a == [i \in 0..(Blocks - 1) |->
                        IF i \in Cleared(Q) THEN Element(Nothing) ELSE Q.array[i]]
    <3>1. Element(Nothing) \in SlotType
      BY DEF Element, SlotType, BlockType
    <3>2. a \in [0..(Blocks - 1) -> SlotType]
      BY <3>1, <1>1 DEF QueueType
    <3>3. [Q EXCEPT !.array = a] \in QueueType /\ [Q EXCEPT !.array = a].size = Q.size
      BY <3>2, <1>1 DEF QueueType
    <3> QED BY <2>2, <2>a, <3>3
  <2>3. CASE Store(q, [Q EXCEPT !.head = 0]) /\ crash' = "no"
    <3>1. [Q EXCEPT !.head = 0] \in QueueType /\ [Q EXCEPT !.head = 0].size = Q.size
      BY <1>1, Integer DEF QueueType
    <3> QED BY <2>3, <2>a, <3>1
  <2>4. CASE Store(q, [Q EXCEPT !.tail = 0]) /\ crash' = "no"
    <3>1. [Q EXCEPT !.tail = 0] \in QueueType /\ [Q EXCEPT !.tail = 0].size = Q.size
      BY <1>1, Integer DEF QueueType
    <3> QED BY <2>4, <2>a, <3>1
  <2>5. CASE Store(q, [Q EXCEPT !.size = 0]) /\ crash' = "no"
    <3>1. 0 \in MinSize..Blocks /\ 0 <= Blocks - 1
      BY Bounds
    <3>2. [Q EXCEPT !.size = 0] \in QueueType /\ [Q EXCEPT !.size = 0].size = 0
      BY <1>1, <3>1 DEF QueueType
    <3> QED BY <2>5, <2>a, <3>1, <3>2
  <2> QED BY <1>4, <2>1, <2>2, <2>3, <2>4, <2>5
<1>6. Typed'
  BY <1>1, <1>2, <1>3, <1>5 DEF StartClear, Still, Base, Typed, QueueTypes
<1>7. Room'
  <2>1. \A p \in Queues : RoomOf(p)'
    BY <1>2, <1>5 DEF Base, Room, RoomOf
  <2> QED BY <1>2, <1>3, <2>1 DEF Base, Room, Clearing
<1>8. Control'
  BY <1>2, <1>3, <1>5, ControlStart DEF StartClear, Starting
<1> QED BY <1>6, <1>7, <1>8 DEF Base

(* AT1 goes out.                                                           *)
LEMMA BaseLineEstablish ==
    ASSUME Base, LineEstablish, Still
    PROVE  Base'
<1>1. ui \in UiType /\ ghost \in GhostType /\ ui.pc = "establish" /\ crash = "no"
  BY DEF Base, Typed, LineEstablish, Ui, Alive
<1>2. ui' \in UiType /\ ui'.pc = "play" /\ ui'.todo = ui.todo /\ ui'.stopping = ui.stopping
  BY <1>1 DEF LineEstablish, UiGo, UiType, UiPcs, Starting
<1>3. ghost' \in GhostType /\ ghost'.callbacks = ghost.callbacks /\ ghost'.failed = ghost.failed
  BY <1>1 DEF LineEstablish, GhostType
<1>4. session \in Sessions
  BY <1>1, YHbufferAssumption DEF Base, Typed, Control, Sessions
<1>5. net' \in Seq({"AT1", "AT2"} \X Sessions)
  BY <1>4, AppendProperties DEF LineEstablish, Base, Typed
<1>6. Typed'
  BY <1>2, <1>3, <1>5 DEF LineEstablish, bufferVars, Still, Base, Typed, QueueTypes
<1>7. Room'
  BY <1>1, <1>2, RoomSame DEF LineEstablish, bufferVars, QueuesSame, Base, Room
<1>8. Control'
  BY <1>1, <1>2, <1>3, ControlStart DEF LineEstablish, bufferVars, Starting
<1> QED BY <1>6, <1>7, <1>8 DEF Base

(* Some thread's step leaves the producers their room.                     *)
LEMMA RoomThread ==
    ASSUME Room, NEW q \in Queues, NEW t \in Threads, Others(q, t), queue' = queue,
           thread'[q][t].pc \notin Writing \cup {"enqueue", "growStore"},
           t # Producer /\ thread'[q][t].pc = "shut" => thread'[q][t].left > 0,
           ui'.pc = "enqueue" <=> ui'.todo # <<>>
    PROVE  Room'
<1>1. \A p \in Queues : RoomOf(p)'
  <2> SUFFICES ASSUME NEW p \in Queues PROVE RoomOf(p)'
    OBVIOUS
  <2>1. Producer \in Threads
    BY DEF Threads
  <2>2. CASE p = q /\ t = Producer
    BY <2>2 DEF RoomOf
  <2>3. CASE ~(p = q /\ t = Producer)
    <3>1. thread'[p][Producer] = thread[p][Producer]
      BY <2>1, <2>3 DEF Others
    <3> QED BY <3>1 DEF Room, RoomOf
  <2> QED BY <2>2, <2>3
<1>2. \A s \in Sessions : thread'["rec"][s].pc = "shut" => thread'["rec"][s].left > 0
  <2> SUFFICES ASSUME NEW s \in Sessions, thread'["rec"][s].pc = "shut"
               PROVE  thread'["rec"][s].left > 0
    OBVIOUS
  <2>1. s \in Threads /\ s # Producer
    BY YHbufferAssumption DEF Threads, Sessions, Producer
  <2>2. CASE q = "rec" /\ s = t
    BY <2>1, <2>2
  <2>3. CASE ~(q = "rec" /\ s = t)
    <3>1. thread'["rec"][s] = thread["rec"][s]
      BY <2>1, <2>3 DEF Others, Queues
    <3> QED BY <3>1 DEF Room
  <2> QED BY <2>2, <2>3
<1> QED BY <1>1, <1>2 DEF Room

(* The play thread of the session begins.                                  *)
LEMMA BaseStartPlay ==
    ASSUME Base, StartPlay, Still
    PROVE  Base'
<1>1. ui \in UiType /\ ui.pc = "play" /\ crash = "no" /\ QueueTypes
  BY DEF Base, Typed, StartPlay, Ui, Alive
<1>2. ui' \in UiType /\ ui'.pc = "record" /\ ui'.todo = ui.todo /\ ui'.stopping = ui.stopping
  BY <1>1 DEF StartPlay, UiGo, UiType, UiPcs, Starting
<1>3. session \in Threads /\ session # Producer /\ "dgram" \in Queues
  BY <1>1, YHbufferAssumption DEF Base, Typed, Control, Sessions, Threads, Producer, Queues
<1> DEFINE v == [thread["dgram"][session] EXCEPT !.pc = "test"]
<1>4. v \in ThreadType /\ v.pc = "test"
  BY <1>1, <1>3 DEF QueueTypes, ThreadType, InLoop
<1>5. /\ thread' \in [Queues -> [Threads -> ThreadType]] /\ thread'["dgram"][session] = v
      /\ Others("dgram", session)
  BY <1>1, <1>3, <1>4, ThreadUpdate DEF StartPlay, Go
<1>6. Typed'
  BY <1>1, <1>2, <1>5 DEF StartPlay, Still, Base, Typed, QueueTypes
<1>7. Room'
  BY <1>1, <1>2, <1>3, <1>4, <1>5, RoomThread DEF StartPlay, Base, Room, Writing
<1>8. Control'
  BY <1>1, <1>2, ControlStart DEF StartPlay, Starting
<1> QED BY <1>6, <1>7, <1>8 DEF Base

(* The recording begins.                                                   *)
LEMMA BaseStartRecording ==
    ASSUME Base, StartRecording, Still
    PROVE  Base'
<1>1. ui \in UiType /\ ui.pc = "record" /\ crash = "no"
  BY DEF Base, Typed, StartRecording, Ui, Alive
<1>2. ui' \in UiType /\ ui'.pc = "idle" /\ ui'.todo = ui.todo /\ ui'.stopping = ui.stopping
  BY <1>1 DEF StartRecording, UiGo, UiType, UiPcs, Starting
<1>3. Typed'
  BY <1>2 DEF StartRecording, bufferVars, Still, Base, Typed, QueueTypes
<1>4. Room'
  BY <1>1, <1>2, RoomSame DEF StartRecording, bufferVars, QueuesSame, Base, Room
<1>5. connected /\ waveIn = "null" /\ ghost.callbacks = 0 /\ session # 0 /\ ~posted /\ ~lineSnd
      /\ ~ui.stopping
  BY <1>1 DEF Base, Control, Starting, Clearing
<1>6. connected' /\ waveIn' = "recording" /\ ghost'.callbacks = 0 /\ session' # 0 /\ ~posted'
      /\ ~lineSnd' /\ ~ui'.stopping /\ crash' = "no"
  BY <1>1, <1>2, <1>5 DEF StartRecording, bufferVars
<1>7. Control'
  BY <1>2, <1>6 DEF Control, Starting, Clearing
<1> QED BY <1>3, <1>4, <1>7 DEF Base

(* The button disconnects; a null m_wave_in means that the recording had   *)
(* failed.                                                                 *)
LEMMA BaseClickShutDown ==
    ASSUME Base, ClickShutDown, Still
    PROVE  Base'
<1>1. ui \in UiType /\ ui.pc = "idle" /\ crash = "no" /\ connected /\ ~posted
  BY DEF Base, Typed, ClickShutDown, Ui, Alive
<1>2. /\ ui' \in UiType /\ ui'.todo = ui.todo /\ crash' \in {"no", "null"}
      /\ ui'.pc \in {"idle", "stop"} /\ (ui'.pc = "stop" => ui'.stopping)
      /\ (ui'.pc = "idle" => ui' = ui)
  <2> DEFINE new == [ui EXCEPT !.pc = "stop", !.stopping = TRUE]
  <2>1. new \in UiType /\ new.todo = ui.todo /\ new.pc = "stop" /\ new.stopping
    BY <1>1 DEF UiType, UiPcs
  <2>2. (ui' = ui /\ crash' = "null") \/ (ui' = new /\ crash' = "no")
    <3>1. CASE waveIn = "null"
      BY <3>1 DEF ClickShutDown
    <3>2. CASE waveIn # "null"
      BY <1>1, <3>2 DEF ClickShutDown
    <3> QED BY <3>1, <3>2
  <2> HIDE DEF new
  <2> QED BY <1>1, <2>1, <2>2
<1>3. Typed'
  BY <1>2 DEF ClickShutDown, Still, Base, Typed, QueueTypes
<1>4. Room'
  BY <1>1, <1>2, RoomSame DEF ClickShutDown, QueuesSame, Base, Room
<1>5. /\ session # 0 /\ waveIn # "stopped" /\ ~ui.stopping
      /\ (ghost.failed \/ waveIn = "recording") /\ (waveIn = "null" => ~lineSnd)
      /\ (waveIn # "null" => (lineSnd <=> ghost.callbacks > 0))
  BY <1>1 DEF Base, Control, Starting, Clearing
<1>6. CASE waveIn = "null"
  <2>1. /\ ~connected' /\ waveIn' = "null" /\ ~lineSnd' /\ ~posted' /\ crash' = "null"
        /\ ui' = ui /\ ghost' = ghost /\ session' = session /\ ghost.failed
    BY <1>1, <1>5, <1>6 DEF ClickShutDown
  <2> QED BY <1>1, <1>3, <1>4, <1>5, <2>1 DEF Base, Control, Alive, Starting, Clearing
<1>7. CASE waveIn = "recording"
  <2>1. /\ ~connected' /\ waveIn' = "recording" /\ lineSnd' = lineSnd /\ ~posted'
        /\ crash' = "no" /\ ui'.pc = "stop" /\ ui'.stopping /\ ghost' = ghost
        /\ session' = session
    BY <1>1, <1>2, <1>7 DEF ClickShutDown, UiType
  <2>2. Control'
    BY <1>5, <1>7, <2>1 DEF Control, Alive, Starting, Clearing
  <2> QED BY <1>3, <1>4, <2>2 DEF Base
<1> QED BY <1>5, <1>6, <1>7, ControlBooleans DEF Base

(* StopRecording posts RecordingStopped.                                   *)
LEMMA BaseStopRecording ==
    ASSUME Base, StopRecording, Still
    PROVE  Base'
<1>1. ui \in UiType /\ ui.pc = "stop" /\ crash = "no"
  BY DEF Base, Typed, StopRecording, Ui, Alive
<1>2. ui' \in UiType /\ ui'.pc = "idle" /\ ui'.todo = ui.todo /\ ~ui'.stopping
  BY <1>1 DEF StopRecording, UiType, UiPcs
<1>3. Typed'
  BY <1>2 DEF StopRecording, bufferVars, Still, Base, Typed, QueueTypes
<1>4. Room'
  BY <1>1, <1>2, RoomSame DEF StopRecording, bufferVars, QueuesSame, Base, Room
<1>5. ~connected /\ session # 0 /\ (lineSnd <=> ghost.callbacks > 0)
  BY <1>1 DEF Base, Control
<1>6. /\ ~connected' /\ session' # 0 /\ (lineSnd' <=> ghost'.callbacks > 0)
      /\ waveIn' = "stopped" /\ posted' /\ crash' = "no"
  BY <1>1, <1>5 DEF StopRecording, bufferVars
<1>7. Control'
  BY <1>2, <1>6 DEF Control, Starting, Clearing
<1> QED BY <1>3, <1>4, <1>7 DEF Base

(* The sound device ends a recording.                                      *)
LEMMA BaseRecorderFails ==
    ASSUME Base, RecorderFails, Still
    PROVE  Base'
<1>1. ghost \in GhostType /\ ui.pc = "idle" /\ crash = "no" /\ waveIn = "recording"
  BY DEF Base, Typed, RecorderFails, Ui, Alive
<1>2. ghost' \in GhostType /\ ghost'.failed /\ ghost'.callbacks = ghost.callbacks
  <2>1. ghost.failures + 1 \in Nat
    BY <1>1 DEF GhostType
  <2> QED BY <1>1, <2>1 DEF RecorderFails, GhostType
<1>3. Typed'
  BY <1>2 DEF RecorderFails, bufferVars, Still, Base, Typed, QueueTypes
<1>4. Room'
  BY <1>1, RoomSame DEF RecorderFails, bufferVars, QueuesSame, Base, Room
<1>5. session # 0 /\ (lineSnd <=> ghost.callbacks > 0) /\ ~ui.stopping
  BY <1>1 DEF Base, Control
<1>6. /\ session' # 0 /\ (lineSnd' <=> ghost'.callbacks > 0) /\ ~ui'.stopping /\ ui'.pc = "idle"
      /\ waveIn' = "stopped" /\ posted' /\ crash' = "no"
  BY <1>1, <1>2, <1>5 DEF RecorderFails, bufferVars
<1>7. Control'
  BY <1>2, <1>6 DEF Control, Starting, Clearing
<1> QED BY <1>3, <1>4, <1>7 DEF Base

(* RecordingStopped is handled.                                            *)
LEMMA BaseOnRecordingStopped ==
    ASSUME Base, OnRecordingStopped, Still
    PROVE  Base'
<1>1. ui.pc = "idle" /\ crash = "no" /\ posted /\ waveIn = "stopped" /\ ~ui.stopping
  BY DEF Base, Typed, OnRecordingStopped, Ui, Alive, Control
<1>2. Typed'
  BY DEF OnRecordingStopped, bufferVars, Still, Base, Typed, QueueTypes
<1>3. Room'
  BY <1>1, RoomSame DEF OnRecordingStopped, bufferVars, QueuesSame, Base, Room
<1>4. session # 0 /\ (connected => ghost.failed)
  BY <1>1 DEF Base, Control, Starting, Clearing
<1>5. /\ session' # 0 /\ (connected' => ghost'.failed) /\ ~ui'.stopping /\ ui'.pc = "idle"
      /\ waveIn' = "null" /\ ~posted' /\ ~lineSnd' /\ crash' = "no"
  BY <1>1, <1>4 DEF OnRecordingStopped, bufferVars
<1>6. Control'
  BY <1>5 DEF Control, Starting, Clearing
<1> QED BY <1>2, <1>3, <1>6 DEF Base

-----------------------------------------------------------------------------
(* DataAvailable and the end of an Enqueue.                                *)

(* A producer about to call Enqueue.                                       *)
LEMMA CallTyped ==
    ASSUME NEW b \in BlockType
    PROVE  /\ Call(b) \in ThreadType /\ NoThread \in ThreadType
           /\ Call(b).pc = "count" /\ Call(b).data = b /\ Call(b).len = (b # Nothing)
           /\ NoThread.pc = "none" /\ NoThread.left = 0
<1>1. /\ 0 \in 0..(Blocks - 1) /\ 0 \in MinSize..Blocks /\ 0 \in 0..ShutDowns
      /\ Nothing \in BlockType
  BY Bounds, ShutDownsAssumption DEF BlockType
<1>2. NoThread \in ThreadType
  BY <1>1 DEF NoThread, ThreadType
<1> HIDE DEF NoThread
<1>3. Call(b) \in ThreadType /\ Call(b).pc = "count" /\ Call(b).data = b
      /\ Call(b).len = (b # Nothing)
  BY <1>2 DEF Call, ThreadType, InLoop
<1> QED BY <1>2, <1>3 DEF NoThread

(* What DataAvailable has to enqueue.                                      *)
Callback == IF lineSnd THEN <<Half(session), Half(session)>>
            ELSE <<Header(session), Half(session), Half(session)>>

(* The blocks of a callback.                                               *)
LEMMA CallbackTyped ==
    ASSUME session \in Sessions
    PROVE  Callback \in Seq(BlockType) /\ Callback # <<>> /\ Head(Callback) \in BlockType
<1>1. Header(session) \in BlockType /\ Half(session) \in BlockType
  BY DEF BlockType, Header, Half
<1>2. CASE lineSnd
  BY <1>1, <1>2 DEF Callback
<1>3. CASE ~lineSnd
  BY <1>1, <1>3 DEF Callback
<1> QED BY <1>2, <1>3

(* What DataAvailable changes of the producer.                             *)
LEMMA DataAvailableEffect ==
    ASSUME Base, DataAvailable
    PROVE  /\ session \in Sessions /\ waveIn = "recording" /\ crash = "no"
           /\ ui.pc \in {"idle", "stop"} /\ ~posted
           /\ ui' \in UiType /\ ui'.pc = "enqueue" /\ ui'.todo = Callback
           /\ ui'.stopping = ui.stopping
           /\ ghost' \in GhostType /\ ghost'.callbacks = ghost.callbacks + 1
           /\ ghost' = [ghost EXCEPT !.callbacks = @ + 1]
           /\ thread' \in [Queues -> [Threads -> ThreadType]]
           /\ Others("rec", Producer) /\ thread'["rec"][Producer] = Call(Head(Callback))
<1>1. ui \in UiType /\ ghost \in GhostType /\ QueueTypes
  BY DEF Base, Typed
<1>2. /\ crash = "no" /\ ui.pc \in {"idle", "stop"} /\ waveIn = "recording"
      /\ ghost.callbacks < scenario.callbacks
  BY DEF DataAvailable, Alive, Base, Control
<1>3. session \in Sessions /\ ~posted
  BY <1>2, YHbufferAssumption DEF Base, Typed, Control, Sessions
<1>4. /\ ui' = [ui EXCEPT !.pc = "enqueue", !.todo = Callback]
      /\ Becomes("rec", Producer, Call(Head(Callback)))
      /\ ghost' = [ghost EXCEPT !.callbacks = @ + 1]
  BY DEF DataAvailable, Callback
<1>5. /\ ui' \in UiType /\ ui'.pc = "enqueue" /\ ui'.todo = Callback
      /\ ui'.stopping = ui.stopping
  BY <1>1, <1>3, <1>4, CallbackTyped DEF UiType, UiPcs
<1>6. ghost' \in GhostType /\ ghost'.callbacks = ghost.callbacks + 1
  BY <1>1, <1>4 DEF GhostType
<1>7. /\ thread' \in [Queues -> [Threads -> ThreadType]]
      /\ Others("rec", Producer) /\ thread'["rec"][Producer] = Call(Head(Callback))
  <2>1. Call(Head(Callback)) \in ThreadType /\ Producer \in Threads /\ "rec" \in Queues
    BY <1>3, CallbackTyped, CallTyped DEF Threads, Queues
  <2> QED BY <1>1, <1>4, <2>1, ThreadUpdate
<1> QED BY <1>2, <1>3, <1>4, <1>5, <1>6, <1>7

(* DataAvailable is called.                                                *)
LEMMA BaseDataAvailable ==
    ASSUME Base, DataAvailable, Still
    PROVE  Base'
<1>1. Typed'
  BY DataAvailableEffect DEF DataAvailable, Still, Base, Typed, QueueTypes
<1>2. Room'
  <2>1. thread'["rec"][Producer].pc = "count"
    BY DataAvailableEffect, CallbackTyped, CallTyped
  <2>2. ui'.pc = "enqueue" /\ ui'.todo # <<>> /\ queue' = queue /\ Producer \in Threads
        /\ "rec" \in Queues
    BY DataAvailableEffect, CallbackTyped DEF DataAvailable, Threads, Queues
  <2> QED BY <2>1, <2>2, DataAvailableEffect, RoomThread DEF Base, Writing
<1>3. Control'
  <2>1. /\ session # 0 /\ (ui.stopping <=> ui.pc = "stop") /\ (ui.stopping => ~connected)
        /\ (~ui.stopping => connected) /\ ghost.callbacks \in Nat
    <3>1. session # 0 /\ ghost.callbacks \in Nat /\ waveIn = "recording" /\ Alive
      BY DataAvailableEffect, ControlBooleans, YHbufferAssumption DEF Base, Sessions, Alive
    <3>2. CASE ui.pc = "idle"
      BY <3>1, <3>2 DEF Base, Control
    <3>3. CASE ui.pc = "stop"
      BY <3>1, <3>3 DEF Base, Control
    <3> QED BY <3>1, <3>2, <3>3, DataAvailableEffect
  <2>2. /\ session' # 0 /\ ui'.pc = "enqueue" /\ (ui'.stopping => ~connected')
        /\ (~ui'.stopping => connected') /\ ghost'.callbacks > 0 /\ lineSnd'
        /\ waveIn' = "recording" /\ ~posted' /\ crash' = "no"
    BY <2>1, DataAvailableEffect DEF DataAvailable
  <2> QED BY <2>2 DEF Control, Starting, Clearing
<1> QED BY <1>1, <1>2, <1>3 DEF Base

(* What the return of Enqueue changes of the producer, and of the thread   *)
(* that sends.                                                             *)
LEMMA EnqueuedEffect ==
    ASSUME Base, Enqueued
    PROVE  /\ session \in Sessions /\ crash = "no" /\ ui.pc = "enqueue"
           /\ thread["rec"][Producer].pc = "done" /\ ui.todo # <<>>
           /\ ui' \in UiType /\ ui'.todo = Tail(ui.todo) /\ ui'.stopping = ui.stopping
           /\ ui'.pc = IF Tail(ui.todo) # <<>> THEN "enqueue"
                       ELSE IF ui.stopping THEN "stop" ELSE "idle"
           /\ ghost' \in GhostType
           /\ ghost' = IF Head(ui.todo) = Header(session)
                       THEN [ghost EXCEPT !.recorded = TRUE,
                                !.overlap = @ \cup {q \in {"rec"} : Running(q) # {}}]
                       ELSE ghost
           /\ ghost'.callbacks = ghost.callbacks /\ ghost'.failed = ghost.failed
           /\ thread' \in [Queues -> [Threads -> ThreadType]]
           /\ thread'["rec"][Producer] = IF Tail(ui.todo) = <<>> THEN NoThread
                                         ELSE Call(Head(Tail(ui.todo)))
           /\ thread'["rec"][session] = IF Head(ui.todo) = Header(session)
                                        THEN [thread["rec"][session] EXCEPT !.pc = "test"]
                                        ELSE thread["rec"][session]
           /\ \A p \in Queues, r \in Threads :
                 p # "rec" \/ r \notin {Producer, session} => thread'[p][r] = thread[p][r]
<1>1. ui \in UiType /\ ghost \in GhostType /\ QueueTypes /\ ui.todo \in Seq(BlockType)
  BY DEF Base, Typed, UiType
<1>2. /\ crash = "no" /\ ui.pc = "enqueue" /\ thread["rec"][Producer].pc = "done"
      /\ ui.todo # <<>>
  BY DEF Enqueued, Ui, At, Alive, Base, Room
<1>3. session \in Sessions /\ session # Producer /\ session \in Threads /\ Producer \in Threads
      /\ "rec" \in Queues
  BY <1>2, YHbufferAssumption DEF Base, Typed, Control, Sessions, Producer, Threads, Queues
<1> DEFINE left == Tail(ui.todo)
           starts == Head(ui.todo) = Header(session)
           pc == IF left # <<>> THEN "enqueue" ELSE IF ui.stopping THEN "stop" ELSE "idle"
           a == IF left = <<>> THEN NoThread ELSE Call(Head(left))
           b == IF starts THEN [thread["rec"][session] EXCEPT !.pc = "test"]
                ELSE thread["rec"][session]
<1>4. left \in Seq(BlockType) /\ (left # <<>> => Head(left) \in BlockType)
  BY <1>1, <1>2, HeadTailProperties
<1>5. ui' = [ui EXCEPT !.todo = left, !.pc = pc]
  BY DEF Enqueued
<1>6. ui' \in UiType /\ ui'.todo = left /\ ui'.stopping = ui.stopping /\ ui'.pc = pc
  <2>1. pc \in UiPcs
    BY DEF UiPcs
  <2> HIDE DEF pc, left
  <2> QED BY <1>1, <1>4, <1>5, <2>1 DEF UiType
<1>7. ghost' = IF starts
               THEN [ghost EXCEPT !.recorded = TRUE,
                        !.overlap = @ \cup {q \in {"rec"} : Running(q) # {}}]
               ELSE ghost
  BY DEF Enqueued
<1>8. /\ ghost' \in GhostType /\ ghost'.callbacks = ghost.callbacks
      /\ ghost'.failed = ghost.failed
  <2>1. {q \in {"rec"} : Running(q) # {}} \subseteq Queues
    BY <1>3
  <2> HIDE DEF starts
  <2> QED BY <1>1, <1>7, <2>1 DEF GhostType
<1>9. a \in ThreadType /\ b \in ThreadType
  <2>1. thread["rec"][session] \in ThreadType
    BY <1>1, <1>3 DEF QueueTypes
  <2>2. [thread["rec"][session] EXCEPT !.pc = "test"] \in ThreadType
    BY <2>1 DEF ThreadType, InLoop
  <2>3. NoThread \in ThreadType
    BY CallTyped DEF BlockType
  <2> QED BY <1>4, <2>1, <2>2, <2>3, CallTyped
<1>10. thread' = [thread EXCEPT !["rec"][Producer] = a, !["rec"][session] = b]
  BY <1>1, <1>3 DEF Enqueued, QueueTypes
<1> HIDE DEF a, b, left, starts
<1>11. /\ thread' \in [Queues -> [Threads -> ThreadType]]
       /\ thread'["rec"][Producer] = a /\ thread'["rec"][session] = b
       /\ \A p \in Queues, r \in Threads :
             p # "rec" \/ r \notin {Producer, session} => thread'[p][r] = thread[p][r]
  BY <1>1, <1>3, <1>9, <1>10 DEF QueueTypes
<1> QED BY <1>2, <1>3, <1>6, <1>7, <1>8, <1>11 DEF a, b, left, starts

(* Enqueue has returned: the next block, or the end of the callback; the   *)
(* thread that sends begins.                                               *)
LEMMA BaseEnqueued ==
    ASSUME Base, Enqueued, Still
    PROVE  Base'
<1>1. Typed'
  BY EnqueuedEffect DEF Enqueued, Still, Base, Typed, QueueTypes
<1>2. Room'
  <2>1. \A q \in Queues : RoomOf(q)'
    <3> SUFFICES ASSUME NEW q \in Queues PROVE RoomOf(q)'
      OBVIOUS
    <3>1. queue' = queue /\ Producer \in Threads /\ session # Producer
      BY EnqueuedEffect, YHbufferAssumption DEF Enqueued, Threads, Sessions, Producer
    <3>2. CASE q = "rec"
      <4>1. thread'["rec"][Producer].pc \in {"none", "count"}
        <5>1. Tail(ui.todo) \in Seq(BlockType)
          BY EnqueuedEffect, HeadTailProperties DEF Base, Typed, UiType
        <5>2. CASE Tail(ui.todo) = <<>>
          BY <5>2, EnqueuedEffect DEF NoThread
        <5>3. CASE Tail(ui.todo) # <<>>
          <6>1. Head(Tail(ui.todo)) \in BlockType
            BY <5>1, <5>3, HeadTailProperties
          <6> QED BY <5>3, <6>1, EnqueuedEffect, CallTyped
        <5> QED BY <5>2, <5>3
      <4> QED BY <3>2, <4>1 DEF RoomOf, Writing
    <3>3. CASE q # "rec"
      <4>1. thread'[q][Producer] = thread[q][Producer]
        BY <3>1, <3>3, EnqueuedEffect
      <4> QED BY <3>1, <4>1 DEF Base, Room, RoomOf
    <3> QED BY <3>2, <3>3
  <2>2. \A s \in Sessions : thread'["rec"][s].pc = "shut" => thread'["rec"][s].left > 0
    <3> SUFFICES ASSUME NEW s \in Sessions, thread'["rec"][s].pc = "shut"
                 PROVE  thread'["rec"][s].left > 0
      OBVIOUS
    <3>1. s \in Threads /\ s # Producer /\ "rec" \in Queues
      BY YHbufferAssumption DEF Threads, Sessions, Producer, Queues
    <3>2. thread["rec"][s] \in ThreadType
      BY <3>1 DEF Base, Typed, QueueTypes
    <3>3. thread'["rec"][s] = thread["rec"][s]
      <4>1. CASE s = session
        <5>1. [thread["rec"][s] EXCEPT !.pc = "test"].pc = "test"
          BY <3>2 DEF ThreadType
        <5> QED BY <4>1, <5>1, EnqueuedEffect
      <4>2. CASE s # session
        BY <3>1, <4>2, EnqueuedEffect
      <4> QED BY <4>1, <4>2
    <3> QED BY <3>3 DEF Base, Room
  <2>3. ui'.pc = "enqueue" <=> ui'.todo # <<>>
    BY EnqueuedEffect
  <2> QED BY <2>1, <2>2, <2>3 DEF Room
<1>3. Control'
  <2>1. /\ session # 0 /\ ~posted /\ (ui.stopping => ~connected) /\ (~ui.stopping => connected)
        /\ lineSnd /\ ghost.callbacks > 0 /\ waveIn = "recording"
    BY EnqueuedEffect DEF Base, Control
  <2>2. /\ session' # 0 /\ ~posted' /\ (ui'.stopping => ~connected')
        /\ (~ui'.stopping => connected') /\ lineSnd' /\ ghost'.callbacks > 0
        /\ waveIn' = "recording" /\ crash' = "no"
    BY <2>1, EnqueuedEffect DEF Enqueued
  <2>3. CASE Tail(ui.todo) # <<>>
    BY <2>2, <2>3, EnqueuedEffect DEF Control, Starting, Clearing
  <2>4. CASE Tail(ui.todo) = <<>> /\ ui.stopping
    BY <2>2, <2>4, EnqueuedEffect DEF Control, Starting, Clearing
  <2>5. CASE Tail(ui.todo) = <<>> /\ ~ui.stopping
    BY <2>2, <2>5, EnqueuedEffect DEF Control, Starting, Clearing
  <2> QED BY <2>3, <2>4, <2>5
<1> QED BY <1>1, <1>2, <1>3 DEF Base

-----------------------------------------------------------------------------
(* The threads, the device and the network.                                *)

(* They leave the button and the recording alone.                          *)
ControlSame ==
    /\ UNCHANGED <<connected, session, lineSnd, waveIn, posted, ui>>
    /\ ghost'.failed = ghost.failed /\ ghost'.callbacks = ghost.callbacks

(* Control does not turn on queues or threads.                             *)
LEMMA ControlKept ==
    ASSUME Base, ControlSame, crash = "no", crash' # "null"
    PROVE  Control'
  BY DEF Base, Control, ControlSame, Alive

(* A datagram is received.                                                 *)
LEMMA BaseReceiveFrom ==
    ASSUME Base, ReceiveFrom, Still
    PROVE  Base'
<1>1. /\ Head(air) \in BlockType /\ Tail(air) \in Seq({Audio}) /\ crash = "no"
      /\ "dgram" \in Queues /\ Producer \in Threads
  BY HeadTailProperties DEF Base, Typed, ReceiveFrom, BlockType, Alive, Queues, Threads
<1>2. /\ thread' \in [Queues -> [Threads -> ThreadType]] /\ Others("dgram", Producer)
      /\ thread'["dgram"][Producer].pc = "count"
  <2>1. /\ Call(Head(air)) \in ThreadType /\ Call(Head(air)).pc = "count"
    BY <1>1, CallTyped
  <2> QED BY <1>1, <2>1, ThreadUpdate DEF ReceiveFrom, Base, Typed
<1>3. Typed'
  BY <1>1, <1>2 DEF ReceiveFrom, Still, Base, Typed, QueueTypes
<1>4. Room'
  BY <1>1, <1>2, RoomThread DEF ReceiveFrom, Base, Room, Writing
<1>5. Control'
  BY <1>1, ControlKept DEF ReceiveFrom, ControlSame
<1> QED BY <1>3, <1>4, <1>5 DEF Base

(* A call of the system throws.                                            *)
LEMMA BaseSystemThrows ==
    ASSUME Base, SystemThrows, Still
    PROVE  Base'
<1>1. crash = "no" /\ crash' = "system"
  BY DEF SystemThrows, Ui, At, Alive
<1>2. Typed'
  BY <1>1 DEF SystemThrows, Still, Base, Typed, QueueTypes
<1>3. Room'
  BY RoomSame DEF SystemThrows, QueuesSame, Base, Room
<1>4. Control'
  BY <1>1, ControlKept DEF SystemThrows, ControlSame
<1> QED BY <1>2, <1>3, <1>4 DEF Base

(* The test of the flag: into the loop, or out of it to the shut-downs.    *)
LEMMA TestFlagEffect ==
    ASSUME Base, NEW q \in Queues, NEW s \in Sessions, TestFlag(q, s)
    PROVE  /\ crash = "no" /\ thread[q][s].pc = "test"
           /\ thread' \in [Queues -> [Threads -> ThreadType]] /\ Others(q, s)
           /\ Flag(q) => /\ thread'[q][s].pc = IF Followed(q) THEN "count" ELSE "test"
                         /\ thread'[q][s].left = thread[q][s].left
           /\ ~Flag(q) /\ q = "dgram" => thread'[q][s].pc = "end"
           /\ ~Flag(q) /\ q = "rec" => /\ thread'[q][s].pc = "shut"
                                       /\ thread'[q][s].left = ShutDowns
<1> DEFINE me == thread[q][s]
           into == [me EXCEPT !.pc = IF Followed(q) THEN "count" ELSE "test"]
           out == [me EXCEPT !.pc = "end"]
           shut == [me EXCEPT !.pc = "shut", !.left = ShutDowns]
<1>1. me \in ThreadType /\ s \in Threads /\ QueueTypes
  BY DEF Base, Typed, QueueTypes, Threads
<1>2. crash = "no" /\ me.pc = "test"
  BY DEF TestFlag, At, Alive
<1>3. /\ into \in ThreadType /\ into.pc = (IF Followed(q) THEN "count" ELSE "test")
      /\ into.left = me.left
  <2>1. (IF Followed(q) THEN "count" ELSE "test") \in InLoop
    BY DEF InLoop
  <2> QED BY <1>1, <2>1 DEF ThreadType
<1>4. out \in ThreadType /\ out.pc = "end"
  BY <1>1 DEF ThreadType
<1>5. shut \in ThreadType /\ shut.pc = "shut" /\ shut.left = ShutDowns
  <2>1. ShutDowns \in 0..ShutDowns
    BY ShutDownsAssumption
  <2> QED BY <1>1, <2>1 DEF ThreadType
<1>6. Becomes(q, s, IF Flag(q) THEN into ELSE IF q = "dgram" THEN out ELSE shut)
  BY DEF TestFlag
<1> HIDE DEF into, out, shut
<1>7. CASE Flag(q)
  BY <1>1, <1>2, <1>3, <1>6, <1>7, ThreadUpdate
<1>8. CASE ~Flag(q) /\ q = "dgram"
  BY <1>1, <1>2, <1>4, <1>6, <1>8, ThreadUpdate
<1>9. CASE ~Flag(q) /\ q = "rec"
  BY <1>1, <1>2, <1>5, <1>6, <1>9, ThreadUpdate
<1> QED BY <1>7, <1>8, <1>9 DEF Queues

(* A thread tests its flag.                                                *)
LEMMA BaseTestFlag ==
    ASSUME Base, NEW q \in Queues, NEW s \in Sessions, TestFlag(q, s), Still
    PROVE  Base'
<1>1. s \in Threads /\ s # Producer
  BY YHbufferAssumption DEF Threads, Sessions, Producer
<1>2. Typed'
  BY TestFlagEffect DEF TestFlag, ThreadUnchanged, Still, Base, Typed, QueueTypes
<1>3. Room'
  <2>1. /\ thread'[q][s].pc \notin Writing \cup {"enqueue", "growStore"}
        /\ thread'[q][s].pc = "shut" => thread'[q][s].left > 0
    BY TestFlagEffect, ShutDownsAssumption DEF Queues, Writing
  <2> QED BY <1>1, <2>1, TestFlagEffect, RoomThread
          DEF TestFlag, ThreadUnchanged, Base, Room
<1>4. Control'
  BY TestFlagEffect, ControlKept DEF TestFlag, ThreadUnchanged, ControlSame
<1> QED BY <1>2, <1>3, <1>4 DEF Base

(* A block is used, or has no data and ends the process.                   *)
LEMMA UseEffect ==
    ASSUME Base, NEW q \in Queues, NEW s \in Sessions, Use(q, s)
    PROVE  /\ crash = "no" /\ thread[q][s].pc = "use" /\ ghost' \in GhostType
           /\ ghost'.failed = ghost.failed /\ ghost'.callbacks = ghost.callbacks
           /\ thread' \in [Queues -> [Threads -> ThreadType]]
           /\ \/ crash' = "argument" /\ thread' = thread /\ ghost' = ghost
              \/ /\ crash' = "no" /\ Others(q, s)
                 /\ thread'[q][s].pc = "test" /\ thread'[q][s].left = thread[q][s].left
                 /\ ghost' = IF q = "rec" THEN [ghost EXCEPT !.sent = s] ELSE ghost
<1> DEFINE me == thread[q][s]  v == [me EXCEPT !.pc = "test", !.data = Nothing, !.len = FALSE]
<1>1. me \in ThreadType /\ s \in Threads /\ QueueTypes /\ ghost \in GhostType
  BY DEF Base, Typed, QueueTypes, Threads
<1>2. crash = "no" /\ me.pc = "use"
  BY DEF Use, At, Alive
<1>3. CASE me.data = Nothing
  BY <1>1, <1>2, <1>3 DEF Use, QueueTypes
<1>4. CASE me.data # Nothing
  <2>1. Nothing \in BlockType
    BY DEF BlockType
  <2>2. v \in ThreadType /\ v.pc = "test" /\ v.left = me.left
    BY <1>1, <2>1 DEF ThreadType, InLoop
  <2>3. /\ Becomes(q, s, v) /\ crash' = "no"
        /\ ghost' = IF q = "rec" THEN [ghost EXCEPT !.sent = s] ELSE ghost
    BY <1>2, <1>4 DEF Use
  <2>4. s \in 0..MaxSessions
    BY YHbufferAssumption DEF Sessions
  <2>5. [ghost EXCEPT !.sent = s] \in GhostType
        /\ [ghost EXCEPT !.sent = s].sent = s
        /\ [ghost EXCEPT !.sent = s].failed = ghost.failed
        /\ [ghost EXCEPT !.sent = s].callbacks = ghost.callbacks
    BY <1>1, <2>4 DEF GhostType
  <2>6. /\ thread' \in [Queues -> [Threads -> ThreadType]] /\ Others(q, s)
        /\ thread'[q][s] = v
    BY <1>1, <2>2, <2>3, ThreadUpdate
  <2> HIDE DEF v
  <2> QED BY <1>1, <1>2, <2>2, <2>3, <2>5, <2>6
<1> QED BY <1>3, <1>4

(* A thread plays or sends a block.                                        *)
LEMMA BaseUse ==
    ASSUME Base, NEW q \in Queues, NEW s \in Sessions, Use(q, s), Still
    PROVE  Base'
<1>1. s \in Threads /\ s # Producer
  BY YHbufferAssumption DEF Threads, Sessions, Producer
<1>2. Typed'
  BY UseEffect DEF Use, ThreadUnchanged, Still, Base, Typed, QueueTypes
<1>3. Room'
  <2>1. CASE thread' = thread
    BY <2>1, RoomSame DEF Use, ThreadUnchanged, QueuesSame, Base, Room
  <2>2. CASE Others(q, s) /\ thread'[q][s].pc = "test"
    BY <1>1, <2>2, RoomThread DEF Use, ThreadUnchanged, Base, Room, Writing
  <2> QED BY <2>1, <2>2, UseEffect
<1>4. Control'
  BY UseEffect, ControlKept DEF Use, ThreadUnchanged, ControlSame
<1> QED BY <1>2, <1>3, <1>4 DEF Base

(* One AT2 less to send.                                                   *)
LEMMA LineShutDownEffect ==
    ASSUME Base, NEW s \in Sessions, LineShutDown(s)
    PROVE  /\ crash = "no" /\ crash' = "no" /\ thread["rec"][s].pc = "shut"
           /\ thread' \in [Queues -> [Threads -> ThreadType]] /\ Others("rec", s)
           /\ thread["rec"][s].left \in Nat /\ thread["rec"][s].left > 0
           /\ thread'["rec"][s].left = thread["rec"][s].left - 1
           /\ thread'["rec"][s].pc = IF thread["rec"][s].left = 1 THEN "end" ELSE "shut"
           /\ net' = Append(net, <<"AT2", s>>) /\ net' \in Seq({"AT1", "AT2"} \X Sessions)
<1> DEFINE me == thread["rec"][s]
           pc == IF me.left = 1 THEN "end" ELSE "shut"
           v == [me EXCEPT !.left = @ - 1, !.pc = pc]
<1>1. me \in ThreadType /\ s \in Threads /\ QueueTypes /\ "rec" \in Queues
  BY DEF Base, Typed, QueueTypes, Threads, Queues
<1>2. crash = "no" /\ crash' = "no" /\ me.pc = "shut" /\ me.left > 0
  BY DEF LineShutDown, At, Alive, Base, Room
<1>3. me.left \in 0..ShutDowns /\ me.left - 1 \in 0..ShutDowns
  BY <1>1, <1>2, ShutDownsAssumption DEF ThreadType
<1>4. pc \in {"end", "shut"}
  OBVIOUS
<1>5. Becomes("rec", s, v)
  BY DEF LineShutDown
<1> HIDE DEF pc
<1>6. v \in ThreadType /\ v.pc = pc /\ v.left = me.left - 1
  BY <1>1, <1>3, <1>4 DEF ThreadType
<1> HIDE DEF v
<1>7. /\ thread' \in [Queues -> [Threads -> ThreadType]] /\ Others("rec", s)
      /\ thread'["rec"][s] = v
  BY <1>1, <1>5, <1>6, ThreadUpdate
<1>8. net' = Append(net, <<"AT2", s>>) /\ net' \in Seq({"AT1", "AT2"} \X Sessions)
  BY AppendProperties DEF LineShutDown, Base, Typed
<1> QED BY <1>2, <1>3, <1>6, <1>7, <1>8 DEF pc

(* An AT2 goes out.                                                        *)
LEMMA BaseLineShutDown ==
    ASSUME Base, NEW s \in Sessions, LineShutDown(s), Still
    PROVE  Base'
<1>1. s \in Threads /\ s # Producer /\ "rec" \in Queues
  BY YHbufferAssumption DEF Threads, Sessions, Producer, Queues
<1>2. Typed'
  BY LineShutDownEffect DEF LineShutDown, ThreadUnchanged, Still, Base, Typed, QueueTypes
<1>3. Room'
  <2>1. /\ thread'["rec"][s].pc \notin Writing \cup {"enqueue", "growStore"}
        /\ thread'["rec"][s].pc = "shut" => thread'["rec"][s].left > 0
    <3>1. CASE thread["rec"][s].left = 1
      BY <3>1, LineShutDownEffect DEF Writing
    <3>2. CASE thread["rec"][s].left # 1
      BY <3>2, LineShutDownEffect DEF Writing
    <3> QED BY <3>1, <3>2
  <2> QED BY <1>1, <2>1, LineShutDownEffect, RoomThread
          DEF LineShutDown, ThreadUnchanged, Base, Room
<1>4. Control'
  BY LineShutDownEffect, ControlKept DEF LineShutDown, ThreadUnchanged, ControlSame
<1> QED BY <1>2, <1>3, <1>4 DEF Base

(* A step inside YHbuffer, as a step of the program.                       *)
LEMMA BaseQueueStep ==
    ASSUME Base, NEW q \in Queues, NEW t \in Threads, QueueStep(q, t), OutsideUnchanged,
           scenario' = scenario, Still
    PROVE  Base'
<1>1. Kept(q, t) /\ RoomOf(q)'
  BY QueueStepKept DEF Base, Typed, Room
<1>2. Typed'
  BY <1>1 DEF Kept, OutsideUnchanged, Still, Base, Typed, QueueTypes
<1>3. Room'
  <2>1. \A p \in Queues : RoomOf(p)'
    <3> SUFFICES ASSUME NEW p \in Queues, p # q PROVE RoomOf(p)'
      BY <1>1
    <3>1. thread'[p][Producer] = thread[p][Producer] /\ queue'[p] = queue[p]
      BY <1>1 DEF Kept, Others, OtherQueues, Threads
    <3> QED BY <3>1 DEF Base, Room, RoomOf
  <2>2. ASSUME NEW s \in Sessions, thread'["rec"][s].pc = "shut"
        PROVE  thread'["rec"][s].left > 0
    <3>1. s \in Threads /\ s # Producer /\ "rec" \in Queues
      BY YHbufferAssumption DEF Threads, Sessions, Producer, Queues
    <3>2. ~(q = "rec" /\ t = s)
      BY <1>1, <2>2, <3>1 DEF Kept, InQueue, InLoop, InDequeue
    <3>3. thread'["rec"][s] = thread["rec"][s]
      BY <1>1, <3>1, <3>2 DEF Kept, Others
    <3> QED BY <2>2, <3>3 DEF Base, Room
  <2> QED BY <2>1, <2>2 DEF Room, Base, OutsideUnchanged
<1>4. Control'
  BY <1>1, ControlKept DEF Kept, OutsideUnchanged, ControlSame
<1> QED BY <1>2, <1>3, <1>4 DEF Base

(* The device and the network.                                             *)
DeviceStep == DeviceReceive \/ DeviceSend \/ NetLose

(* The device and the network.                                             *)
LEMMA BaseDevice ==
    ASSUME Base, DeviceStep
    PROVE  Base'
<1>1. ghost \in GhostType /\ crash = "no" /\ net \in Seq({"AT1", "AT2"} \X Sessions)
  BY DEF Base, Typed, DeviceStep, DeviceReceive, DeviceSend, NetLose, Alive
<1>2. QueuesSame /\ crash' = crash /\ scenario' = scenario
  BY DEF DeviceStep, DeviceReceive, DeviceSend, NetLose, pcVars, bufferVars, QueuesSame
<1>3. ghost' \in GhostType /\ ghost'.failed = ghost.failed /\ ghost'.callbacks = ghost.callbacks
  <2>1. CASE DeviceReceive
    BY <1>1, <2>1 DEF DeviceReceive, GhostType
  <2>2. CASE DeviceSend
    BY <1>1, <2>2 DEF DeviceSend
  <2>3. CASE NetLose
    BY <1>1, <2>3 DEF NetLose, GhostType
  <2> QED BY <2>1, <2>2, <2>3 DEF DeviceStep
<1>4. net # <<>> => Tail(net) \in Seq({"AT1", "AT2"} \X Sessions)
  BY <1>1, HeadTailProperties
<1>5. Typed'
  <2>1. CASE DeviceReceive
    BY <1>3, <1>4, <2>1 DEF DeviceReceive, pcVars, bufferVars, Base, Typed, QueueTypes
  <2>2. CASE DeviceSend
    <3>1. air' \in Seq({Audio}) /\ audio' \in Nat /\ sending' \in BOOLEAN
      BY <2>2, AppendProperties DEF DeviceSend, Base, Typed
    <3> QED BY <1>3, <2>2, <3>1 DEF DeviceSend, pcVars, bufferVars, Base, Typed, QueueTypes
  <2>3. CASE NetLose
    <3>1. scenario.loss \in Nat
      BY YHbufferAssumption DEF Base, Typed
    <3>2. loss' \in 0..scenario.loss
      BY <2>3, <3>1 DEF NetLose, Base, Typed
    <3> QED BY <1>3, <1>4, <2>3, <3>2
            DEF NetLose, pcVars, bufferVars, device, Base, Typed, QueueTypes
  <2> QED BY <2>1, <2>2, <2>3 DEF DeviceStep
<1>6. ControlSame
  BY <1>3 DEF DeviceStep, DeviceReceive, DeviceSend, NetLose, pcVars, ControlSame
<1>7. Room'
  BY <1>2, <1>6, RoomSame DEF ControlSame, Base, Room
<1> QED BY <1>1, <1>2, <1>5, <1>6, <1>7, ControlKept DEF Base

-----------------------------------------------------------------------------
(* The invariant.                                                          *)

(* The program at its start.                                               *)
LEMMA BaseInit == Init => Base
<1> SUFFICES ASSUME Init PROVE Base
  OBVIOUS
<1>1. /\ scenario \in Scenarios /\ crash = "no" /\ session = 0 /\ connected = FALSE
      /\ waveIn = "null" /\ posted = FALSE /\ lineSnd = FALSE /\ lineRcv = FALSE
      /\ line = FALSE /\ sending = FALSE /\ audio = 0 /\ loss = 0
      /\ net = <<>> /\ air = <<>>
      /\ ui = [pc |-> "idle", clears |-> "dgram", todo |-> <<>>, stopping |-> FALSE]
  BY DEF Init, PcInit, BufferInit
<1>2. /\ queue \in [Queues -> QueueType]
  <2>1. /\ 0 \in 0..(Blocks - 1) /\ 0 \in MinSize..Blocks
    BY Bounds
  <2>2. Element(Nothing) \in SlotType
    BY DEF Element, SlotType, BlockType
  <2> QED BY <2>1, <2>2 DEF Init, PcInit, BufferInit, QueueType
<1>3. thread = [q \in Queues |-> [t \in Threads |-> NoThread]]
  BY DEF Init, PcInit, BufferInit
<1>4. NoThread \in ThreadType /\ NoThread.pc = "none"
  BY CallTyped DEF BlockType
<1>5. ui \in UiType /\ ui.pc = "idle" /\ ui.todo = <<>> /\ ~ui.stopping
  BY <1>1 DEF UiType, UiPcs, Queues
<1>6. ghost \in GhostType /\ ghost.callbacks = 0
  BY YHbufferAssumption DEF Init, GhostType
<1>7. scenario.loss \in Nat
  BY <1>1, YHbufferAssumption
<1> HIDE DEF NoThread
<1>8. Typed
  <2>1. QueueTypes
    BY <1>2, <1>3, <1>4 DEF QueueTypes
  <2>2. net \in Seq({"AT1", "AT2"} \X Sessions) /\ air \in Seq({Audio})
    BY <1>1
  <2>3. session \in 0..MaxSessions /\ audio \in Nat /\ loss \in 0..scenario.loss
    BY <1>1, <1>7, YHbufferAssumption
  <2> QED BY <1>1, <1>5, <1>6, <2>1, <2>2, <2>3 DEF Typed
<1>9. Room
  BY <1>3, <1>4, <1>5, YHbufferAssumption
     DEF Room, RoomOf, Writing, Threads, Sessions, Producer, Queues
<1>10. Control
  BY <1>1, <1>5, <1>6 DEF Control, Starting, Clearing
<1> QED BY <1>8, <1>9, <1>10 DEF Base

(* The actions one by one.                                                 *)
PcSteps ==
    \/ ClickStart \/ ClickShutDown \/ StartClear \/ LineEstablish \/ StartPlay \/ StartRecording
    \/ StopRecording \/ Enqueued \/ DataAvailable \/ RecorderFails \/ OnRecordingStopped
    \/ ReceiveFrom \/ SystemThrows
    \/ \E s \in Sessions : LineShutDown(s)
    \/ \E q \in Queues, s \in Sessions : TestFlag(q, s) \/ Use(q, s)
    \/ \E q \in Queues, t \in Threads :
          QueueStep(q, t) /\ OutsideUnchanged /\ scenario' = scenario

(* Every step of Next is one of those above.                               *)
LEMMA StepGroups ==
    ASSUME Next
    PROVE  (PcSteps /\ Still) \/ DeviceStep
<1>1. CASE DeviceStep
  BY <1>1
<1>2. CASE Pc /\ Still
  <2>1. Producer \in Threads /\ \A s \in Sessions : s \in Threads /\ s # Producer
    BY YHbufferAssumption DEF Threads, Sessions, Producer
  <2>2. \A q \in Queues, t \in Threads : Enqueue(q) \/ Dequeue(q, t) \/ DequeueCount(q, t)
                                          => scenario' = scenario
    <3> SUFFICES ASSUME NEW q \in Queues, NEW t \in Threads
                 PROVE  Enqueue(q) \/ Dequeue(q, t) \/ DequeueCount(q, t) => scenario' = scenario
      OBVIOUS
    <3>1. CASE Enqueue(q)
      BY <3>1 DEF Enqueue, EnqueueCount, EnqueueCheck, EnqueueData, EnqueueLen, EnqueueTail,
         EnqueueSize, EnqueueSizeStore
    <3>2. CASE Dequeue(q, t)
      BY <3>2 DEF Dequeue, DequeueCheck, DequeueData, DequeueLen, DequeueClear,
         DequeueClearLen, DequeueHead, DequeueHeadStore, DequeueSize, DequeueSizeStore
    <3>3. CASE DequeueCount(q, t)
      BY <3>3 DEF DequeueCount
    <3> QED BY <3>1, <3>2, <3>3
  <2>3. \A q \in Queues : Produce(q) => PcSteps
    BY <2>1, <2>2 DEF Produce, QueueStep, PcSteps
  <2>4. UiSteps \/ Receive => PcSteps
    BY <2>3 DEF UiSteps, Receive, PcSteps, Queues
  <2>5. \A q \in Queues, s \in Sessions : Thread(q, s) => PcSteps
    BY <2>1, <2>2 DEF Thread, QueueStep, PcSteps
  <2>6. Pc => PcSteps
    BY <2>4, <2>5 DEF Pc, Click, PcSteps
  <2> QED BY <1>2, <2>6
<1> QED BY <1>1, <1>2 DEF Next, DeviceStep, Still, device

(* Base is inductive.                                                      *)
LEMMA BaseKept == Base /\ [Next]_vars => Base'
<1> SUFFICES ASSUME Base, [Next]_vars PROVE Base'
  OBVIOUS
<1>1. CASE UNCHANGED vars
  BY <1>1 DEF vars, Base, Typed, QueueTypes, Room, RoomOf, Control, Alive
<1>2. CASE PcSteps /\ Still
  BY <1>2, BaseClickStart, BaseClickShutDown, BaseStartClear, BaseLineEstablish, BaseStartPlay,
     BaseStartRecording, BaseStopRecording, BaseEnqueued, BaseDataAvailable, BaseRecorderFails,
     BaseOnRecordingStopped, BaseReceiveFrom, BaseSystemThrows, BaseLineShutDown, BaseTestFlag,
     BaseUse, BaseQueueStep
     DEF PcSteps
<1>3. CASE DeviceStep
  BY <1>3, BaseDevice
<1> QED BY <1>1, <1>2, <1>3, StepGroups

(* Types, the producers' room and the button's control hold in every state *)
(* of EndToEnd.                                                            *)
THEOREM BaseInvariant == Spec => []Base
<1> QED BY BaseInit, BaseKept, PTL DEF Spec

(* Every field of YHnet and its queues keeps its type: whatever updates    *)
(* two threads in Queue<T> lose, head and tail stay in the array and no    *)
(* size exceeds m_blocks.                                                  *)
THEOREM TypeCorrect == Spec => []TypeOK
<1>1. Base => TypeOK
  BY DEF Base, Typed, QueueTypes, TypeOK, UiType, UiPcs, Starting, Clearing
<1> QED BY <1>1, BaseInvariant, PTL

(* Queue<T>.Enqueue never finds its array full and so never replaces it    *)
(* under the thread in Dequeue: only the producer raises a size, by one,   *)
(* and never past the Count that YHbuffer.Enqueue has tested.              *)
THEOREM ArraysNeverGrow == Spec => []NeverGrows
<1>1. Base => NeverGrows
  BY DEF Base, Typed, NeverGrows
<1> QED BY <1>1, BaseInvariant, PTL

(* ShutDown dereferences a null m_wave_in only in a session whose          *)
(* recording the sound device ended: OnRecordingStopped of an earlier      *)
(* session comes before the next Start.                                    *)
THEOREM RecorderGoneAfterFailure == Spec => []NullAfterFailure
<1>1. Base => NullAfterFailure
  BY DEF Base, Control, NullAfterFailure
<1> QED BY <1>1, BaseInvariant, PTL
=============================================================================
