------------------------------ MODULE YHbuffer ------------------------------
(***************************************************************************)
(* YHbuffer (YHbuffer.cs): a Queue<T> of at most Blocks elements that      *)
(* drops the oldest.  A producer and the consumers of it are threads of    *)
(* their own and nothing is locked, so the queue is modelled at its        *)
(* accesses to memory: an array with a head, a tail and a size, as         *)
(* Queue<T> of the .NET Framework is written, where an element is two      *)
(* words, a size++ is a load and a store, and a field that a method has    *)
(* read may be kept in a register or read again.                           *)
(***************************************************************************)
EXTENDS Integers, Sequences, FiniteSets

CONSTANTS
    Blocks,        \* capacity of a YHbuffer, 3 in the code
    MaxSessions,   \* bound: calls of Start in any behaviour
    MinSize,       \* bound: a size below zero is not followed further down
    Scenarios      \* bounds on what happens in one behaviour, one is chosen

Queues == {"dgram", "rec"}

(* sessions: calls of Start; ended: how many of them ShutDown may end.     *)
(* queues: those whose contents are followed.  callbacks: DataAvailable in  *)
(* one recording.  failures: recordings that the sound device ends.        *)
(* audio: datagrams of the device.  loss: commands the network loses.      *)
ASSUME YHbufferAssumption ==
    /\ Blocks \in Nat \ {0} /\ MaxSessions \in Nat /\ MinSize \in Int /\ MinSize < 0
    /\ \A c \in Scenarios : /\ DOMAIN c = {"sessions", "ended", "queues", "callbacks",
                                             "failures", "audio", "loss"}
                            /\ c.queues \subseteq Queues
                            /\ {c.sessions, c.ended} \subseteq 0..MaxSessions
                            /\ {c.callbacks, c.failures, c.audio, c.loss} \subseteq Nat

VARIABLES
    scenario,  \* the bounds of this behaviour
    queue,     \* m_dgram_queue and m_queue_rec: array, head, tail, size
    thread,    \* their producers (0) and consumers: pc, locals, registers
    crash      \* the exception that ended the process

bufferVars == <<scenario, queue, thread, crash>>

(* The producer of a queue is thread 0, the consumers have the number of   *)
(* the session that started them.                                          *)
Sessions == 1..MaxSessions
Producer == 0
Threads == {Producer} \cup Sessions

(* Blocks: <<session, "header">> is the wave header of a recording and     *)
(* <<session, "half">> half a callback's samples, audio from the device is *)
(* <<0, "audio">>.  Of m_len the model keeps whether it is above 0.        *)
Nothing == <<0, "null">>
Header(s) == <<s, "header">>
Half(s) == <<s, "half">>
Audio == <<0, "audio">>
Element(block) == [data |-> block, len |-> block # Nothing]
NoThread == [pc |-> "none", data |-> Nothing, len |-> FALSE, index |-> 0, size |-> 0, left |-> 0]

InDequeue == {"check", "data", "len", "clear", "clearLen", "head", "headStore", "size",
              "sizeStore"}
InEnqueue == {"enqueue", "write", "writeLen", "tail", "grow", "growStore"}
InLoop == {"test", "count", "use"} \cup InDequeue

Alive == crash = "no"
Followed(q) == q \in scenario.queues
At(q, t, pc) == Alive /\ thread[q][t].pc = pc
Becomes(q, t, new) == thread' = [thread EXCEPT ![q][t] = new]
Go(q, t, pc) == Becomes(q, t, [thread[q][t] EXCEPT !.pc = pc])
Store(q, new) == queue' = [queue EXCEPT ![q] = new]

(* Seeded fault: the index runs out of the array.                          *)
SuccNoWrap(i) == i + 1

Succ(i) == (i + 1) % Blocks

BufferInit ==
    /\ scenario \in Scenarios
    /\ queue = [q \in Queues |-> [array |-> [i \in 0..(Blocks - 1) |-> Element(Nothing)],
                                  head |-> 0, tail |-> 0, size |-> 0]]
    /\ thread = [q \in Queues |-> [t \in Threads |-> NoThread]]
    /\ crash = "no"

-----------------------------------------------------------------------------
(* YHbuffer.Enqueue and Dequeue: the test of Count.                        *)

(* Seeded faults: one block too many, and one too few.                     *)
FullTooLate(q) == queue[q].size = Blocks + 1
FullTooEarly(q) == queue[q].size = Blocks - 1

Full(q) == queue[q].size = Blocks

EnqueueCount(q) ==
    /\ At(q, Producer, "count")
    /\ Go(q, Producer, IF ~Followed(q) THEN "done" ELSE IF Full(q) THEN "check" ELSE "enqueue")
    /\ UNCHANGED <<scenario, queue, crash>>

(* Of an empty queue, an element of length 0.                              *)
DequeueCount(q, s) ==
    /\ At(q, s, "count")
    /\ Go(q, s, IF queue[q].size = 0 THEN "test" ELSE "check")
    /\ UNCHANGED <<scenario, queue, crash>>

-----------------------------------------------------------------------------
(* Queue<T>.Dequeue.  The producer has no use for what it drops.           *)

(* Of an empty queue it throws, and nothing catches the exception.         *)
DequeueCheck(q, t) ==
    /\ At(q, t, "check")
    /\ IF queue[q].size = 0
       THEN crash' = "empty" /\ UNCHANGED thread
       ELSE /\ Becomes(q, t, [thread[q][t] EXCEPT !.pc = "data", !.size = queue[q].size])
            /\ UNCHANGED crash
    /\ UNCHANGED <<scenario, queue>>

(* T removed = _array[_head]: an element is m_data and m_len.              *)
DequeueData(q, t) ==
    /\ At(q, t, "data")
    /\ LET i == queue[q].head
       IN Becomes(q, t, IF t = Producer
                        THEN [thread[q][t] EXCEPT !.pc = "clear", !.index = i]
                        ELSE [thread[q][t] EXCEPT !.pc = "len", !.index = i,
                                                  !.data = queue[q].array[i].data])
    /\ UNCHANGED <<scenario, queue, crash>>

DequeueLen(q, t) ==
    /\ At(q, t, "len")
    /\ Becomes(q, t, [thread[q][t] EXCEPT !.pc = "clear",
                                         !.len = queue[q].array[thread[q][t].index].len])
    /\ UNCHANGED <<scenario, queue, crash>>

(* _array[_head] = default(T)                                              *)
DequeueClear(q, t) ==
    /\ At(q, t, "clear")
    /\ \E i \in {thread[q][t].index, queue[q].head} :
          /\ Store(q, [queue[q] EXCEPT !.array[i].data = Nothing])
          /\ Becomes(q, t, [thread[q][t] EXCEPT !.pc = "clearLen", !.index = i])
    /\ UNCHANGED <<scenario, crash>>

DequeueClearLen(q, t) ==
    /\ At(q, t, "clearLen") /\ Go(q, t, "head")
    /\ Store(q, [queue[q] EXCEPT !.array[thread[q][t].index].len = FALSE])
    /\ UNCHANGED <<scenario, crash>>

(* _head = (_head + 1) % _array.Length                                     *)
DequeueHead(q, t) ==
    /\ At(q, t, "head")
    /\ \E i \in {thread[q][t].index, queue[q].head} :
          Becomes(q, t, [thread[q][t] EXCEPT !.pc = "headStore", !.index = Succ(i)])
    /\ UNCHANGED <<scenario, queue, crash>>

DequeueHeadStore(q, t) ==
    /\ At(q, t, "headStore")
    /\ Store(q, [queue[q] EXCEPT !.head = thread[q][t].index])
    /\ Becomes(q, t, [thread[q][t] EXCEPT !.pc = "size", !.index = 0])
    /\ UNCHANGED <<scenario, crash>>

(* _size--                                                                 *)
DequeueSize(q, t) ==
    /\ At(q, t, "size")
    /\ \E n \in {thread[q][t].size, queue[q].size} :
          Becomes(q, t, [thread[q][t] EXCEPT !.pc = "sizeStore", !.size = n])
    /\ UNCHANGED <<scenario, queue, crash>>

(* The producer goes on to Queue<T>.Enqueue, a consumer to e.m_len > 0.    *)
Less1(n) == IF n = MinSize THEN MinSize ELSE n - 1
DequeueSizeStore(q, t) ==
    /\ At(q, t, "sizeStore")
    /\ Store(q, [queue[q] EXCEPT !.size = Less1(thread[q][t].size)])
    /\ LET me == thread[q][t]
       IN Becomes(q, t, [me EXCEPT !.size = 0, !.data = IF me.len THEN @ ELSE Nothing,
                                   !.pc = IF t = Producer THEN "enqueue"
                                          ELSE IF me.len THEN "use" ELSE "test"])
    /\ UNCHANGED <<scenario, crash>>

-----------------------------------------------------------------------------
(* Queue<T>.Enqueue of the block in the producer's hands.                  *)

(* A full array would be replaced by a larger one (SetCapacity); the       *)
(* model ends there.                                                       *)
EnqueueCheck(q) ==
    /\ At(q, Producer, "enqueue")
    /\ IF queue[q].size = Blocks
       THEN crash' = "grown" /\ UNCHANGED thread
       ELSE /\ Becomes(q, Producer, [thread[q][Producer] EXCEPT !.pc = "write",
                                                                !.size = queue[q].size])
            /\ UNCHANGED crash
    /\ UNCHANGED <<scenario, queue>>

(* _array[_tail] = item                                                    *)
EnqueueData(q) ==
    /\ At(q, Producer, "write")
    /\ Store(q, [queue[q] EXCEPT !.array[queue[q].tail].data = thread[q][Producer].data])
    /\ Becomes(q, Producer, [thread[q][Producer] EXCEPT !.pc = "writeLen",
                                                        !.index = queue[q].tail])
    /\ UNCHANGED <<scenario, crash>>

EnqueueLen(q) ==
    /\ At(q, Producer, "writeLen") /\ Go(q, Producer, "tail")
    /\ Store(q, [queue[q] EXCEPT !.array[thread[q][Producer].index].len = thread[q][Producer].len])
    /\ UNCHANGED <<scenario, crash>>

(* _tail = (_tail + 1) % _array.Length                                     *)
EnqueueTail(q) ==
    /\ At(q, Producer, "tail")
    /\ \E i \in {thread[q][Producer].index, queue[q].tail} :
          Store(q, [queue[q] EXCEPT !.tail = Succ(i)])
    /\ Becomes(q, Producer, [thread[q][Producer] EXCEPT !.pc = "grow", !.index = 0])
    /\ UNCHANGED <<scenario, crash>>

(* _size++                                                                 *)
EnqueueSize(q) ==
    /\ At(q, Producer, "grow")
    /\ \E n \in {thread[q][Producer].size, queue[q].size} :
          Becomes(q, Producer, [thread[q][Producer] EXCEPT !.pc = "growStore", !.size = n])
    /\ UNCHANGED <<scenario, queue, crash>>

EnqueueSizeStore(q) ==
    /\ At(q, Producer, "growStore")
    /\ Store(q, [queue[q] EXCEPT !.size = thread[q][Producer].size + 1])
    /\ Becomes(q, Producer, [thread[q][Producer] EXCEPT !.pc = "done", !.size = 0])
    /\ UNCHANGED <<scenario, crash>>

Enqueue(q) == \/ EnqueueCount(q) \/ EnqueueCheck(q) \/ EnqueueData(q) \/ EnqueueLen(q)
              \/ EnqueueTail(q) \/ EnqueueSize(q) \/ EnqueueSizeStore(q)

Dequeue(q, t) == \/ DequeueCheck(q, t) \/ DequeueData(q, t) \/ DequeueLen(q, t)
                 \/ DequeueClear(q, t) \/ DequeueClearLen(q, t) \/ DequeueHead(q, t)
                 \/ DequeueHeadStore(q, t) \/ DequeueSize(q, t) \/ DequeueSizeStore(q, t)

-----------------------------------------------------------------------------
(* Queue<T>.Clear: Array.Clear of what is between head and tail, which     *)
(* throws when head, tail and size do not fit together; then the fields.   *)

ClearFails(Q) == Q.head < Q.tail /\ (Q.size < 0 \/ Q.head + Q.size > Blocks)
Cleared(Q) == IF Q.head < Q.tail THEN Q.head..(Q.head + Q.size - 1)
              ELSE Q.head..(Blocks - 1) \cup 0..(Q.tail - 1)

ClearArray(q) ==
    /\ IF ClearFails(queue[q])
       THEN crash' = "range" /\ UNCHANGED queue
       ELSE /\ Store(q, [queue[q] EXCEPT !.array =
                  [i \in 0..(Blocks - 1) |-> IF i \in Cleared(queue[q]) THEN Element(Nothing)
                                             ELSE @[i]]])
            /\ UNCHANGED crash
    /\ UNCHANGED <<scenario, thread>>

ClearField(q, new) ==
    /\ Store(q, new)
    /\ UNCHANGED <<scenario, thread, crash>>
=============================================================================
