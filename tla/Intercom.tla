------------------------------ MODULE Intercom ------------------------------
(***************************************************************************)
(* The three application tasks of the device and what they share:          *)
(*                                                                         *)
(*   task_udpserver (priority 16)  receives datagrams into rev_buffer_t's  *)
(*   task_play      (priority 17)  plays the buffers on one VS1053         *)
(*   task_udpclient (priority 18)  sends what the other VS1053 records     *)
(*                                                                         *)
(* RCV_BUFFER_NUM buffers circulate through one Collections-C queue, which *)
(* nothing locks; two counting semaphores start the two lower tasks; the   *)
(* flag is_line_established stops them.                                    *)
(*                                                                         *)
(* The CPU is single and the kernel preemptive, so what the server does    *)
(* between two blocking recvfrom calls is one step for the other two tasks *)
(* and is one action, ServerReceive.  task_play can be preempted by it at  *)
(* any machine instruction: its accesses to shared memory are one action   *)
(* each.  task_udpclient runs only while task_play is blocked.             *)
(***************************************************************************)
EXTENDS Deque

CONSTANTS
    RcvBufferNum,  \* RCV_BUFFER_NUM, 3 in the code
    Capacity,      \* DEFAULT_CAPACITY of the deque, 8 in the code
    Arriving,      \* the kinds of datagram that arrive
    Peers,         \* sources of datagrams (address and port)
    MaxTag,        \* audio datagrams followed by a tag; the others carry tag 0
    Chunks,        \* 160-byte chunks of an audio datagram
    SemMax,        \* greatest semaphore count, 65535 in the kernel
    ClientRuns,    \* FALSE where the properties do not involve task_udpclient
    PreemptQueue,  \* may a datagram arrive inside a queue operation of play?
    MaxBurst,      \* bound on arrivals between play's re-enqueue and its copy
    Boundless      \* value of MaxBurst that stands for no bound

Buffers == 1..RcvBufferNum

ASSUME BuffersAssumption ==
    /\ RcvBufferNum \in Nat /\ RcvBufferNum >= 2
    /\ Capacity \in Nat /\ Capacity > RcvBufferNum
    /\ Unset \notin Buffers

(* What parse_AT and the RIFF test of play can tell apart in a buffer:     *)
(* the two commands, an unknown command, a wave header, anything else.     *)
Commands == {"AT1", "AT2", "AT?"}
Kinds == Commands \cup {"RIFF", "PCM"}

ASSUME BoundsAssumption ==
    /\ Arriving \subseteq Kinds \cup {"Empty"}
    /\ MaxTag \in Nat /\ SemMax \in Nat \ {0} /\ Chunks \in Nat \ {0}
    /\ PreemptQueue \in BOOLEAN /\ ClientRuns \in BOOLEAN
    /\ Boundless \notin Nat /\ MaxBurst \in Nat \cup {Boundless}

VARIABLES
    dq,        \* s_rcv_queue: the deque record
    buf,       \* s_rcv_buffer: Buffers -> [kind, tag, len]
    held,      \* task_udpserver's pbuff, in the pending recvfrom
    line,      \* is_line_established
    remote,    \* g_remote_sin, as the peer it names
    semPlay,   \* count of sem_vs1053_play_async
    semClient, \* count of sem_vs1053async
    play,      \* task_play: pc, registers and locals
    client,    \* task_udpclient: pc and the two halves of its local sin
    nextTag,   \* ghost: the tag of the next audio datagram that gets one
    played,    \* ghost: the greatest tag task_play has copied for the codec
    burst      \* ghost: arrivals since play re-enqueued the buffer it reads

vars == <<dq, buf, held, line, remote, semPlay, semClient, play, client,
          nextTag, played, burst>>

sems == <<semPlay, semClient>>
ghosts == <<nextTag, played, burst>>
serverVars == <<held, line, remote>>

(* task_play's program points.  pend: in OSSemPend.  dq*: in               *)
(* deque_remove_last.  len, zero: reading and clearing prcv_buff->len.     *)
(* eq*: in rcv_queue_enqueue and deque_add_first.  hdr: the RIFF test.     *)
(* cp1, cp2: the memcpy to pbuff.  send: handing a chunk to the codec.     *)
(* dly: in OSTimeDly(2).  chk: testing is_line_established.                *)
(* fault: a NULL or garbage pointer was dereferenced.                      *)
InDequeue == {"dqTest", "dqLast", "dqElem", "dqStore", "dqLoad", "dqDec"}
InEnqueue == {"eqTest", "eqLoad", "eqFirst", "eqSlot", "eqReload", "eqInc"}
InCopy == {"hdr", "cp1", "cp2"}
PlayPcs == {"pend", "len", "zero", "send", "dly", "chk", "fault"}
              \cup InDequeue \cup InEnqueue \cup InCopy

ClientPcs == {"pend", "addr", "port", "header", "poll", "chk"}

-----------------------------------------------------------------------------
(* Seeded fault: one buffer too few in the test for a full queue.          *)
RcvEnqueueOffByOne(d, b) ==
    AddFirst(IF d.size = RcvBufferNum - 1 THEN RemoveLast(d) ELSE d, b, TRUE)

(* rcv_queue_enqueue and rcv_queue_dequeue as the server executes them:    *)
(* none of the other two tasks runs in between.                            *)
RcvEnqueue(d, b) ==
    AddFirst(IF d.size = RcvBufferNum THEN RemoveLast(d) ELSE d, b, TRUE)

Dequeued(d) == IF d.size = 0 THEN Unset ELSE LastOut(d)

(* The queue rev_buffer_init leaves: buffer i went in as the i-th, each at *)
(* the front, so the first one is at the back.                             *)
InitialQueue ==
    [size |-> RcvBufferNum, capacity |-> Capacity,
     first |-> Capacity - RcvBufferNum, last |-> 0,
     buffer |-> [i \in 0..(Capacity - 1) |->
                    IF i >= Capacity - RcvBufferNum THEN Capacity - i ELSE Unset]]

(* The tasks have been created and run until each blocks: the server has   *)
(* dequeued its first buffer, the other two pend on their semaphores.  The *)
(* bytes of the buffers are what the heap held: no AT command.             *)
Init ==
    /\ dq = RemoveLast(InitialQueue)
    /\ held = Dequeued(InitialQueue)
    /\ buf = [b \in Buffers |-> [kind |-> "PCM", tag |-> 0, len |-> 0]]
    /\ line = FALSE
    /\ remote \in Peers
    /\ semPlay = 0 /\ semClient = 0
    /\ play = [pc |-> "pend", reg |-> 0, size |-> 0, elem |-> Unset, len |-> 0,
               pbuff |-> <<0, 0>>, left |-> 0]
    /\ client = [pc |-> "pend", addr |-> remote, port |-> remote]
    /\ nextTag = 1 /\ played = 0 /\ burst = 0

(* A dereference of NULL or of an unwritten buffer word ends in the        *)
(* HardFault handler, which loops: nothing runs any more.                  *)
Halted == play.pc = "fault" \/ held = Unset

-----------------------------------------------------------------------------
(* task_udpserver.  recvfrom overwrites the buffer it was given and        *)
(* g_remote_sin; an empty datagram (len 0) leaves the bytes of the buffer  *)
(* as an earlier datagram left them, and parse_AT is given all of them.    *)

MayArrive ==
    /\ play.pc \in InDequeue \cup InEnqueue => PreemptQueue
    /\ play.pc \in InCopy /\ MaxBurst # Boundless => burst < MaxBurst

(* parse_AT: an AT buffer sets or clears the flag; its return value.       *)
LineAfter(kind) == CASE kind = "AT1" -> TRUE
                     [] kind = "AT2" -> FALSE
                     [] OTHER -> line

(* OSSemPost: at the greatest count it returns OS_ERR_SEM_OVF, which the   *)
(* callers ignore.                                                         *)
Posted(count) == IF count < SemMax THEN count + 1 ELSE count

(* The bytes of a buffer after recvfrom stored a datagram in it.           *)
Stored(b, d) == IF d.len = 0 THEN [buf[b] EXCEPT !.len = 0] ELSE d

(* One turn of the server's loop, from the return of recvfrom to the next  *)
(* call: parse, post, give the buffer back, take the oldest one.           *)
ServerReceive(d, peer) ==
    /\ ~Halted /\ MayArrive
    /\ LET got  == Stored(held, d)
           isAT == got.kind \in Commands
           wake == isAT /\ LineAfter(got.kind)
           q    == RcvEnqueue(dq, held)
       IN /\ buf' = [buf EXCEPT ![held] = IF isAT THEN [got EXCEPT !.len = 0] ELSE got]
          /\ line' = IF isAT THEN LineAfter(got.kind) ELSE line
          /\ semPlay' = IF wake THEN Posted(semPlay) ELSE semPlay
          /\ semClient' = IF wake THEN Posted(semClient) ELSE semClient
          /\ dq' = RemoveLast(q)
          /\ held' = Dequeued(q)
    /\ remote' = peer
    /\ burst' = IF play.pc \in InCopy /\ MaxBurst # Boundless THEN burst + 1 ELSE burst
    /\ UNCHANGED <<play, client, played>>

Datagram(kind, tag, len) == [kind |-> kind, tag |-> tag, len |-> len]

ServerCommand(peer) ==
    /\ \E k \in Commands \cap Arriving : ServerReceive(Datagram(k, 0, 1), peer)
    /\ UNCHANGED nextTag

ServerHeader(peer) ==
    /\ "RIFF" \in Arriving
    /\ ServerReceive(Datagram("RIFF", 0, 1), peer)
    /\ UNCHANGED nextTag

ServerEmpty(peer) ==
    /\ "Empty" \in Arriving
    /\ ServerReceive(Datagram("PCM", 0, 0), peer)
    /\ UNCHANGED nextTag

(* Audio: the environment may tag it if tags are left.                     *)
ServerAudio(peer) ==
    \/ /\ ServerReceive(Datagram("PCM", 0, 1), peer)
       /\ UNCHANGED nextTag
    \/ /\ nextTag <= MaxTag
       /\ ServerReceive(Datagram("PCM", nextTag, 1), peer)
       /\ nextTag' = nextTag + 1

Server == \E peer \in Peers : \/ ServerCommand(peer) \/ ServerHeader(peer)
                              \/ ServerEmpty(peer) \/ ServerAudio(peer)

-----------------------------------------------------------------------------
(* task_play.  Each step is one access to shared memory, or code between   *)
(* two of them; the server may run before any of them.                     *)

PlayStep(from, to) == ~Halted /\ play.pc = from /\ play' = [play EXCEPT !.pc = to]

PlayUnchanged == UNCHANGED <<serverVars, client, nextTag>>

(* OSSemPend(sem_vs1053_play_async, 0, &_err): takes a count or blocks.    *)
PlayPend ==
    /\ PlayStep("pend", "dqTest")
    /\ semPlay > 0
    /\ semPlay' = semPlay - 1
    /\ UNCHANGED <<dq, buf, semClient, played, burst>> /\ PlayUnchanged

(* deque_remove_last: if(deque->size == 0) return; rcv_queue_dequeue then  *)
(* returns NULL, which play() dereferences before it tests it.             *)
DequeueTest ==
    /\ ~Halted /\ play.pc = "dqTest"
    /\ play' = [play EXCEPT !.pc = IF dq.size = 0 THEN "fault" ELSE "dqLast",
                            !.size = dq.size]
    /\ UNCHANGED <<dq, buf, sems, played, burst>> /\ PlayUnchanged

(* Seeded fault: the mask is forgotten.                                    *)
DequeueLastUnmasked ==
    /\ ~Halted /\ play.pc = "dqLast"
    /\ play' = [play EXCEPT !.pc = "dqElem", !.reg = dq.last - 1]
    /\ UNCHANGED <<dq, buf, sems, played, burst>> /\ PlayUnchanged

(* last = (deque->last - 1) & (deque->capacity - 1)                        *)
DequeueLast ==
    /\ ~Halted /\ play.pc = "dqLast"
    /\ play' = [play EXCEPT !.pc = "dqElem", !.reg = Prev(dq, dq.last)]
    /\ UNCHANGED <<dq, buf, sems, played, burst>> /\ PlayUnchanged

(* element = deque->buffer[last]                                           *)
DequeueElem ==
    /\ ~Halted /\ play.pc = "dqElem"
    /\ play' = [play EXCEPT !.pc = "dqStore", !.elem = dq.buffer[play.reg]]
    /\ UNCHANGED <<dq, buf, sems, played, burst>> /\ PlayUnchanged

(* deque->last = last                                                      *)
DequeueStore ==
    /\ PlayStep("dqStore", "dqLoad")
    /\ dq' = [dq EXCEPT !.last = play.reg]
    /\ UNCHANGED <<buf, sems, played, burst>> /\ PlayUnchanged

(* deque->size--, a load and a store; the compiler may keep the value the  *)
(* emptiness test loaded instead of loading it again.                      *)
DequeueLoad ==
    /\ ~Halted /\ play.pc = "dqLoad"
    /\ \E s \in {play.size, dq.size} :
          play' = [play EXCEPT !.pc = "dqDec", !.size = s]
    /\ UNCHANGED <<dq, buf, sems, played, burst>> /\ PlayUnchanged

DequeueDec ==
    /\ ~Halted /\ play.pc = "dqDec"
    /\ dq' = [dq EXCEPT !.size = play.size - 1]
    /\ play' = [play EXCEPT !.pc = "len", !.reg = 0, !.size = 0]
    /\ UNCHANGED <<buf, sems, played, burst>> /\ PlayUnchanged

(* len = prcv_buff->len                                                    *)
ReadLen ==
    /\ ~Halted /\ play.pc = "len"
    /\ play' = IF play.elem = Unset
               THEN [play EXCEPT !.pc = "fault"]
               ELSE [play EXCEPT !.pc = "zero", !.len = buf[play.elem].len]
    /\ UNCHANGED <<dq, buf, sems, played, burst>> /\ PlayUnchanged

(* Seeded fault: the length is not cleared.                                *)
ZeroLenForgotten ==
    /\ PlayStep("zero", "eqTest")
    /\ UNCHANGED <<dq, buf, sems, played, burst>> /\ PlayUnchanged

(* prcv_buff->len = 0                                                      *)
ZeroLen ==
    /\ PlayStep("zero", "eqTest")
    /\ buf' = [buf EXCEPT ![play.elem].len = 0]
    /\ UNCHANGED <<dq, sems, played, burst>> /\ PlayUnchanged

(* rcv_queue_enqueue: if(queue_size(...) == RCV_BUFFER_NUM) queue_poll.    *)
EnqueueTest ==
    /\ PlayStep("eqTest", "eqLoad")
    /\ dq' = IF dq.size = RcvBufferNum THEN RemoveLast(dq) ELSE dq
    /\ UNCHANGED <<buf, sems, played, burst>> /\ PlayUnchanged

(* deque_add_first: the test against the capacity loads size (a deque of   *)
(* RCV_BUFFER_NUM pointers never reaches it, CountConserved), then first   *)
(* is loaded.                                                              *)
EnqueueLoad ==
    /\ ~Halted /\ play.pc = "eqLoad"
    /\ play' = [play EXCEPT !.pc = "eqFirst", !.size = dq.size,
                            !.reg = Prev(dq, dq.first)]
    /\ UNCHANGED <<dq, buf, sems, played, burst>> /\ PlayUnchanged

EnqueueFirst ==
    /\ PlayStep("eqFirst", "eqSlot")
    /\ dq' = [dq EXCEPT !.first = play.reg]
    /\ UNCHANGED <<buf, sems, played, burst>> /\ PlayUnchanged

(* deque->buffer[deque->first] = element, first from memory or register.   *)
EnqueueSlot ==
    /\ PlayStep("eqSlot", "eqReload")
    /\ \E i \in {play.reg, dq.first} :
          dq' = [dq EXCEPT !.buffer[i] = play.elem]
    /\ UNCHANGED <<buf, sems, played, burst>> /\ PlayUnchanged

EnqueueReload ==
    /\ ~Halted /\ play.pc = "eqReload"
    /\ \E s \in {play.size, dq.size} :
          play' = [play EXCEPT !.pc = "eqInc", !.size = s]
    /\ UNCHANGED <<dq, buf, sems, played, burst>> /\ PlayUnchanged

(* Seeded fault: the count is not stored back.                             *)
EnqueueIncLost ==
    /\ ~Halted /\ play.pc = "eqInc"
    /\ play' = [play EXCEPT !.pc = IF play.len > 0 THEN "hdr" ELSE "chk",
                            !.reg = 0, !.size = 0,
                            !.elem = IF play.len > 0 THEN @ ELSE Unset]
    /\ burst' = 0
    /\ UNCHANGED <<dq, buf, sems, played>> /\ PlayUnchanged

(* deque->size++, and if(prcv_buff == NULL || len > 0).                    *)
EnqueueInc ==
    /\ ~Halted /\ play.pc = "eqInc"
    /\ dq' = [dq EXCEPT !.size = play.size + 1]
    /\ play' = [play EXCEPT !.pc = IF play.len > 0 THEN "hdr" ELSE "chk",
                            !.reg = 0, !.size = 0,
                            !.elem = IF play.len > 0 THEN @ ELSE Unset]
    /\ burst' = 0
    /\ UNCHANGED <<buf, sems, played>> /\ PlayUnchanged

(* The RIFF test, on the buffer already given back: a header is skipped    *)
(* with "continue", which does not reach the test of the flag.             *)
HeaderTest ==
    /\ ~Halted /\ play.pc = "hdr"
    /\ play' = IF buf[play.elem].kind = "RIFF"
               THEN [play EXCEPT !.pc = "dqTest", !.len = 0, !.elem = Unset]
               ELSE [play EXCEPT !.pc = "cp1"]
    /\ UNCHANGED <<dq, buf, sems, played, burst>> /\ PlayUnchanged

(* memcpy(pbuff, prcv_buff->data, len), in two halves.                     *)
CopyFirstHalf ==
    /\ ~Halted /\ play.pc = "cp1"
    /\ play' = [play EXCEPT !.pc = "cp2",
                            !.pbuff = <<buf[play.elem].tag, play.pbuff[2]>>]
    /\ UNCHANGED <<dq, buf, sems, played, burst>> /\ PlayUnchanged

CopySecondHalf ==
    /\ ~Halted /\ play.pc = "cp2"
    /\ LET tag == buf[play.elem].tag
       IN /\ play' = [play EXCEPT !.pc = "send", !.pbuff = <<play.pbuff[1], tag>>,
                                  !.elem = Unset, !.len = 0, !.left = Chunks]
          /\ played' = IF tag > played THEN tag ELSE played
    /\ burst' = 0
    /\ UNCHANGED <<dq, buf, sems>> /\ PlayUnchanged

(* vs10xx_play_dma_send_data: one 160-byte chunk, or the shorter last one, *)
(* is handed to the DMA (or dropped when DREQ is low), then OSTimeDly(2).  *)
SendChunk ==
    /\ ~Halted /\ play.pc = "send"
    /\ play' = [play EXCEPT !.pc = "dly", !.left = @ - 1]
    /\ UNCHANGED <<dq, buf, sems, played, burst>> /\ PlayUnchanged

(* OSTimeTick ends the delay.                                              *)
Tick ==
    /\ ~Halted /\ play.pc = "dly"
    /\ play' = IF play.left > 0 THEN [play EXCEPT !.pc = "send"]
               ELSE [play EXCEPT !.pc = "chk", !.pbuff = <<0, 0>>]
    /\ UNCHANGED <<dq, buf, sems, played, burst>> /\ PlayUnchanged

(* Seeded fault: the test of the flag is forgotten.                        *)
PlayCheckLineForgotten ==
    /\ PlayStep("chk", "dqTest")
    /\ UNCHANGED <<dq, buf, sems, played, burst>> /\ PlayUnchanged

(* if(!is_line_established) break;                                         *)
PlayCheckLine ==
    /\ PlayStep("chk", IF line THEN "dqTest" ELSE "pend")
    /\ UNCHANGED <<dq, buf, sems, played, burst>> /\ PlayUnchanged

PlayDequeue == DequeueTest \/ DequeueLast \/ DequeueElem \/ DequeueStore
                   \/ DequeueLoad \/ DequeueDec
PlayEnqueue == EnqueueTest \/ EnqueueLoad \/ EnqueueFirst \/ EnqueueSlot
                   \/ EnqueueReload \/ EnqueueInc
PlayCopy == HeaderTest \/ CopyFirstHalf \/ CopySecondHalf

(* What task_play does on the CPU; Tick is the timer interrupt's.          *)
Play == PlayPend \/ PlayDequeue \/ ReadLen \/ ZeroLen \/ PlayEnqueue
            \/ PlayCopy \/ SendChunk \/ PlayCheckLine

-----------------------------------------------------------------------------
(* task_udpclient.  It has the lowest priority of the three: it runs only  *)
(* while task_play is blocked on its semaphore or in OSTimeDly.            *)

PlayBlocked == (play.pc = "pend" /\ semPlay = 0) \/ play.pc = "dly"

ClientStep(from) == ClientRuns /\ ~Halted /\ PlayBlocked /\ client.pc = from

ClientUnchanged == UNCHANGED <<dq, buf, serverVars, semPlay, play, ghosts>>

ClientPend ==
    /\ ClientStep("pend")
    /\ semClient > 0
    /\ semClient' = semClient - 1
    /\ client' = [client EXCEPT !.pc = "addr"]
    /\ ClientUnchanged

(* sin.sin_addr and sin.sin_port are read from g_remote_sin one after the  *)
(* other; the port sent to is the one before it.                           *)
ReadAddr ==
    /\ ClientStep("addr")
    /\ client' = [client EXCEPT !.pc = "port", !.addr = remote]
    /\ UNCHANGED semClient /\ ClientUnchanged

ReadPort ==
    /\ ClientStep("port")
    /\ client' = [client EXCEPT !.pc = "header", !.port = remote]
    /\ UNCHANGED semClient /\ ClientUnchanged

(* sendto of the wave header.                                              *)
SendHeader ==
    /\ ClientStep("header")
    /\ client' = [client EXCEPT !.pc = "poll"]
    /\ UNCHANGED semClient /\ ClientUnchanged

(* HDAT1 says whether a block is ready; then 512 bytes are read and sent.  *)
PollRecorder ==
    /\ ClientStep("poll")
    /\ client' = [client EXCEPT !.pc = "chk"]
    /\ UNCHANGED semClient /\ ClientUnchanged

ClientCheckLine ==
    /\ ClientStep("chk")
    /\ client' = [client EXCEPT !.pc = IF line THEN "poll" ELSE "pend"]
    /\ UNCHANGED semClient /\ ClientUnchanged

Client == ClientPend \/ ReadAddr \/ ReadPort \/ SendHeader \/ PollRecorder
              \/ ClientCheckLine

-----------------------------------------------------------------------------
Next == Server \/ Play \/ Tick \/ Client

Spec == Init /\ [][Next]_vars

(* The scheduler runs task_play whenever it is ready, a delay ends, and    *)
(* task_udpclient, ready again and again during the delays of task_play,   *)
(* gets the CPU in some of them.  Nothing makes a datagram arrive.         *)
Fairness == WF_vars(Play) /\ WF_vars(Tick) /\ SF_vars(Client)

FairSpec == Spec /\ Fairness

-----------------------------------------------------------------------------
(* Properties.                                                             *)

BufferRecord == [kind : Kinds, tag : 0..MaxTag, len : {0, 1}]
RingType == [size : 0..Capacity, capacity : {Capacity},
             first : 0..(Capacity - 1), last : 0..(Capacity - 1),
             buffer : [0..(Capacity - 1) -> Buffers \cup {Unset}]]
PlayType == [pc : PlayPcs, reg : 0..(Capacity - 1), size : 0..Capacity,
             elem : Buffers \cup {Unset}, len : {0, 1},
             pbuff : (0..MaxTag) \X (0..MaxTag), left : 0..Chunks]
ClientType == [pc : ClientPcs, addr : Peers, port : Peers]

(* The values the shared variables of the three tasks and their locals     *)
(* take; a pointer is one of s_rcv_buffer or an unwritten word.            *)
TypeOK ==
    /\ dq \in RingType
    /\ buf \in [Buffers -> BufferRecord]
    /\ held \in Buffers \cup {Unset}
    /\ line \in BOOLEAN
    /\ remote \in Peers
    /\ semPlay \in 0..SemMax /\ semClient \in 0..SemMax
    /\ play \in PlayType
    /\ client \in ClientType
    /\ nextTag \in 1..(MaxTag + 1) /\ played \in 0..MaxTag
    /\ burst \in Nat

(* Between deque->size-- and deque->size++ task_play has one buffer out.   *)
PlayHasOne == play.pc \in {"len", "zero"} \cup InEnqueue

(* Whatever the interleaving of the unlocked deque operations of the two   *)
(* tasks, "size" counts the buffers that are not out: the server has one   *)
(* and task_play at most one.  So rcv_queue_dequeue never returns NULL,    *)
(* which neither caller tests before dereferencing it, rcv_queue_enqueue   *)
(* never drops a buffer and the deque never grows.                         *)
CountConserved ==
    play.pc # "fault" =>
        dq.size = IF PlayHasOne THEN RcvBufferNum - 2 ELSE RcvBufferNum - 1

(* The buffer task_play has removed and not yet given back.                *)
PlayOut == play.pc \in {"len", "zero", "eqTest", "eqLoad", "eqFirst", "eqSlot"}

(* What queue_poll removes is no longer there for the other task to        *)
(* remove: a buffer is out with one task at most, and is a real buffer,    *)
(* not a word of the ring that nothing was written to.                     *)
RemovedOnce ==
    /\ held \in Buffers
    /\ PlayOut => play.elem \in Buffers \ {held}

(* Outside the queue operations of task_play every buffer is in exactly    *)
(* one place: the queue, the server's hands or task_play's.                *)
RingIntact ==
    play.pc \notin InDequeue \cup InEnqueue \cup {"fault"} =>
        LET inQueue == {Contents(dq)[i] : i \in 1..dq.size}
            out     == {held} \cup (IF PlayHasOne THEN {play.elem} ELSE {})
        IN inQueue \cup out = Buffers /\ inQueue \cap out = {}

(* A frame handed to the codec is one datagram, not the halves of two,     *)
(* although task_play gives the buffer back before it copies it.           *)
FrameWhole == play.pc \in {"send", "dly"} => play.pbuff[1] = play.pbuff[2]

(* Frames are played in the order they arrived, none twice.                *)
PlayedInOrder ==
    [][CopySecondHalf /\ play'.pbuff[2] > 0 => play'.pbuff[2] > played]_vars

(* "Stop" works: once the line stays down and no wave header keeps         *)
(* arriving (each makes play() skip its test of the flag), both tasks end  *)
(* up parked on their semaphores with no count left over.                  *)
Parked == play.pc = "pend" /\ client.pc = "pend" /\ semPlay = 0 /\ semClient = 0
NoHeaderLeft == \A b \in Buffers : buf[b].kind = "RIFF" => buf[b].len = 0
Quiesce == <>[](~line /\ NoHeaderLeft) => <>[]Parked
=============================================================================
