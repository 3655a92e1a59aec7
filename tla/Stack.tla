------------------------------- MODULE Stack -------------------------------
(***************************************************************************)
(* The tasks from their creation on, their sockets, and tcpip_thread       *)
(* between them and the driver: mailboxes (sys_arch.c), the pools behind   *)
(* them (memp), the messages that callers keep on their own stack          *)
(* (tcpip_apimsg), the kernel's event and queue blocks and the heap.       *)
(*                                                                         *)
(*   netcard  lwip_netcard_input_task: tcpip_input for each frame          *)
(*   tcpip    tcpip_thread: frames to sockets, calls of the tasks          *)
(*   Server   task_udpserver, priority 16: receives                        *)
(*   Play     task_play, 17: allocates and restarts the decoder            *)
(*   Client   task_udpclient, 18: sends, and never reads its socket        *)
(*                                                                         *)
(* The three tasks run by priority.  netcard and tcpip_thread, above them, *)
(* interleave with them freely, which allows more than the kernel does;    *)
(* tcpip_thread does its work on one message in one step.  A mailbox       *)
(* counts a message until the task it was handed to runs.                  *)
(***************************************************************************)
EXTENDS Naturals, Sequences, FiniteSets

CONSTANTS
    InCells,     \* MEMP_TCPIP_MSG_INPKT, 8
    Netbufs,     \* MEMP_NETBUF, 2 for both sockets
    Server,
    Play,
    Client,
    MboxSize,    \* MAX_QUEUE_ENTRIES, 20: every mailbox is cut to it
    FreeBlocks   \* bound: kernel blocks left when the tasks start, one is chosen

Apps == {Server, Client}
Tasks == {Server, Play, Client}
Chips == {"decoder", "recorder"}
None == "none"

(* The pools are smaller than a mailbox: 8 + 2 and 2 against 20.           *)
ASSUME StackAssumption ==
    /\ Server # Client /\ Play \notin Apps /\ Apps \cap InCells = {}
    /\ None \notin Apps \cup InCells \cup Netbufs
    /\ IsFiniteSet(InCells) /\ IsFiniteSet(Netbufs) /\ MboxSize \in Nat
    /\ Cardinality(InCells \cup Apps) < MboxSize /\ Cardinality(Netbufs) < MboxSize
    /\ FreeBlocks \subseteq [events : Nat, queues : Nat]

VARIABLES
    mbox,       \* tcpip_thread's mailbox: cells, and callers for their messages
    freeIn,     \* the free INPKT cells
    packet,     \* the socket whose port the packet in a cell is for, or None
    netcard,    \* pc, the packet, and the cell in its hands
    tcpip,      \* the message tcpip_thread works on, or None
    pc,         \* of each task
    chips,      \* the codecs that answer, chosen at the start
    call,       \* the function of its api_msg: do_newconn, do_bind or do_send
    sem,        \* op_completed of its netconn
    recvmbox,   \* recvmbox of its netconn
    freeNetbuf, \* the free netbufs
    held,       \* the netbuf the server copies from, or None
    bound,      \* the sockets whose pcb is in udp_pcbs
    kernel      \* free event and queue blocks

vars == <<mbox, freeIn, packet, netcard, tcpip, pc, chips, call, sem, recvmbox,
          freeNetbuf, held, bound, kernel>>

Init ==
    /\ mbox = <<>> /\ freeIn = InCells /\ packet = [c \in InCells |-> None]
    /\ netcard = [pc |-> "idle", to |-> None, cell |-> None] /\ tcpip = None
    /\ pc = [t \in Tasks |-> "start"] /\ chips \in SUBSET Chips
    /\ call = [a \in Apps |-> "newconn"]
    /\ sem = [a \in Apps |-> 0] /\ recvmbox = [a \in Apps |-> <<>>]
    /\ freeNetbuf = Netbufs /\ held = None /\ bound = {}
    /\ kernel \in FreeBlocks

(* OSQPost fails, and sys_mbox_valid says no, when a queue is full.        *)
Full(box) == Len(box) >= MboxSize

-----------------------------------------------------------------------------
(* lwip_netcard_input_task: tcpip_input.  When it fails the driver frees   *)
(* the pbuf and goes on with the next frame.                               *)

netVars == <<mbox, freeIn, packet, netcard>>
ToIdle == netcard' = [pc |-> "idle", to |-> None, cell |-> None]

InputValid ==
    /\ netcard.pc = "idle"
    /\ \E to \in Apps \cup {None} :
          netcard' = IF Full(mbox) THEN netcard
                     ELSE [pc |-> "alloc", to |-> to, cell |-> None]
    /\ UNCHANGED <<mbox, freeIn, packet>>

(* Seeded fault: the cell given out stays in the pool.                     *)
TakeCellKept(c) ==
    /\ netcard' = [netcard EXCEPT !.pc = "post", !.cell = c]
    /\ packet' = [packet EXCEPT ![c] = netcard.to]
    /\ UNCHANGED freeIn

TakeCell(c) ==
    /\ netcard' = [netcard EXCEPT !.pc = "post", !.cell = c]
    /\ packet' = [packet EXCEPT ![c] = netcard.to]
    /\ freeIn' = freeIn \ {c}

InputAlloc ==
    /\ netcard.pc = "alloc"
    /\ \/ \E c \in freeIn : TakeCell(c)
       \/ freeIn = {} /\ ToIdle /\ UNCHANGED <<freeIn, packet>>
    /\ UNCHANGED mbox

InputPost ==
    /\ netcard.pc = "post"
    /\ IF Full(mbox)
       THEN /\ freeIn' = freeIn \cup {netcard.cell}
            /\ packet' = [packet EXCEPT ![netcard.cell] = None]
            /\ UNCHANGED mbox
       ELSE mbox' = Append(mbox, netcard.cell) /\ UNCHANGED <<freeIn, packet>>
    /\ ToIdle

Netcard ==
    /\ InputValid \/ InputAlloc \/ InputPost
    /\ UNCHANGED <<tcpip, pc, chips, call, sem, recvmbox, freeNetbuf, held, bound, kernel>>

-----------------------------------------------------------------------------
(* tcpip_thread.                                                           *)

Fetch ==
    /\ tcpip = None /\ mbox # <<>>
    /\ tcpip' = Head(mbox) /\ mbox' = Tail(mbox)
    /\ UNCHANGED <<freeIn, packet, sem, recvmbox, freeNetbuf, bound>>

(* recv_udp: the packet goes to the socket in a netbuf, or is dropped.     *)
RecvUdp(a) ==
    IF Full(recvmbox[a]) \/ freeNetbuf = {}
    THEN UNCHANGED <<recvmbox, freeNetbuf>>
    ELSE \E b \in freeNetbuf :
            /\ freeNetbuf' = freeNetbuf \ {b}
            /\ recvmbox' = [recvmbox EXCEPT ![a] = Append(@, b)]

(* Seeded fault: memp_free is forgotten.                                   *)
FreeCellForgotten ==
    /\ packet' = [packet EXCEPT ![tcpip] = None]
    /\ freeIn' = freeIn

FreeCell ==
    /\ packet' = [packet EXCEPT ![tcpip] = None]
    /\ freeIn' = freeIn \cup {tcpip}

(* TCPIP_MSG_INPKT: for a bound port, or for the stack itself (ARP, ICMP,  *)
(* a port nobody has bound).                                               *)
Packet ==
    /\ tcpip \in InCells
    /\ \/ packet[tcpip] \in bound /\ RecvUdp(packet[tcpip])
       \/ packet[tcpip] \notin bound /\ UNCHANGED <<recvmbox, freeNetbuf>>
    /\ FreeCell
    /\ tcpip' = None
    /\ UNCHANGED <<mbox, sem, bound>>

(* Seeded fault: do_bind succeeds without TCPIP_APIMSG_ACK.                *)
AckNotBind(a) ==
    sem' = IF call[a] = "bind" THEN sem ELSE [sem EXCEPT ![a] = @ + 1]

(* Seeded fault: the call is acknowledged by the function and its caller.  *)
AckTwice(a) ==
    sem' = [sem EXCEPT ![a] = @ + 2]

(* TCPIP_APIMSG_ACK                                                        *)
Ack(a) ==
    sem' = [sem EXCEPT ![a] = @ + 1]

(* TCPIP_MSG_API: do_newconn, do_bind or do_send on the caller's message.  *)
Api ==
    /\ tcpip \in Apps
    /\ bound' = IF call[tcpip] = "bind" THEN bound \cup {tcpip} ELSE bound
    /\ Ack(tcpip)
    /\ tcpip' = None
    /\ UNCHANGED <<mbox, freeIn, packet, recvmbox, freeNetbuf>>

Tcpip ==
    /\ Fetch \/ Packet \/ Api
    /\ UNCHANGED <<netcard, pc, chips, call, held, kernel>>

-----------------------------------------------------------------------------
(* The tasks.                                                              *)

(* Seeded fault: task_play polls in its loop and never waits.              *)
BlockedNotPlay(t) ==
    \/ pc[t] \in {"dead", "reset"}
    \/ t \in Apps /\ pc[t] = "wait" /\ sem[t] = 0
    \/ t = Server /\ pc[t] = "fetch" /\ recvmbox[t] = <<>>

(* A task waits for its answer, for a datagram, or for ever.  task_play    *)
(* delays while it resets the decoder, and in its loop waits for a line or *)
(* delays after each chunk.                                                *)
Blocked(t) ==
    \/ pc[t] = "dead"
    \/ t \in Apps /\ pc[t] = "wait" /\ sem[t] = 0
    \/ t = Server /\ pc[t] = "fetch" /\ recvmbox[t] = <<>>
    \/ t = Play /\ pc[t] \in {"reset", "loop"}

(* The kernel runs a task when those above it wait.                        *)
MayRun(t) == (t # Server => Blocked(Server)) /\ (t = Client => Blocked(Play))

Goto(t, from, to) == pc[t] = from /\ pc' = [pc EXCEPT ![t] = to]
stackVars == <<freeIn, packet, netcard, tcpip, bound, chips>>

(* A task first allocates: rev_buffer_init, pbuff of play, snddata.        *)
Start(t) == Goto(t, "start", "alloc")
Alloc(t) == Goto(t, "alloc", IF t = Play THEN "restart" ELSE "sem")

(* VS_Restart_Play: a turn counts only if the decoder took a block, and    *)
(* when 2048 bytes have not cancelled it, it is reset.                     *)
Restart ==
    \/ "decoder" \in chips /\ \E to \in {"reset", "loop"} : Goto(Play, "restart", to)
    \/ Goto(Play, "reset", "loop")

(* task_udpclient polls the fill level until its high byte is clear.       *)
Record == "recorder" \in chips /\ Goto(Client, "record", "idle")

Begin(t) ==
    /\ Start(t) \/ Alloc(t) \/ (t = Play /\ Restart) \/ (t = Client /\ Record)
    /\ UNCHANGED <<mbox, call, sem, recvmbox, freeNetbuf, held, kernel>>

(* netconn_alloc: sys_sem_new.                                             *)
SemNew(a) ==
    /\ \/ /\ kernel.events > 0 /\ Goto(a, "sem", "mbox")
          /\ kernel' = [kernel EXCEPT !.events = @ - 1]
       \/ kernel.events = 0 /\ Goto(a, "sem", "dead") /\ UNCHANGED kernel
    /\ UNCHANGED <<mbox, call, sem, recvmbox, freeNetbuf, held>>

(* Seeded fault: netconn_alloc keeps the semaphore of a failed netconn.    *)
SemKept(a) == UNCHANGED kernel

(* sys_sem_free, when there is no mailbox.                                 *)
SemFree(a) == kernel' = [kernel EXCEPT !.events = @ + 1]

(* sys_mbox_new: OSQCreate takes an event, then a queue block, or gives    *)
(* the event back.                                                         *)
MboxNew(a) ==
    /\ \/ /\ kernel.events > 0 /\ kernel.queues > 0 /\ Goto(a, "mbox", "valid")
          /\ kernel' = [events |-> kernel.events - 1, queues |-> kernel.queues - 1]
       \/ /\ kernel.events = 0 \/ kernel.queues = 0
          /\ Goto(a, "mbox", "dead") /\ SemFree(a)
    /\ UNCHANGED <<mbox, call, sem, recvmbox, freeNetbuf, held>>

(* tcpip_apimsg refuses a call when the mailbox is full: socket and bind   *)
(* end the task, a datagram is not sent.                                   *)
ApiValid(a) ==
    /\ pc[a] = "valid"
    /\ IF ~Full(mbox)
       THEN pc' = [pc EXCEPT ![a] = "post"] /\ UNCHANGED kernel
       ELSE /\ pc' = [pc EXCEPT ![a] = IF call[a] = "send" THEN "idle" ELSE "dead"]
            /\ kernel' = IF call[a] # "newconn" THEN kernel
                         ELSE [events |-> kernel.events + 2, queues |-> kernel.queues + 1]
    /\ UNCHANGED <<mbox, call, sem, recvmbox, freeNetbuf, held>>

(* Seeded fault: the caller goes on, or posts again, without waiting.      *)
AfterPostNoWait == "valid"

(* sys_arch_sem_wait follows the post.                                     *)
AfterPost == "wait"

(* sys_mbox_post, which spins while the mailbox is full.                   *)
ApiPost(a) ==
    /\ ~Full(mbox) /\ Goto(a, "post", AfterPost)
    /\ mbox' = Append(mbox, a)
    /\ UNCHANGED <<call, sem, recvmbox, freeNetbuf, held, kernel>>

(* Seeded fault: task_udpserver allocates its buffers behind the socket.   *)
ApiWaitThenAlloc(a) ==
    /\ sem[a] > 0 /\ sem' = [sem EXCEPT ![a] = @ - 1]
    /\ IF call[a] = "newconn"
       THEN Goto(a, "wait", "valid") /\ call' = [call EXCEPT ![a] = "bind"]
       ELSE /\ Goto(a, "wait", IF a = Server THEN "alloc" ELSE "idle")
            /\ UNCHANGED call
    /\ UNCHANGED <<mbox, recvmbox, freeNetbuf, held, kernel>>

(* The call returns: bind comes after socket, then each task goes on.      *)
ApiWait(a) ==
    /\ sem[a] > 0 /\ sem' = [sem EXCEPT ![a] = @ - 1]
    /\ IF call[a] = "newconn"
       THEN Goto(a, "wait", "valid") /\ call' = [call EXCEPT ![a] = "bind"]
       ELSE /\ Goto(a, "wait", IF a = Server THEN "recv"
                               ELSE IF call[a] = "bind" THEN "record" ELSE "idle")
            /\ UNCHANGED call
    /\ UNCHANGED <<mbox, recvmbox, freeNetbuf, held, kernel>>

(* task_udpclient: sendto, whenever the line is up and audio is there.     *)
Send ==
    /\ Goto(Client, "idle", "valid")
    /\ call' = [call EXCEPT ![Client] = "send"]
    /\ UNCHANGED <<mbox, sem, recvmbox, freeNetbuf, held, kernel>>

(* task_udpserver: recvfrom.  netconn_recv_data returns ERR_CONN at once   *)
(* when the mailbox is full; otherwise it waits for a netbuf.              *)
RecvValid ==
    /\ Goto(Server, "recv", IF Full(recvmbox[Server]) THEN "recv" ELSE "fetch")
    /\ UNCHANGED <<mbox, call, sem, recvmbox, freeNetbuf, held, kernel>>

RecvFetch ==
    /\ recvmbox[Server] # <<>> /\ Goto(Server, "fetch", "delete")
    /\ held' = Head(recvmbox[Server])
    /\ recvmbox' = [recvmbox EXCEPT ![Server] = Tail(@)]
    /\ UNCHANGED <<mbox, call, sem, freeNetbuf, kernel>>

(* Seeded fault: the netbuf of an empty packet is not returned.            *)
NetbufKept == freeNetbuf' \in {freeNetbuf, freeNetbuf \cup {held}}

(* netbuf_delete                                                           *)
NetbufDelete == freeNetbuf' = freeNetbuf \cup {held}

RecvDelete ==
    /\ Goto(Server, "delete", "recv")
    /\ NetbufDelete /\ held' = None
    /\ UNCHANGED <<mbox, call, sem, recvmbox, kernel>>

Calls(a) == SemNew(a) \/ MboxNew(a) \/ ApiValid(a) \/ ApiPost(a) \/ ApiWait(a)
Recv == RecvValid \/ RecvFetch \/ RecvDelete
Work(t) ==
    \/ Begin(t)
    \/ t \in Apps /\ Calls(t)
    \/ t = Server /\ Recv

Task(t) == MayRun(t) /\ Work(t) /\ UNCHANGED stackVars
ClientSends == MayRun(Client) /\ Send /\ UNCHANGED stackVars

Next == Netcard \/ Tcpip \/ (\E t \in Tasks : Task(t)) \/ ClientSends

Spec == Init /\ [][Next]_vars

(* The kernel runs the highest ready task: the driver goes on with the     *)
(* frame it has begun, the server as well, and those below it when it      *)
(* waits often enough.  The client need not send, nor frames arrive.       *)
FairSpec ==
    /\ Spec
    /\ WF_vars(Netcard /\ netcard.pc # "idle")
    /\ WF_vars(Tcpip)
    /\ WF_vars(Task(Server))
    /\ SF_vars(Task(Play) \/ Task(Client))

-----------------------------------------------------------------------------
Count(s, x) == Cardinality({i \in 1..Len(s) : s[i] = x})
One(p) == IF p THEN 1 ELSE 0

InBegin == {"start", "alloc", "restart", "reset", "record"}
InCalls == {"sem", "mbox", "valid", "post", "wait"}
InLoops == {"recv", "fetch", "delete", "idle", "loop"}
Pcs == InBegin \cup InCalls \cup InLoops \cup {"dead"}

(* The values of every variable (tcpip.c, api_msg.c, sys_arch.c): above    *)
(* all, no count of op_completed goes past one.                            *)
TypeOK ==
    /\ mbox \in Seq(InCells \cup Apps) /\ freeIn \in SUBSET InCells
    /\ packet \in [InCells -> Apps \cup {None}]
    /\ netcard \in [pc : {"idle", "alloc", "post"}, to : Apps \cup {None},
                    cell : InCells \cup {None}]
    /\ tcpip \in InCells \cup Apps \cup {None}
    /\ pc \in [Tasks -> Pcs] /\ chips \in SUBSET Chips
    /\ call \in [Apps -> {"newconn", "bind", "send"}]
    /\ sem \in [Apps -> {0, 1}]
    /\ recvmbox \in [Apps -> Seq(Netbufs)] /\ freeNetbuf \in SUBSET Netbufs
    /\ held \in Netbufs \cup {None} /\ bound \in SUBSET Apps
    /\ kernel \in [events : Nat, queues : Nat]

(* No mailbox is ever full: sys_mbox_post never spins (sys_arch.c:95) and  *)
(* sys_mbox_valid never calls a good mailbox invalid (sys_arch.c:167), so  *)
(* no call is refused and recvfrom never fails.  The pools bound what can  *)
(* be queued, provided nothing is queued twice.                            *)
NeverFull == ~Full(mbox) /\ \A a \in Apps : ~Full(recvmbox[a])

(* A cell or netbuf is in exactly one place: its pool, one slot of one     *)
(* mailbox, or the hands of the task that took it (tcpip.c:191-206, 112,   *)
(* api_msg.c:171-205, sockets.c:805).                                      *)
OnePlace ==
    /\ \A c \in InCells :
          Count(mbox, c) + One(c \in freeIn) + One(netcard.cell = c) + One(tcpip = c) = 1
    /\ \A b \in Netbufs :
          Count(recvmbox[Server], b) + Count(recvmbox[Client], b)
            + One(b \in freeNetbuf) + One(held = b) = 1

(* The message of a call lies on its caller's stack (tcpip.c:329) and its  *)
(* answer is one count of a semaphore: while either is about, its caller   *)
(* waits in that call, and there is never an answer to an earlier one.     *)
CallMatched ==
    \A a \in Apps : Count(mbox, a) + One(tcpip = a) + sem[a] = One(pc[a] = "wait")

(* The kernel blocks in all: free ones and those of the netconns.          *)
HasSem(a) == One(pc[a] \notin {"start", "alloc", "sem", "dead"})
HasMbox(a) == One(pc[a] \notin {"start", "alloc", "sem", "mbox", "dead"})
AllQueues == kernel.queues + HasMbox(Server) + HasMbox(Client)
AllEvents == kernel.events + HasSem(Server) + HasSem(Client)
               + HasMbox(Server) + HasMbox(Client)

(* A socket fails only for want of kernel blocks: four events and two      *)
(* queues, which is what os_cfg.h:42 leaves, are enough for both however   *)
(* the two tasks interleave (api_msg.c:612-617).                           *)
BothSockets == AllEvents >= 4 /\ AllQueues >= 2 => \A a \in Apps : pc[a] # "dead"

(* A socket that cannot be created gives back what it took, step by step   *)
(* (api_msg.c:616, os_q.c:168): the other task may still create its own.   *)
KernelKept == [][AllEvents' = AllEvents /\ AllQueues' = AllQueues]_vars

(* The heap's scheduler lock is commented out (lib_mem.c:172), yet no two  *)
(* tasks are ever inside it: each makes its last allocation (its mailbox,  *)
(* sys_arch.c:62) before it first waits, and those below begin after that. *)
HeapAlone ==
    \A t, u \in Tasks : t # u => ~(pc[t] \in {"alloc", "mbox"} /\ pc[u] \in {"alloc", "mbox"})

(* Start-up reaches the loops: the server's whatever the codecs do, the    *)
(* client's only behind task_play's, since a decoder that takes no data    *)
(* keeps that task above it busy (vs10xx_core.c:358), and only if the      *)
(* recorder answers (task_udpclient.c:52).  A task may end for want of a   *)
(* socket, and those below the server get on only if it waits.             *)
Up(t) == pc[t] \in InLoops \cup {"dead"}
Stuck ==
    \/ "decoder" \notin chips /\ pc[Play] = "restart" /\ pc[Client] = "start"
    \/ "recorder" \notin chips /\ pc[Client] = "record"
StartsUp == []<>Blocked(Server) => <>(Up(Server) /\ (Up(Client) \/ Stuck))

(* A call of the stack is answered, whatever is in the mailbox before it   *)
(* and however many frames arrive (tcpip.c:326-343).                       *)
CallsAnswered == \A a \in Apps : pc[a] = "wait" ~> sem[a] = 1 \/ pc[a] # "wait"

(* Netbufs come back to the pool, unless the client's socket, which the    *)
(* client never reads, has them all: datagrams to port 50001 leave the     *)
(* server deaf, and nothing else does (api_msg.c:171, task_udpclient.c:34).*)
NetbufsReturn ==
    freeNetbuf = {} ~> \/ freeNetbuf # {}
                       \/ Len(recvmbox[Client]) = Cardinality(Netbufs)
=============================================================================
