-------------------------------- MODULE NetIf --------------------------------
(***************************************************************************)
(* The network interface: netif/ethernetif.c and the ENC28J60 driver, as   *)
(* two tasks and the chip drive them.                                      *)
(*                                                                         *)
(*   tcpip_thread (priority 5)   low_level_output, ENC28J60_Packet_Send    *)
(*   netcard input (priority 6)  ethernetif_input, low_level_input,        *)
(*                               ENC28J60_Packet_Receive, ENC28J60_Init    *)
(*                                                                         *)
(* Both pass their frame through one array, s_lwip_buf; sem_enc28j60lock   *)
(* is taken inside the two driver calls only.  tcpip_thread preempts the   *)
(* netcard task, which runs only while tcpip_thread is blocked.  The       *)
(* chip's interrupts are disabled by ENC28J60_Init, so the netcard task    *)
(* polls: its wait for sem_enc28j60input always times out (4 ticks).       *)
(***************************************************************************)
EXTENDS Naturals, Sequences, FiniteSets

CONSTANTS
    MaxRx,        \* bound: frames that arrive
    MaxTx,        \* bound: frames the stack sends
    FifoMax,      \* frames the chip's receive buffer holds
    MaxFaults,    \* bound: times the chip loses its receive-enable bit
    Glitches,     \* bound: SPI reads of a packet pointer that go wrong
    TimerOutput   \* can a timer of the stack send at any moment?

ASSUME NetIfAssumption ==
    /\ MaxRx \in Nat /\ MaxTx \in Nat /\ FifoMax \in Nat \ {0}
    /\ MaxFaults \in Nat /\ Glitches \in Nat /\ TimerOutput \in BOOLEAN

NoFrame == 0
RxFrames == 1..MaxRx
TxFrames == (MaxRx + 1)..(MaxRx + MaxTx)
Frames == RxFrames \cup TxFrames
Bytes == (Frames \cup {NoFrame}) \X (Frames \cup {NoFrame})

VARIABLES
    chip,      \* the ENC28J60: RXEN, packets, TXRTS, TXABRT, EIR, BUFFER, CLKRDY
    next,      \* NextPacketPtr: at the chip's oldest packet, or astray
    sbuf,      \* s_lwip_buf, as the frames its two halves come from
    lock,      \* count of sem_enc28j60lock
    net,       \* netcard task: pc, len, and the pbuf it fills
    tcpip,     \* tcpip_thread's output: pc and the frame it was given
    wire,      \* what was last handed to the chip for transmission
    delivered, \* the pbuf last given to netif->input
    taken,     \* ghost: the frame Packet_Receive returned, until it is passed on
    count      \* ghosts that bound the model: frames so far, faults, glitches

vars == <<chip, next, sbuf, lock, net, tcpip, wire, delivered, taken, count>>

(* netcard's program points.  poll: waiting for sem_enc28j60input.  lock:  *)
(* about to take sem_enc28j60lock.  snap .. unlock: inside Packet_Receive, *)
(* with reset, delay and config inside ENC28J60_Init.  alloc, cp1, cp2,    *)
(* input: in low_level_input and after it.                                 *)
Locked == {"snap", "reset", "delay", "config", "ptr", "rd1", "rd2", "free", "unlock"}
NetPcs == Locked \cup {"poll", "lock", "alloc", "cp1", "cp2", "input"}

Chip == [rxen |-> TRUE, fifo |-> <<>>, txrts |-> FALSE, txabrt |-> FALSE,
         flags |-> {}, buffer |-> FALSE, clk |-> TRUE]

(* lwip_comm_init has initialised the chip and created the two tasks.      *)
Init ==
    /\ chip = Chip /\ next = "head"
    /\ sbuf = <<NoFrame, NoFrame>> /\ lock = 1
    /\ net = [pc |-> "poll", len |-> 0, pbuf |-> <<NoFrame, NoFrame>>]
    /\ tcpip = [pc |-> "idle", given |-> NoFrame]
    /\ wire = <<NoFrame, NoFrame>> /\ delivered = <<NoFrame, NoFrame>>
    /\ taken = NoFrame
    /\ count = [rx |-> 0, tx |-> 0, fault |-> 0, glitch |-> 0]

-----------------------------------------------------------------------------
(* The chip.                                                               *)

Packet(f, ok) == [frame |-> f, ok |-> ok]

(* A frame is stored, or sets RXERIF (and perhaps ESTAT.BUFFER) for want   *)
(* of room; with reception disabled it is not seen at all.                 *)
HwReceive ==
    /\ count.rx < MaxRx
    /\ count' = [count EXCEPT !.rx = @ + 1]
    /\ \/ /\ chip.rxen /\ Len(chip.fifo) < FifoMax
          /\ \E ok \in BOOLEAN :
                chip' = [chip EXCEPT !.fifo = Append(@, Packet(count.rx + 1, ok))]
       \/ /\ chip.rxen /\ Len(chip.fifo) = FifoMax
          /\ \E b \in BOOLEAN :
                chip' = [chip EXCEPT !.flags = @ \cup {"RXERIF"}, !.buffer = @ \/ b]
       \/ ~chip.rxen /\ UNCHANGED chip
    /\ UNCHANGED <<next, sbuf, lock, net, tcpip, wire, delivered, taken>>

HwTransmitted ==
    /\ chip.txrts
    /\ \/ chip' = [chip EXCEPT !.txrts = FALSE, !.flags = @ \cup {"TXIF"}]
       \/ chip' = [chip EXCEPT !.txrts = FALSE, !.txabrt = TRUE]
    /\ UNCHANGED <<next, sbuf, lock, net, tcpip, wire, delivered, taken, count>>

(* Reception is found disabled: what the test of ECON1_RXEN is there for.  *)
HwFault ==
    /\ count.fault < MaxFaults /\ chip.rxen
    /\ chip' = [chip EXCEPT !.rxen = FALSE]
    /\ count' = [count EXCEPT !.fault = @ + 1]
    /\ UNCHANGED <<next, sbuf, lock, net, tcpip, wire, delivered, taken>>

HwClockReady ==
    /\ ~chip.clk
    /\ chip' = [chip EXCEPT !.clk = TRUE]
    /\ UNCHANGED <<next, sbuf, lock, net, tcpip, wire, delivered, taken, count>>

Hw == HwReceive \/ HwTransmitted \/ HwFault \/ HwClockReady

-----------------------------------------------------------------------------
(* tcpip_thread.  It sends for an application task or in answer to a frame *)
(* only while the netcard task is blocked or between two frames; a timer   *)
(* (ip_reass_tmr reports an incomplete datagram by ICMP) at any moment.    *)

MayOutput == net.pc \in {"poll", "lock", "delay"} \/ TimerOutput

(* Seeded fault: only the first pbuf of the chain is copied.               *)
LowLevelOutputFirstPbuf ==
    /\ tcpip.pc = "idle" /\ MayOutput
    /\ count.tx < MaxTx
    /\ LET f == MaxRx + count.tx + 1
       IN /\ sbuf' = <<f, sbuf[2]>>
          /\ tcpip' = [pc |-> IF lock > 0 THEN "send" ELSE "wait", given |-> f]
    /\ lock' = 0
    /\ count' = [count EXCEPT !.tx = @ + 1]
    /\ UNCHANGED <<chip, next, net, wire, delivered, taken>>

(* low_level_output copies the pbuf chain into s_lwip_buf before           *)
(* ENC28J60_Packet_Send asks for the lock.                                 *)
LowLevelOutput ==
    /\ tcpip.pc = "idle" /\ MayOutput
    /\ count.tx < MaxTx
    /\ LET f == MaxRx + count.tx + 1
       IN /\ sbuf' = <<f, f>>
          /\ tcpip' = [pc |-> IF lock > 0 THEN "send" ELSE "wait", given |-> f]
    /\ lock' = 0
    /\ count' = [count EXCEPT !.tx = @ + 1]
    /\ UNCHANGED <<chip, next, net, wire, delivered, taken>>

(* Seeded fault: the early return falls through to the second post.        *)
OutputDonePostedTwice ==
    /\ tcpip' = [pc |-> "idle", given |-> NoFrame]
    /\ lock' = lock + 2
    /\ UNCHANGED <<next, sbuf, net, delivered, taken, count>>

(* The return from Packet_Send; low_level_output answers ERR_OK always.    *)
OutputDone ==
    /\ tcpip' = [pc |-> "idle", given |-> NoFrame]
    /\ lock' = 1
    /\ UNCHANGED <<next, sbuf, net, delivered, taken, count>>

(* One turn of the retry loop: the error of the previous frame is cleared. *)
ClearAbort ==
    /\ tcpip.pc = "send" /\ chip.txabrt
    /\ chip' = [chip EXCEPT !.txabrt = FALSE]
    /\ UNCHANGED <<next, sbuf, lock, net, tcpip, wire, delivered, taken, count>>

(* retry > 200: the previous frame is still being sent; this one is        *)
(* dropped.                                                                *)
SendGivenUp ==
    /\ tcpip.pc = "send" /\ chip.txrts
    /\ UNCHANGED <<chip, wire>>
    /\ OutputDone

(* The frame is written and TXRTS set; with EIR_TXERIF, cleared again.     *)
PacketSend ==
    /\ tcpip.pc = "send" /\ ~chip.txrts /\ ~chip.txabrt
    /\ \E error \in BOOLEAN :
          /\ chip' = [chip EXCEPT !.txrts = ~error, !.flags = @ \ {"TXIF"}]
          /\ wire' = IF error THEN wire ELSE sbuf
    /\ OutputDone

Output == LowLevelOutput \/ ClearAbort \/ SendGivenUp \/ PacketSend

-----------------------------------------------------------------------------
(* The netcard task; each step only while tcpip_thread does not run.       *)

At(pc) == net.pc = pc /\ tcpip.pc # "send"
Go(pc) == net' = [net EXCEPT !.pc = pc]

NetUnchanged == UNCHANGED <<tcpip, wire>>

(* OSSemPend(sem_enc28j60input, 4, &_err), its result ignored.             *)
Poll ==
    /\ At("poll") /\ Go("lock")
    /\ UNCHANGED <<chip, next, sbuf, lock, delivered, taken, count>> /\ NetUnchanged

TakeLock ==
    /\ At("lock") /\ Go("snap")
    /\ lock > 0 /\ lock' = 0
    /\ UNCHANGED <<chip, next, sbuf, delivered, taken, count>> /\ NetUnchanged

(* Seeded fault: a chip that stopped receiving is not noticed.             *)
NeedsInitBufferOnly == chip.flags # {} /\ chip.buffer

(* "eir*EIR_RXERIF" is true for any flag of EIR, not RXERIF alone.         *)
NeedsInit == (~chip.rxen /\ chip.clk) \/ (chip.flags # {} /\ chip.buffer)

(* ESTAT, EIR, ECON1 and EPKTCNT are read; the retry loop that follows     *)
(* reads none of them again, so a busy chip means no packet this time.     *)
Snapshot(rxbusy) ==
    /\ At("snap")
    /\ \/ chip.fifo = <<>> /\ Go(IF NeedsInit THEN "reset" ELSE "unlock")
       \/ chip.fifo # <<>> /\ Go(IF chip.txrts \/ rxbusy THEN "unlock" ELSE "ptr")
    /\ UNCHANGED <<chip, next, sbuf, lock, delivered, taken, count>> /\ NetUnchanged

(* ENC28J60_Init: the reset pin, delays that block, then the registers;    *)
(* it gives up when ESTAT_CLKRDY does not come in 250 ms.                  *)
ChipReset ==
    /\ At("reset") /\ Go("delay")
    /\ chip' = [Chip EXCEPT !.rxen = FALSE]
    /\ UNCHANGED <<next, sbuf, lock, delivered, taken, count>> /\ NetUnchanged

DelayOver ==
    /\ At("delay") /\ Go("config")
    /\ UNCHANGED <<chip, next, sbuf, lock, delivered, taken, count>> /\ NetUnchanged

Configure(clkrdy) ==
    /\ At("config") /\ Go("unlock")
    /\ IF clkrdy
       THEN chip' = [chip EXCEPT !.rxen = TRUE] /\ next' = "head"
       ELSE chip' = [chip EXCEPT !.clk = FALSE] /\ UNCHANGED next
    /\ UNCHANGED <<sbuf, lock, delivered, taken, count>> /\ NetUnchanged

(* Seeded fault: a packet with a bad status is left in the chip.           *)
PacketHeaderBadKept ==
    /\ At("ptr")
    /\ net' = [net EXCEPT !.pc = IF Head(chip.fifo).ok THEN "rd1" ELSE "unlock",
                          !.len = IF Head(chip.fifo).ok THEN 1 ELSE 0]
    /\ UNCHANGED <<chip, next, sbuf, lock, delivered, taken, count>> /\ NetUnchanged

(* The pointer to the next packet comes garbled from the chip.             *)
Misread ==
    /\ count.glitch < Glitches
    /\ next' = "astray"
    /\ count' = [count EXCEPT !.glitch = @ + 1]

(* The pointer to the next packet, the length and the receive status, from *)
(* the oldest packet or, when the pointer is astray, from anywhere.  An    *)
(* address outside the buffer resets the chip at once and leaves "len"     *)
(* unassigned; a bad status makes the length 0.                            *)
PacketHeader ==
    /\ At("ptr")
    /\ \/ /\ next = "head"
          /\ net' = [net EXCEPT !.pc = IF Head(chip.fifo).ok THEN "rd1" ELSE "free",
                                !.len = IF Head(chip.fifo).ok THEN 1 ELSE 0]
          /\ Misread \/ UNCHANGED <<next, count>>
       \/ /\ next = "head" /\ Misread
          /\ \E len \in {0, 1} : net' = [net EXCEPT !.pc = "reset", !.len = len]
       \/ /\ next = "astray"
          /\ \E step \in {<<"rd1", 1>>, <<"free", 0>>, <<"reset", 0>>, <<"reset", 1>>} :
                net' = [net EXCEPT !.pc = step[1], !.len = step[2]]
          /\ UNCHANGED <<next, count>>
    /\ UNCHANGED <<chip, sbuf, lock, delivered, taken>> /\ NetUnchanged

(* What ENC28J60_Read_Buf reads: the packet NextPacketPtr pointed at.      *)
ReadBytes(half) ==
    sbuf' = [sbuf EXCEPT ![half] =
                IF next = "head" THEN Head(chip.fifo).frame ELSE NoFrame]

ReadFirstHalf ==
    /\ At("rd1") /\ Go("rd2") /\ ReadBytes(1)
    /\ UNCHANGED <<chip, next, lock, delivered, taken, count>> /\ NetUnchanged

ReadSecondHalf ==
    /\ At("rd2") /\ Go("free") /\ ReadBytes(2)
    /\ UNCHANGED <<chip, next, lock, delivered, taken, count>> /\ NetUnchanged

(* Seeded fault: PKTDEC is forgotten.                                      *)
FreePacketForgotten ==
    /\ At("free") /\ Go("unlock")
    /\ taken' = IF net.len > 0 THEN Head(chip.fifo).frame ELSE NoFrame
    /\ UNCHANGED <<chip, next, sbuf, lock, delivered, count>> /\ NetUnchanged

(* ERXRDPT is moved and PKTDEC set.                                        *)
FreePacket ==
    /\ At("free") /\ Go("unlock")
    /\ chip' = [chip EXCEPT !.fifo = Tail(@)]
    /\ taken' = IF net.len > 0 THEN Head(chip.fifo).frame ELSE NoFrame
    /\ UNCHANGED <<next, sbuf, lock, delivered, count>> /\ NetUnchanged

(* Seeded fault: the lock is given back although a task waits for it.      *)
UnlockOverWaiter ==
    /\ At("unlock") /\ Go(IF net.len > 0 THEN "alloc" ELSE "poll")
    /\ lock' = 1 /\ UNCHANGED tcpip
    /\ UNCHANGED <<chip, next, sbuf, wire, delivered, taken, count>>

(* OSSemPost(sem_enc28j60lock): a waiting tcpip_thread gets it and runs.   *)
(* No packet (len 0) ends the drain loop of ethernetif_input.              *)
Unlock ==
    /\ At("unlock") /\ Go(IF net.len > 0 THEN "alloc" ELSE "poll")
    /\ IF tcpip.pc = "wait"
       THEN tcpip' = [tcpip EXCEPT !.pc = "send"] /\ UNCHANGED lock
       ELSE lock' = 1 /\ UNCHANGED tcpip
    /\ UNCHANGED <<chip, next, sbuf, wire, delivered, taken, count>>

(* pbuf_alloc; without a pbuf the packet is lost and the drain loop ends.  *)
AllocPbuf ==
    /\ At("alloc")
    /\ \/ Go("cp1") /\ UNCHANGED taken
       \/ net' = [net EXCEPT !.pc = "poll", !.len = 0] /\ taken' = NoFrame
    /\ UNCHANGED <<chip, next, sbuf, lock, delivered, count>> /\ NetUnchanged

(* memcpy from s_lwip_buf to the pbuf, without the lock.                   *)
CopyFirstHalf ==
    /\ At("cp1")
    /\ net' = [net EXCEPT !.pc = "cp2", !.pbuf[1] = sbuf[1]]
    /\ UNCHANGED <<chip, next, sbuf, lock, delivered, taken, count>> /\ NetUnchanged

CopySecondHalf ==
    /\ At("cp2")
    /\ net' = [net EXCEPT !.pc = "input", !.pbuf[2] = sbuf[2]]
    /\ UNCHANGED <<chip, next, sbuf, lock, delivered, taken, count>> /\ NetUnchanged

(* netif->input: tcpip_input posts the pbuf, or fails and it is freed.     *)
NetifInput ==
    /\ At("input")
    /\ net' = [pc |-> "lock", len |-> 0, pbuf |-> <<NoFrame, NoFrame>>]
    /\ delivered' \in {net.pbuf, delivered}
    /\ taken' = NoFrame
    /\ UNCHANGED <<chip, next, sbuf, lock, count>> /\ NetUnchanged

SnapshotQuiet == Snapshot(FALSE)
ConfigureReady == Configure(TRUE)

Netcard ==
    \/ Poll \/ TakeLock \/ (\E b \in BOOLEAN : Snapshot(b))
    \/ ChipReset \/ DelayOver \/ (\E b \in BOOLEAN : Configure(b))
    \/ PacketHeader \/ ReadFirstHalf \/ ReadSecondHalf \/ FreePacket
    \/ Unlock \/ AllocPbuf \/ CopyFirstHalf \/ CopySecondHalf \/ NetifInput

-----------------------------------------------------------------------------
Next == Hw \/ Output \/ Netcard

Spec == Init /\ [][Next]_vars

(* Both tasks run when they can, a transmission ends and the clock comes   *)
(* up; the chip is not receiving each time it is polled, and its clock is  *)
(* not too late each time it is initialised.                               *)
Fairness ==
    /\ WF_vars(Netcard) /\ WF_vars(HwTransmitted) /\ WF_vars(HwClockReady)
    /\ WF_vars(ClearAbort \/ SendGivenUp \/ PacketSend)
    /\ SF_vars(SnapshotQuiet) /\ SF_vars(ConfigureReady)

FairSpec == Spec /\ Fairness

-----------------------------------------------------------------------------
(* Properties.                                                             *)

PacketType == [frame : RxFrames, ok : BOOLEAN]
ChipType == [rxen : BOOLEAN, fifo : Seq(PacketType), txrts : BOOLEAN,
             txabrt : BOOLEAN, flags : SUBSET {"TXIF", "RXERIF"}, buffer : BOOLEAN, clk : BOOLEAN]
NetType == [pc : NetPcs, len : {0, 1}, pbuf : Bytes]
TcpipType == [pc : {"idle", "wait", "send"}, given : TxFrames \cup {NoFrame}]
CountType == [rx : 0..MaxRx, tx : 0..MaxTx, fault : 0..MaxFaults, glitch : 0..Glitches]

(* The shapes of the state of the chip, the driver (Packet_Send and        *)
(* Packet_Receive) and the two tasks.                                      *)
TypeOK ==
    /\ chip \in ChipType
    /\ next \in {"head", "astray"}
    /\ sbuf \in Bytes /\ wire \in Bytes /\ delivered \in Bytes
    /\ lock \in {0, 1}
    /\ net \in NetType
    /\ tcpip \in TcpipType
    /\ taken \in RxFrames \cup {NoFrame}
    /\ count \in CountType

(* sem_enc28j60lock is held by one of the two tasks or free: the chip's    *)
(* registers, its bank and its pointers never see two driver calls at      *)
(* once, and tcpip_thread waits only for a netcard task that has the lock. *)
Interlock ==
    /\ (lock = 0) = (net.pc \in Locked \/ tcpip.pc = "send")
    /\ ~(net.pc \in Locked /\ tcpip.pc = "send")
    /\ tcpip.pc = "wait" => net.pc \in Locked

(* The interface is two lossy links (NetLink) until a packet pointer is    *)
(* misread: the frame in tcpip_thread's hands goes out as it was given or  *)
(* not at all, and what arrived is passed up whole, once and in order, or  *)
(* not at all.  After ENC28J60_Packet_Receive read through a pointer       *)
(* astray nothing is promised: the length it returns was never assigned,   *)
(* and unless it happens to be 0 stale bytes of s_lwip_buf are passed up.  *)
Whole(bytes) == IF bytes[1] = bytes[2] THEN bytes[1] ELSE MaxRx + MaxTx + 1
Fifo == [i \in DOMAIN chip.fifo |-> chip.fifo[i].frame]
Link == INSTANCE NetLink WITH
            Frames <- Frames, NoFrame <- NoFrame,
            rx <- (IF taken # NoFrame THEN <<taken>> ELSE <<>>) \o Fifo,
            delivered <- Whole(delivered),
            tx <- tcpip.given, wire <- Whole(wire)
LinkSpec == Link!Init /\ [][count'.glitch = 0 => [Link!Next]_(Link!vars)]_vars

(* A chip that stopped receiving is initialised again by Packet_Receive's  *)
(* test of ECON1_RXEN, and receives.                                       *)
ReceptionRecovers == ~chip.rxen ~> chip.rxen

(* Every packet the chip holds is taken from it by ethernetif_input's      *)
(* polling, whatever ends a drain loop (bad status, no pbuf, busy chip).   *)
PacketsDrained == \A f \in RxFrames : f \in {Fifo[i] : i \in DOMAIN Fifo}
                                   ~> f \notin {Fifo[i] : i \in DOMAIN Fifo}

(* lwip_comm.c:61 calls sem_enc28j60lock the semaphore that interlocks     *)
(* reading and writing the card: what Packet_Send sends is what            *)
(* low_level_output was given.                                             *)
SentAsGiven == [][wire' # wire => wire' = <<tcpip.given, tcpip.given>>]_vars
=============================================================================
