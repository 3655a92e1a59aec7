----------------------------- MODULE NetIfProofs -----------------------------
(***************************************************************************)
(* The driver's lock excludes, for every bound; and as long as no timer of *)
(* the stack sends, what is put on the wire is what the stack sent, and    *)
(* the driver implements NetLink.                                          *)
(***************************************************************************)
EXTENDS NetIf, FiniteSetTheorems, SequenceTheorems, TLAPS

(* While the driver reads a packet there is one in the chip.               *)
PacketThere == net.pc \in {"ptr", "rd1", "rd2", "free"} => chip.fifo # <<>>

IInv == TypeOK /\ Interlock /\ PacketThere

-----------------------------------------------------------------------------
(* Lemmas on the record types.                                             *)

(* Changing one field of the chip's record by a value of its type.         *)
LEMMA ChipUpdate ==
    ASSUME NEW c \in ChipType
    PROVE  /\ \A v \in BOOLEAN : [c EXCEPT !.rxen = v] \in ChipType
           /\ \A v \in Seq(PacketType) : [c EXCEPT !.fifo = v] \in ChipType
           /\ \A v \in BOOLEAN : [c EXCEPT !.txrts = v] \in ChipType
           /\ \A v \in BOOLEAN : [c EXCEPT !.txabrt = v] \in ChipType
           /\ \A v \in SUBSET {"TXIF", "RXERIF"} : [c EXCEPT !.flags = v] \in ChipType
           /\ \A v \in BOOLEAN : [c EXCEPT !.buffer = v] \in ChipType
           /\ \A v \in BOOLEAN : [c EXCEPT !.clk = v] \in ChipType
  BY DEF ChipType

(* The same for the netcard task's record.                                 *)
LEMMA NetUpdate ==
    ASSUME NEW n \in NetType
    PROVE  /\ \A v \in NetPcs : [n EXCEPT !.pc = v] \in NetType
           /\ \A v \in {0, 1} : [n EXCEPT !.len = v] \in NetType
           /\ \A v \in Frames \cup {NoFrame} :
                 /\ [n EXCEPT !.pbuf[1] = v] \in NetType
                 /\ [n EXCEPT !.pbuf[2] = v] \in NetType
<1>1. n.pbuf \in Bytes
  BY DEF NetType
<1>2. \A v \in Frames \cup {NoFrame} :
         /\ [n.pbuf EXCEPT ![1] = v] \in Bytes
         /\ [n.pbuf EXCEPT ![2] = v] \in Bytes
  BY <1>1 DEF Bytes
<1>3. \A b \in Bytes : [n EXCEPT !.pbuf = b] \in NetType
  BY DEF NetType
<1> QED BY <1>2, <1>3 DEF NetType

(* Counting one more event below its bound.                                *)
LEMMA CountUpdate ==
    ASSUME NEW c \in CountType
    PROVE  /\ c.rx < MaxRx => [c EXCEPT !.rx = c.rx + 1] \in CountType
           /\ c.tx < MaxTx => [c EXCEPT !.tx = c.tx + 1] \in CountType
           /\ c.fault < MaxFaults => [c EXCEPT !.fault = c.fault + 1] \in CountType
           /\ c.glitch < Glitches => [c EXCEPT !.glitch = c.glitch + 1] \in CountType
<1>1. /\ c.rx \in 0..MaxRx /\ c.tx \in 0..MaxTx
      /\ c.fault \in 0..MaxFaults /\ c.glitch \in 0..Glitches
  BY DEF CountType
<1>2. /\ \A v \in 0..MaxRx : [c EXCEPT !.rx = v] \in CountType
      /\ \A v \in 0..MaxTx : [c EXCEPT !.tx = v] \in CountType
      /\ \A v \in 0..MaxFaults : [c EXCEPT !.fault = v] \in CountType
      /\ \A v \in 0..Glitches : [c EXCEPT !.glitch = v] \in CountType
  BY DEF CountType
<1>3. /\ c.rx < MaxRx => c.rx + 1 \in 0..MaxRx
      /\ c.tx < MaxTx => c.tx + 1 \in 0..MaxTx
      /\ c.fault < MaxFaults => c.fault + 1 \in 0..MaxFaults
      /\ c.glitch < Glitches => c.glitch + 1 \in 0..Glitches
  BY <1>1, NetIfAssumption
<1> QED BY <1>2, <1>3

(* The initial state.                                                      *)
LEMMA InitIInv == Init => IInv
<1> SUFFICES ASSUME Init PROVE IInv
  OBVIOUS
<1>1. chip \in ChipType
  BY DEF Init, Chip, ChipType
<1>2. TypeOK
  BY <1>1, NetIfAssumption
  DEF Init, TypeOK, Bytes, NetType, NetPcs, TcpipType, CountType, Frames, NoFrame
<1> QED BY <1>2 DEF Init, IInv, Interlock, PacketThere, Locked

-----------------------------------------------------------------------------
(* The chip's own steps keep IInv: they add packets and raise flags.       *)
LEMMA HwKeepsIInv ==
    ASSUME IInv, Hw
    PROVE  IInv'
<1>1. chip \in ChipType /\ count \in CountType /\ chip.fifo \in Seq(PacketType)
      /\ chip.flags \in SUBSET {"TXIF", "RXERIF"} /\ chip.buffer \in BOOLEAN
  BY DEF IInv, TypeOK, ChipType
<1>2. /\ UNCHANGED <<next, sbuf, lock, net, tcpip, wire, delivered, taken>>
      /\ chip' \in ChipType /\ count' \in CountType
      /\ chip.fifo # <<>> => chip'.fifo # <<>>
  <2>1. CASE HwReceive
    <3>1. count' \in CountType
      BY <1>1, <2>1, CountUpdate DEF HwReceive
    <3>5. count.rx + 1 \in RxFrames
      <4>1. count.rx \in 0..MaxRx /\ count.rx < MaxRx
        BY <1>1, <2>1 DEF HwReceive, CountType
      <4> QED BY <4>1, NetIfAssumption DEF RxFrames
    <3>2. CASE /\ chip.rxen /\ Len(chip.fifo) < FifoMax
               /\ \E ok \in BOOLEAN :
                     chip' = [chip EXCEPT !.fifo = Append(@, Packet(count.rx + 1, ok))]
      <4>1. PICK ok \in BOOLEAN :
                chip' = [chip EXCEPT !.fifo = Append(chip.fifo, Packet(count.rx + 1, ok))]
        BY <3>2
      <4>2. Packet(count.rx + 1, ok) \in PacketType
        BY <3>5 DEF Packet, PacketType
      <4>3. /\ Append(chip.fifo, Packet(count.rx + 1, ok)) \in Seq(PacketType)
            /\ Append(chip.fifo, Packet(count.rx + 1, ok)) # <<>>
        <5>1. ASSUME NEW s \in Seq(PacketType), NEW e \in PacketType
              PROVE  Append(s, e) \in Seq(PacketType) /\ Append(s, e) # <<>>
          OBVIOUS
        <5>2. chip.fifo \in Seq(PacketType)
          BY <1>1
        <5> QED BY <4>2, <5>1, <5>2
      <4>4. chip' \in ChipType
        BY <1>1, <4>1, <4>3, ChipUpdate
      <4>5. chip'.fifo = Append(chip.fifo, Packet(count.rx + 1, ok))
        BY <1>1, <4>1 DEF ChipType
      <4> QED BY <2>1, <3>1, <4>3, <4>4, <4>5 DEF HwReceive
    <3>3. CASE \E b \in BOOLEAN :
                  chip' = [chip EXCEPT !.flags = @ \cup {"RXERIF"}, !.buffer = @ \/ b]
      <4>1. PICK b \in BOOLEAN :
                chip' = [[chip EXCEPT !.flags = chip.flags \cup {"RXERIF"}]
                            EXCEPT !.buffer = chip.buffer \/ b]
        BY <3>3, <1>1 DEF ChipType
      <4> DEFINE c == [chip EXCEPT !.flags = chip.flags \cup {"RXERIF"}]
      <4>2. c \in ChipType
        <5>1. chip.flags \cup {"RXERIF"} \in SUBSET {"TXIF", "RXERIF"}
          BY <1>1
        <5> QED BY <1>1, <5>1, ChipUpdate
      <4>7. c.fifo = chip.fifo
        BY <1>1 DEF ChipType
      <4> HIDE DEF c
      <4>3. (chip.buffer \/ b) \in BOOLEAN
        BY Zenon
      <4>4. chip' = [c EXCEPT !.buffer = chip.buffer \/ b]
        BY <4>1 DEF c
      <4>5. chip' \in ChipType
        BY <4>2, <4>3, <4>4, ChipUpdate
      <4>6. chip'.fifo = c.fifo
        BY <4>2, <4>4 DEF ChipType
      <4> QED BY <2>1, <3>1, <4>5, <4>6, <4>7 DEF HwReceive
    <3>4. CASE UNCHANGED chip
      BY <1>1, <2>1, <3>1, <3>4 DEF HwReceive
    <3> QED BY <2>1, <3>2, <3>3, <3>4 DEF HwReceive
  <2>2. CASE HwTransmitted
    <3> DEFINE c == [chip EXCEPT !.txrts = FALSE]
    <3>1. /\ c \in ChipType
          /\ c.fifo = chip.fifo /\ c.flags = chip.flags
      <4>1. c \in ChipType
        BY <1>1, ChipUpdate
      <4>2. c.fifo = chip.fifo /\ c.flags = chip.flags
        BY <1>1 DEF ChipType
      <4> QED BY <4>1, <4>2
    <3>2. chip' = [c EXCEPT !.flags = c.flags \cup {"TXIF"}] \/ chip' = [c EXCEPT !.txabrt = TRUE]
      BY <2>2, <1>1 DEF HwTransmitted, ChipType
    <3> HIDE DEF c
    <3>3. c.flags \cup {"TXIF"} \in SUBSET {"TXIF", "RXERIF"}
      BY <1>1, <3>1
    <3>4. chip' \in ChipType
      BY <3>1, <3>2, <3>3, ChipUpdate
    <3>5. chip'.fifo = c.fifo
      BY <3>1, <3>2 DEF ChipType
    <3> QED BY <1>1, <2>2, <3>1, <3>4, <3>5 DEF HwTransmitted
  <2>3. CASE HwFault
    <3>1. count' \in CountType
      BY <1>1, <2>3, CountUpdate DEF HwFault
    <3>3. chip' = [chip EXCEPT !.rxen = FALSE]
      BY <2>3 DEF HwFault
    <3>2. chip' \in ChipType /\ chip'.fifo = chip.fifo
      <4>1. chip' \in ChipType
        BY <1>1, <3>3, ChipUpdate
      <4>2. chip'.fifo = chip.fifo
        BY <1>1, <3>3 DEF ChipType
      <4> QED BY <4>1, <4>2
    <3> QED BY <2>3, <3>1, <3>2 DEF HwFault
  <2>4. CASE HwClockReady
    <3>1. chip' = [chip EXCEPT !.clk = TRUE]
      BY <2>4 DEF HwClockReady
    <3>2. chip' \in ChipType
      BY <1>1, <3>1, ChipUpdate
    <3>3. chip'.fifo = chip.fifo
      BY <1>1, <3>1 DEF ChipType
    <3> QED BY <1>1, <2>4, <3>2, <3>3 DEF HwClockReady
  <2> QED BY <2>1, <2>2, <2>3, <2>4 DEF Hw
<1>3. TypeOK'
  BY <1>2 DEF IInv, TypeOK
<1>4. Interlock' /\ PacketThere'
  BY <1>2 DEF IInv, Interlock, PacketThere
<1> QED BY <1>3, <1>4 DEF IInv

-----------------------------------------------------------------------------
(* The steps of tcpip_thread keep IInv: it takes the lock or waits for it, *)
(* and gives it back at every return of Packet_Send.                       *)
LEMMA OutputKeepsIInv ==
    ASSUME IInv, Output
    PROVE  IInv'
<1>1. TypeOK /\ Interlock /\ PacketThere /\ chip \in ChipType
  BY DEF IInv, TypeOK
<1>2. CASE LowLevelOutput
  <2> DEFINE f == MaxRx + count.tx + 1
  <2>1. f \in TxFrames /\ f \in Frames
    BY <1>1, <1>2, NetIfAssumption
    DEF LowLevelOutput, TypeOK, CountType, TxFrames, Frames
  <2>2. sbuf' = <<f, f>> /\ tcpip' = [pc |-> IF lock > 0 THEN "send" ELSE "wait", given |-> f]
    BY <1>2 DEF LowLevelOutput
  <2> HIDE DEF f
  <2>3. sbuf' \in Bytes /\ tcpip' \in TcpipType
    BY <2>1, <2>2 DEF Bytes, TcpipType
  <2>4. count' \in CountType
    BY <1>1, <1>2, CountUpdate DEF LowLevelOutput, TypeOK
  <2>5. TypeOK'
    BY <1>1, <1>2, <2>3, <2>4 DEF LowLevelOutput, TypeOK
  <2>6. Interlock' /\ PacketThere'
    BY <1>1, <1>2, <2>2 DEF LowLevelOutput, TypeOK, Interlock, PacketThere
  <2> QED BY <2>5, <2>6 DEF IInv
<1>3. CASE ClearAbort
  <2>3. chip' = [chip EXCEPT !.txabrt = FALSE]
    BY <1>3 DEF ClearAbort
  <2>1. chip' \in ChipType /\ chip'.fifo = chip.fifo
    <3>1. chip' \in ChipType
      BY <1>1, <2>3, ChipUpdate
    <3>2. chip'.fifo = chip.fifo
      BY <1>1, <2>3 DEF ChipType
    <3> QED BY <3>1, <3>2
  <2>2. TypeOK' /\ Interlock' /\ PacketThere'
    BY <1>1, <1>3, <2>1 DEF ClearAbort, TypeOK, Interlock, PacketThere
  <2> QED BY <2>2 DEF IInv
<1>4. ASSUME OutputDone, tcpip.pc = "send", chip' \in ChipType, wire' \in Bytes,
             chip'.fifo = chip.fifo
      PROVE  IInv'
  <2>1. tcpip' \in TcpipType
    BY <1>4 DEF OutputDone, TcpipType
  <2>2. TypeOK'
    BY <1>1, <1>4, <2>1 DEF OutputDone, TypeOK
  <2>3. Interlock' /\ PacketThere'
    BY <1>1, <1>4 DEF OutputDone, Interlock, PacketThere
  <2> QED BY <2>2, <2>3 DEF IInv
<1>5. CASE SendGivenUp
  BY <1>1, <1>4, <1>5 DEF SendGivenUp, TypeOK
<1>6. CASE PacketSend
  <2>1. PICK error \in BOOLEAN :
           /\ chip' = [chip EXCEPT !.txrts = ~error, !.flags = @ \ {"TXIF"}]
           /\ wire' = IF error THEN wire ELSE sbuf
    BY <1>6 DEF PacketSend
  <2> DEFINE c == [chip EXCEPT !.txrts = ~error]
  <2>2. (~error) \in BOOLEAN
    BY Zenon
  <2>3. /\ c \in ChipType
        /\ c.fifo = chip.fifo /\ c.flags = chip.flags
    <3>1. c \in ChipType
      BY <1>1, <2>2, ChipUpdate
    <3>2. c.fifo = chip.fifo /\ c.flags = chip.flags
      BY <1>1 DEF ChipType
    <3> QED BY <3>1, <3>2
  <2>4. chip' = [c EXCEPT !.flags = c.flags \ {"TXIF"}]
    BY <1>1, <2>1 DEF ChipType
  <2> HIDE DEF c
  <2>5. c.flags \ {"TXIF"} \in SUBSET {"TXIF", "RXERIF"}
    BY <2>3 DEF ChipType
  <2>6. chip' \in ChipType /\ chip'.fifo = chip.fifo
    <3>1. chip' \in ChipType
      BY <2>3, <2>4, <2>5, ChipUpdate
    <3>2. chip'.fifo = c.fifo
      BY <2>3, <2>4 DEF ChipType
    <3> QED BY <2>3, <3>1, <3>2
  <2>7. wire' \in Bytes
    BY <1>1, <2>1 DEF TypeOK
  <2> QED BY <1>4, <1>6, <2>6, <2>7 DEF PacketSend
<1> QED BY <1>2, <1>3, <1>5, <1>6 DEF Output
-----------------------------------------------------------------------------
(* The steps of the netcard task keep IInv: between TakeLock and Unlock it *)
(* has the lock, and only it takes packets out of the chip.                *)
LEMMA NetcardKeepsIInv ==
    ASSUME IInv, Netcard
    PROVE  IInv'
<1>1. TypeOK /\ Interlock /\ PacketThere
  BY DEF IInv
<1>2. \A pc \in NetPcs : Go(pc) => net' \in NetType /\ net'.pc = pc
  <2>1. net \in NetType
    BY <1>1 DEF TypeOK
  <2>2. \A pc \in NetPcs : [net EXCEPT !.pc = pc] \in NetType
    BY <2>1, NetUpdate
  <2>3. \A pc \in NetPcs : [net EXCEPT !.pc = pc].pc = pc
    BY <2>1 DEF NetType
  <2> QED BY <2>2, <2>3 DEF Go
<1>3. net \in NetType /\ chip \in ChipType /\ chip.fifo \in Seq(PacketType)
  BY <1>1 DEF TypeOK, ChipType
<1>4. chip.fifo # <<>> => /\ Head(chip.fifo) \in PacketType
                          /\ Tail(chip.fifo) \in Seq(PacketType)
  BY <1>3
<1>5. CASE Poll
  <2>1. net' \in NetType /\ net'.pc = "lock"
    BY <1>2, <1>5 DEF Poll, Go, NetPcs, Locked
  <2>2. TypeOK'
    BY <1>1, <1>5, <2>1 DEF Poll, NetUnchanged, TypeOK
  <2>3. Interlock' /\ PacketThere'
    BY <1>1, <1>5, <2>1 DEF Poll, At, NetUnchanged, Interlock, PacketThere, Locked
  <2> QED BY <2>2, <2>3 DEF IInv
<1>6. CASE TakeLock
  <2>1. net' \in NetType /\ net'.pc = "snap"
    BY <1>2, <1>6 DEF TakeLock, Go, NetPcs, Locked
  <2>2. TypeOK'
    BY <1>1, <1>6, <2>1 DEF TakeLock, NetUnchanged, TypeOK
  <2>3. Interlock' /\ PacketThere'
    BY <1>1, <1>6, <2>1 DEF TakeLock, At, NetUnchanged, Interlock, PacketThere, Locked
  <2> QED BY <2>2, <2>3 DEF IInv
<1>7. ASSUME NEW b \in BOOLEAN, Snapshot(b)
      PROVE  IInv'
  <2>1. /\ net' \in NetType
        /\ \/ net'.pc \in {"reset", "unlock"}
           \/ chip.fifo # <<>> /\ net'.pc = "ptr"
    <3>1. PICK pc \in NetPcs :
             Go(pc) /\ (pc \in {"reset", "unlock"} \/ (chip.fifo # <<>> /\ pc = "ptr"))
      <4>1. CASE chip.fifo = <<>>
        BY <1>7, <4>1 DEF Snapshot, NetPcs, Locked
      <4>2. CASE chip.fifo # <<>>
        BY <1>7, <4>2 DEF Snapshot, NetPcs, Locked
      <4> QED BY <4>1, <4>2
    <3> QED BY <1>2, <3>1
  <2>2. TypeOK'
    BY <1>1, <1>7, <2>1 DEF Snapshot, NetUnchanged, TypeOK
  <2>3. Interlock' /\ PacketThere'
    BY <1>1, <1>7, <2>1 DEF Snapshot, At, NetUnchanged, Interlock, PacketThere, Locked
  <2> QED BY <2>2, <2>3 DEF IInv
<1>8. CASE ChipReset
  <2>1. net' \in NetType /\ net'.pc = "delay"
    BY <1>2, <1>8 DEF ChipReset, Go, NetPcs, Locked
  <2>2. chip' \in ChipType
    <3>1. Chip \in ChipType
      BY DEF Chip, ChipType
    <3>2. chip' = [Chip EXCEPT !.rxen = FALSE]
      BY <1>8 DEF ChipReset
    <3> QED BY <3>1, <3>2, ChipUpdate
  <2>3. TypeOK'
    BY <1>1, <1>8, <2>1, <2>2 DEF ChipReset, NetUnchanged, TypeOK
  <2>4. Interlock' /\ PacketThere'
    BY <1>1, <1>8, <2>1 DEF ChipReset, At, NetUnchanged, Interlock, PacketThere, Locked
  <2> QED BY <2>3, <2>4 DEF IInv
<1>9. CASE DelayOver
  <2>1. net' \in NetType /\ net'.pc = "config"
    BY <1>2, <1>9 DEF DelayOver, Go, NetPcs, Locked
  <2>2. TypeOK'
    BY <1>1, <1>9, <2>1 DEF DelayOver, NetUnchanged, TypeOK
  <2>3. Interlock' /\ PacketThere'
    BY <1>1, <1>9, <2>1 DEF DelayOver, At, NetUnchanged, Interlock, PacketThere, Locked
  <2> QED BY <2>2, <2>3 DEF IInv
<1>10. ASSUME NEW b \in BOOLEAN, Configure(b)
       PROVE  IInv'
  <2>1. net' \in NetType /\ net'.pc = "unlock"
    BY <1>2, <1>10 DEF Configure, Go, NetPcs, Locked
  <2>2. chip' \in ChipType /\ next' \in {"head", "astray"}
    <3>1. [chip EXCEPT !.rxen = TRUE] \in ChipType /\ [chip EXCEPT !.clk = FALSE] \in ChipType
      BY <1>3, ChipUpdate
    <3>2. \/ chip' = [chip EXCEPT !.rxen = TRUE] /\ next' = "head"
          \/ chip' = [chip EXCEPT !.clk = FALSE] /\ next' = next
      BY <1>10 DEF Configure
    <3> QED BY <1>1, <3>1, <3>2 DEF TypeOK
  <2>3. TypeOK'
    BY <1>1, <1>10, <2>1, <2>2 DEF Configure, NetUnchanged, TypeOK
  <2>4. Interlock' /\ PacketThere'
    BY <1>1, <1>10, <2>1 DEF Configure, At, NetUnchanged, Interlock, PacketThere, Locked
  <2> QED BY <2>3, <2>4 DEF IInv
<1>11. CASE PacketHeader
  <2>1. PICK pc \in {"rd1", "free", "reset"}, len \in {0, 1} :
           net' = [net EXCEPT !.pc = pc, !.len = len]
    <3>1. CASE next = "head"
      <4> DEFINE pcOk  == IF Head(chip.fifo).ok THEN "rd1" ELSE "free"
                 lenOk == IF Head(chip.fifo).ok THEN 1 ELSE 0
      <4>1. CASE net' = [net EXCEPT !.pc = pcOk, !.len = lenOk]
        <5>1. pcOk \in {"rd1", "free", "reset"} /\ lenOk \in {0, 1}
          OBVIOUS
        <5> HIDE DEF pcOk, lenOk
        <5> QED BY <4>1, <5>1
      <4>2. CASE \E len \in {0, 1} : net' = [net EXCEPT !.pc = "reset", !.len = len]
        BY <4>2
      <4> QED BY <1>11, <3>1, <4>1, <4>2, Zenon DEF PacketHeader
    <3>2. CASE next # "head"
      <4>1. PICK step \in {<<"rd1", 1>>, <<"free", 0>>, <<"reset", 0>>, <<"reset", 1>>} :
               net' = [net EXCEPT !.pc = step[1], !.len = step[2]]
        BY <1>11, <3>2 DEF PacketHeader
      <4>2. step[1] \in {"rd1", "free", "reset"} /\ step[2] \in {0, 1}
        OBVIOUS
      <4> QED BY <4>1, <4>2
    <3> QED BY <3>1, <3>2
  <2>2. net' \in NetType
    <3> DEFINE n == [net EXCEPT !.pc = pc]
    <3>1. n \in NetType
      BY <1>3, NetUpdate DEF NetPcs, Locked
    <3>2. net' = [n EXCEPT !.len = len]
      BY <1>3, <2>1 DEF NetType
    <3> HIDE DEF n
    <3> QED BY <3>1, <3>2, NetUpdate
  <2>3. net'.pc = pc
    BY <1>3, <2>1 DEF NetType
  <2>4. count' \in CountType
    BY <1>1, <1>11, CountUpdate DEF PacketHeader, Misread, TypeOK
  <2>5. next' \in {"head", "astray"}
    BY <1>1, <1>11 DEF PacketHeader, Misread, TypeOK
  <2>6. TypeOK'
    BY <1>1, <1>11, <2>2, <2>4, <2>5 DEF PacketHeader, NetUnchanged, TypeOK
  <2>7. Interlock' /\ PacketThere'
    BY <1>1, <1>11, <2>3 DEF PacketHeader, At, NetUnchanged, Interlock, PacketThere, Locked
  <2> QED BY <2>6, <2>7 DEF IInv
<1>12. \A half \in {1, 2} :
          ReadBytes(half) /\ net.pc \in {"rd1", "rd2"} => sbuf' \in Bytes
  <2>1. net.pc \in {"rd1", "rd2"} => Head(chip.fifo).frame \in Frames
    BY <1>1, <1>4 DEF PacketThere, PacketType, Frames
  <2>2. \A half \in {1, 2}, v \in Frames \cup {NoFrame} : [sbuf EXCEPT ![half] = v] \in Bytes
    BY <1>1 DEF TypeOK, Bytes
  <2>3. \A half \in {1, 2} : ReadBytes(half) /\ net.pc \in {"rd1", "rd2"} =>
           \E v \in Frames \cup {NoFrame} : sbuf' = [sbuf EXCEPT ![half] = v]
    BY <2>1 DEF ReadBytes
  <2> QED BY <2>2, <2>3
<1>13. CASE ReadFirstHalf
  <2>1. net' \in NetType /\ net'.pc = "rd2"
    BY <1>2, <1>13 DEF ReadFirstHalf, Go, NetPcs, Locked
  <2>2. sbuf' \in Bytes
    BY <1>12, <1>13 DEF ReadFirstHalf, At
  <2>3. TypeOK'
    BY <1>1, <1>13, <2>1, <2>2 DEF ReadFirstHalf, NetUnchanged, TypeOK
  <2>4. Interlock' /\ PacketThere'
    BY <1>1, <1>13, <2>1 DEF ReadFirstHalf, At, NetUnchanged, Interlock, PacketThere, Locked
  <2> QED BY <2>3, <2>4 DEF IInv
<1>14. CASE ReadSecondHalf
  <2>1. net' \in NetType /\ net'.pc = "free"
    BY <1>2, <1>14 DEF ReadSecondHalf, Go, NetPcs, Locked
  <2>2. sbuf' \in Bytes
    BY <1>12, <1>14 DEF ReadSecondHalf, At
  <2>3. TypeOK'
    BY <1>1, <1>14, <2>1, <2>2 DEF ReadSecondHalf, NetUnchanged, TypeOK
  <2>4. Interlock' /\ PacketThere'
    BY <1>1, <1>14, <2>1 DEF ReadSecondHalf, At, NetUnchanged, Interlock, PacketThere, Locked
  <2> QED BY <2>3, <2>4 DEF IInv
<1>15. CASE FreePacket
  <2>1. net' \in NetType /\ net'.pc = "unlock"
    BY <1>2, <1>15 DEF FreePacket, Go, NetPcs, Locked
  <2>2. chip.fifo # <<>>
    BY <1>1, <1>15 DEF FreePacket, At, PacketThere
  <2>3. chip' \in ChipType
    <3>1. chip' = [chip EXCEPT !.fifo = Tail(chip.fifo)]
      BY <1>15 DEF FreePacket
    <3>2. Tail(chip.fifo) \in Seq(PacketType)
      BY <1>4, <2>2
    <3> QED BY <1>3, <3>1, <3>2, ChipUpdate
  <2>4. taken' \in RxFrames \cup {NoFrame}
    <3>1. Head(chip.fifo).frame \in RxFrames
      BY <1>4, <2>2 DEF PacketType
    <3> QED BY <1>15, <3>1 DEF FreePacket
  <2>5. TypeOK'
    BY <1>1, <1>15, <2>1, <2>3, <2>4 DEF FreePacket, NetUnchanged, TypeOK
  <2>6. Interlock' /\ PacketThere'
    BY <1>1, <1>15, <2>1 DEF FreePacket, At, NetUnchanged, Interlock, PacketThere, Locked
  <2> QED BY <2>5, <2>6 DEF IInv
<1>16. CASE Unlock
  <2>1. net' \in NetType /\ net'.pc \in {"alloc", "poll"}
    BY <1>2, <1>16 DEF Unlock, Go, NetPcs, Locked
  <2>2. CASE tcpip.pc = "wait"
    <3>1. tcpip' = [tcpip EXCEPT !.pc = "send"] /\ lock' = lock
      BY <1>16, <2>2 DEF Unlock
    <3>2. tcpip' \in TcpipType /\ tcpip'.pc = "send"
      BY <1>1, <3>1 DEF TypeOK, TcpipType
    <3>3. TypeOK'
      BY <1>1, <1>16, <2>1, <3>1, <3>2 DEF Unlock, TypeOK
    <3>4. Interlock' /\ PacketThere'
      BY <1>1, <1>16, <2>1, <3>1, <3>2 DEF Unlock, At, Interlock, PacketThere, Locked
    <3> QED BY <3>3, <3>4 DEF IInv
  <2>3. CASE tcpip.pc # "wait"
    <3>1. lock' = 1 /\ tcpip' = tcpip
      BY <1>16, <2>3 DEF Unlock
    <3>2. TypeOK'
      BY <1>1, <1>16, <2>1, <3>1 DEF Unlock, TypeOK
    <3>3. Interlock' /\ PacketThere'
      BY <1>1, <1>16, <2>1, <2>3, <3>1 DEF Unlock, At, Interlock, PacketThere, Locked
    <3> QED BY <3>2, <3>3 DEF IInv
  <2> QED BY <2>2, <2>3
<1>17. CASE AllocPbuf
  <2>1. net' \in NetType /\ net'.pc \in {"cp1", "poll"} /\ taken' \in {taken, NoFrame}
    <3>1. CASE Go("cp1") /\ UNCHANGED taken
      BY <1>2, <3>1 DEF NetPcs
    <3>2. CASE net' = [net EXCEPT !.pc = "poll", !.len = 0] /\ taken' = NoFrame
      <4> DEFINE n == [net EXCEPT !.pc = "poll"]
      <4>1. n \in NetType
        BY <1>3, NetUpdate DEF NetPcs
      <4>2. net' = [n EXCEPT !.len = 0]
        BY <1>3, <3>2 DEF NetType
      <4>3. net'.pc = "poll"
        BY <1>3, <3>2 DEF NetType
      <4> HIDE DEF n
      <4> QED BY <3>2, <4>1, <4>2, <4>3, NetUpdate
    <3> QED BY <1>17, <3>1, <3>2 DEF AllocPbuf
  <2>2. TypeOK'
    BY <1>1, <1>17, <2>1 DEF AllocPbuf, NetUnchanged, TypeOK
  <2>3. Interlock' /\ PacketThere'
    BY <1>1, <1>17, <2>1 DEF AllocPbuf, At, NetUnchanged, Interlock, PacketThere, Locked
  <2> QED BY <2>2, <2>3 DEF IInv
<1>18. CASE CopyFirstHalf
  <2>1. sbuf[1] \in Frames \cup {NoFrame}
    BY <1>1 DEF TypeOK, Bytes
  <2>2. net' \in NetType
    <3> DEFINE n == [net EXCEPT !.pc = "cp2"]
    <3>1. n \in NetType
      BY <1>3, NetUpdate DEF NetPcs
    <3>2. net' = [n EXCEPT !.pbuf[1] = sbuf[1]]
      BY <1>3, <1>18 DEF CopyFirstHalf, NetType
    <3> HIDE DEF n
    <3> QED BY <2>1, <3>1, <3>2, NetUpdate
  <2>3. net'.pc = "cp2"
    BY <1>3, <1>18 DEF CopyFirstHalf, NetType
  <2>4. TypeOK'
    BY <1>1, <1>18, <2>2 DEF CopyFirstHalf, NetUnchanged, TypeOK
  <2>5. Interlock' /\ PacketThere'
    BY <1>1, <1>18, <2>3 DEF CopyFirstHalf, At, NetUnchanged, Interlock, PacketThere, Locked
  <2> QED BY <2>4, <2>5 DEF IInv
<1>19. CASE CopySecondHalf
  <2>1. sbuf[2] \in Frames \cup {NoFrame}
    BY <1>1 DEF TypeOK, Bytes
  <2>2. net' \in NetType
    <3> DEFINE n == [net EXCEPT !.pc = "input"]
    <3>1. n \in NetType
      BY <1>3, NetUpdate DEF NetPcs
    <3>2. net' = [n EXCEPT !.pbuf[2] = sbuf[2]]
      BY <1>3, <1>19 DEF CopySecondHalf, NetType
    <3> HIDE DEF n
    <3> QED BY <2>1, <3>1, <3>2, NetUpdate
  <2>3. net'.pc = "input"
    BY <1>3, <1>19 DEF CopySecondHalf, NetType
  <2>4. TypeOK'
    BY <1>1, <1>19, <2>2 DEF CopySecondHalf, NetUnchanged, TypeOK
  <2>5. Interlock' /\ PacketThere'
    BY <1>1, <1>19, <2>3 DEF CopySecondHalf, At, NetUnchanged, Interlock, PacketThere, Locked
  <2> QED BY <2>4, <2>5 DEF IInv
<1>20. CASE NetifInput
  <2>1. net' \in NetType /\ net'.pc = "lock"
    BY <1>20 DEF NetifInput, NetType, NetPcs, Bytes, NoFrame
  <2>2. delivered' \in Bytes
    BY <1>1, <1>3, <1>20 DEF NetifInput, TypeOK, NetType
  <2>3. TypeOK'
    BY <1>1, <1>20, <2>1, <2>2 DEF NetifInput, NetUnchanged, TypeOK
  <2>4. Interlock' /\ PacketThere'
    BY <1>1, <1>20, <2>1 DEF NetifInput, At, NetUnchanged, Interlock, PacketThere, Locked
  <2> QED BY <2>3, <2>4 DEF IInv
<1> QED BY <1>5, <1>6, <1>7, <1>8, <1>9, <1>10, <1>11, <1>13, <1>14, <1>15,
           <1>16, <1>17, <1>18, <1>19, <1>20 DEF Netcard

-----------------------------------------------------------------------------
(* Stuttering keeps IInv.                                                  *)
LEMMA StutterKeepsIInv == IInv /\ UNCHANGED vars => IInv'
  BY DEF vars, IInv, TypeOK, Interlock, PacketThere

(* IInv holds in every reachable state.                                    *)
THEOREM Invariance == Spec => []IInv
<1>1. IInv /\ [Next]_vars => IInv'
  BY HwKeepsIInv, OutputKeepsIInv, NetcardKeepsIInv, StutterKeepsIInv DEF Next
<1> QED BY InitIInv, <1>1, PTL DEF Spec

(* The types of the chip, the buffers and the two tasks, for every bound   *)
(* on the traffic and whatever the chip does.                              *)
THEOREM TypeCorrect == Spec => []TypeOK
<1>1. IInv => TypeOK
  BY DEF IInv
<1> QED BY <1>1, Invariance, PTL

(* sem_enc28j60lock keeps the two tasks apart in the driver, with a timer  *)
(* of the stack sending at any moment and with faults of the chip.         *)
THEOREM LockInterlocks == Spec => []Interlock
<1>1. IInv => Interlock
  BY DEF IInv
<1> QED BY <1>1, Invariance, PTL
-----------------------------------------------------------------------------
(* What tcpip_thread holds while no timer sends: it asks for the lock only *)
(* while the netcard task is outside Packet_Receive or asleep in           *)
(* ENC28J60_Init, from where that task reaches its post without touching   *)
(* s_lwip_buf.                                                             *)
Holding ==
    /\ tcpip.pc # "idle" => sbuf = <<tcpip.given, tcpip.given>>
    /\ tcpip.pc = "wait" => net.pc \in {"delay", "config", "unlock"}

(* Without a timer that sends, every step keeps Holding.                   *)
LEMMA HoldingKept ==
    ASSUME ~TimerOutput, IInv, Holding, [Next]_vars
    PROVE  Holding'
<1>1. TypeOK /\ Interlock
  BY DEF IInv
<1>2. CASE Hw
  BY <1>2 DEF Hw, HwReceive, HwTransmitted, HwFault, HwClockReady, Holding
<1>3. CASE LowLevelOutput
  <2> DEFINE f == MaxRx + count.tx + 1
  <2>1. sbuf' = <<f, f>> /\ tcpip' = [pc |-> IF lock > 0 THEN "send" ELSE "wait", given |-> f]
        /\ net' = net /\ tcpip.pc = "idle" /\ net.pc \in {"poll", "lock", "delay"}
    BY <1>3 DEF LowLevelOutput, MayOutput
  <2> HIDE DEF f
  <2>2. tcpip'.given = f /\ (tcpip'.pc = "wait" => ~(lock > 0))
    BY <2>1
  <2>3. lock = 0 => net.pc = "delay"
    BY <1>1, <2>1 DEF Interlock, Locked
  <2>4. lock = 0 \/ lock > 0
    BY <1>1 DEF TypeOK
  <2> QED BY <2>1, <2>2, <2>3, <2>4 DEF Holding
<1>4. CASE ClearAbort
  BY <1>4 DEF ClearAbort, Holding
<1>5. CASE SendGivenUp \/ PacketSend
  <2>1. tcpip' = [pc |-> "idle", given |-> NoFrame]
    BY <1>5 DEF SendGivenUp, PacketSend, OutputDone
  <2> QED BY <2>1 DEF Holding
<1>6. CASE Netcard
  <2>1. CASE tcpip.pc = "idle"
    <3>1. tcpip' = tcpip
      BY <1>6, <2>1 DEF Netcard, Poll, TakeLock, Snapshot, ChipReset, DelayOver, Configure,
         PacketHeader, ReadFirstHalf, ReadSecondHalf, FreePacket, Unlock, AllocPbuf,
         CopyFirstHalf, CopySecondHalf, NetifInput, NetUnchanged
    <3> QED BY <2>1, <3>1 DEF Holding
  <2>2. CASE tcpip.pc = "wait"
    <3>1. net.pc \in {"delay", "config", "unlock"} /\ sbuf = <<tcpip.given, tcpip.given>>
      BY <2>2 DEF Holding
    <3>2. DelayOver \/ (\E b \in BOOLEAN : Configure(b)) \/ Unlock
      BY <1>6, <3>1 DEF Netcard, At, Poll, TakeLock, Snapshot, ChipReset,
         PacketHeader, ReadFirstHalf, ReadSecondHalf, FreePacket, AllocPbuf,
         CopyFirstHalf, CopySecondHalf, NetifInput
    <3>3. CASE DelayOver
      <4>1. net' = [net EXCEPT !.pc = "config"] /\ UNCHANGED <<sbuf, tcpip>>
        BY <3>3 DEF DelayOver, Go, NetUnchanged
      <4>2. net'.pc = "config"
        BY <1>1, <4>1 DEF TypeOK, NetType
      <4> QED BY <3>1, <4>1, <4>2 DEF Holding
    <3>4. CASE \E b \in BOOLEAN : Configure(b)
      <4>1. net' = [net EXCEPT !.pc = "unlock"] /\ UNCHANGED <<sbuf, tcpip>>
        BY <3>4 DEF Configure, Go, NetUnchanged
      <4>2. net'.pc = "unlock"
        BY <1>1, <4>1 DEF TypeOK, NetType
      <4> QED BY <3>1, <4>1, <4>2 DEF Holding
    <3>5. CASE Unlock
      <4>1. tcpip' = [tcpip EXCEPT !.pc = "send"] /\ UNCHANGED sbuf
        BY <2>2, <3>5 DEF Unlock
      <4>2. tcpip'.pc = "send" /\ tcpip'.given = tcpip.given
        BY <1>1, <4>1 DEF TypeOK, TcpipType
      <4> QED BY <3>1, <4>1, <4>2 DEF Holding
    <3> QED BY <3>2, <3>3, <3>4, <3>5
  <2>3. tcpip.pc # "send"
    BY <1>6 DEF Netcard, At, Poll, TakeLock, Snapshot, ChipReset, DelayOver, Configure,
       PacketHeader, ReadFirstHalf, ReadSecondHalf, FreePacket, Unlock, AllocPbuf,
       CopyFirstHalf, CopySecondHalf, NetifInput
  <2> QED BY <1>1, <2>1, <2>2, <2>3 DEF TypeOK, TcpipType
<1>7. CASE UNCHANGED vars
  BY <1>7 DEF vars, Holding
<1> QED BY <1>2, <1>3, <1>4, <1>5, <1>6, <1>7 DEF Next, Output

(* If no timer of the stack sends while the netcard task runs, what goes   *)
(* out on the wire is what low_level_output was given, although the lock   *)
(* is taken only after s_lwip_buf has been filled.                         *)
THEOREM WireAsGiven == ASSUME ~TimerOutput PROVE Spec => SentAsGiven
<1>1. Init => Holding
  BY DEF Init, Holding
<1>2. IInv /\ Holding /\ [Next]_vars => Holding'
  BY HoldingKept
<1>3. Holding /\ [Next]_vars => [wire' # wire => wire' = <<tcpip.given, tcpip.given>>]_vars
  <2> SUFFICES ASSUME Holding, Next, wire' # wire
               PROVE  wire' = <<tcpip.given, tcpip.given>>
    BY DEF vars
  <2>1. PacketSend
    BY DEF Next, Hw, HwReceive, HwTransmitted, HwFault, HwClockReady, Output, LowLevelOutput, ClearAbort,
       SendGivenUp, Netcard, Poll, TakeLock, Snapshot, ChipReset, DelayOver, Configure,
       PacketHeader, ReadFirstHalf, ReadSecondHalf, FreePacket, Unlock, AllocPbuf,
       CopyFirstHalf, CopySecondHalf, NetifInput, NetUnchanged
  <2>2. tcpip.pc = "send" /\ wire' = sbuf
    BY <2>1 DEF PacketSend
  <2> QED BY <2>2 DEF Holding
<1> QED BY Invariance, <1>1, <1>2, <1>3, PTL DEF Spec, SentAsGiven

-----------------------------------------------------------------------------
(* The refinement of NetLink.                                              *)

(* tcpip_thread has a frame in hand exactly while it is in                 *)
(* low_level_output.                                                       *)
Given == (tcpip.pc = "idle") = (tcpip.given = NoFrame)

(* The receive path as long as no pointer was misread: which program       *)
(* points have a packet's length, and where the bytes of that packet are.  *)
Oldest == Head(chip.fifo).frame
HasTaken == net.pc \in {"unlock", "alloc", "cp1", "cp2", "input"} /\ net.len = 1
Heard ==
    /\ next = "head"
    /\ net.pc \in {"poll", "lock", "snap", "reset", "delay", "config", "ptr"} => net.len = 0
    /\ net.pc \in {"rd1", "rd2", "alloc", "cp1", "cp2", "input"} => net.len = 1
    /\ net.pc = "rd2" => sbuf[1] = Oldest
    /\ net.pc = "free" /\ net.len = 1 => sbuf = <<Oldest, Oldest>>
    /\ (taken # NoFrame) = HasTaken
    /\ HasTaken /\ net.pc # "input" => sbuf = <<taken, taken>>
    /\ net.pc = "cp2" => net.pbuf[1] = taken
    /\ net.pc = "input" => net.pbuf = <<taken, taken>>
Receiving == count.glitch = 0 => Heard

(* What the chip's own steps may change: a frame joins the fifo.           *)
LEMMA HwChanges ==
    ASSUME IInv, Hw
    PROVE  /\ UNCHANGED <<next, sbuf, lock, net, tcpip, wire, delivered, taken>>
           /\ count'.glitch = count.glitch
           /\ \/ chip'.fifo = chip.fifo
              \/ \E p \in PacketType : chip'.fifo = Append(chip.fifo, p)
<1>1. chip \in ChipType /\ count \in CountType
  BY DEF IInv, TypeOK
<1>2. CASE HwReceive
  <2>1. count' = [count EXCEPT !.rx = @ + 1]
    BY <1>2 DEF HwReceive
  <2>2. count'.glitch = count.glitch
    BY <1>1, <2>1 DEF CountType
  <2>3. count.rx + 1 \in RxFrames
    <3>1. count.rx \in 0..MaxRx /\ count.rx < MaxRx
      BY <1>1, <1>2 DEF HwReceive, CountType
    <3> QED BY <3>1, NetIfAssumption DEF RxFrames
  <2>4. \A ok \in BOOLEAN : Packet(count.rx + 1, ok) \in PacketType
    BY <2>3 DEF Packet, PacketType
  <2>5. CASE \E ok \in BOOLEAN :
                chip' = [chip EXCEPT !.fifo = Append(@, Packet(count.rx + 1, ok))]
    <3>1. PICK ok \in BOOLEAN :
             chip' = [chip EXCEPT !.fifo = Append(chip.fifo, Packet(count.rx + 1, ok))]
      BY <2>5
    <3>2. chip'.fifo = Append(chip.fifo, Packet(count.rx + 1, ok))
      BY <1>1, <3>1 DEF ChipType
    <3> QED BY <1>2, <2>2, <2>4, <3>2 DEF HwReceive
  <2>6. CASE \E b \in BOOLEAN :
                chip' = [chip EXCEPT !.flags = @ \cup {"RXERIF"}, !.buffer = @ \/ b]
    <3>1. chip'.fifo = chip.fifo
      BY <1>1, <2>6 DEF ChipType
    <3> QED BY <1>2, <2>2, <3>1 DEF HwReceive
  <2>7. CASE UNCHANGED chip
    BY <1>2, <2>2, <2>7 DEF HwReceive
  <2> QED BY <1>2, <2>5, <2>6, <2>7 DEF HwReceive
<1>3. CASE HwTransmitted
  <2>1. chip'.fifo = chip.fifo
    BY <1>1, <1>3 DEF HwTransmitted, ChipType
  <2> QED BY <1>3, <2>1 DEF HwTransmitted
<1>4. CASE HwFault
  <2>1. chip'.fifo = chip.fifo /\ count'.glitch = count.glitch
    BY <1>1, <1>4 DEF HwFault, ChipType, CountType
  <2> QED BY <1>4, <2>1 DEF HwFault
<1>5. CASE HwClockReady
  <2>1. chip'.fifo = chip.fifo
    BY <1>1, <1>5 DEF HwClockReady, ChipType
  <2> QED BY <1>5, <2>1 DEF HwClockReady
<1> QED BY <1>2, <1>3, <1>4, <1>5 DEF Hw

(* What tcpip_thread's steps may change: nothing the receive path reads,   *)
(* but for s_lwip_buf, and that only from low_level_output.                *)
LEMMA OutputChanges ==
    ASSUME IInv, Output
    PROVE  /\ UNCHANGED <<next, net, delivered, taken>>
           /\ count'.glitch = count.glitch
           /\ chip'.fifo = chip.fifo
           /\ sbuf' = sbuf \/ MayOutput
<1>1. chip \in ChipType /\ count \in CountType
  BY DEF IInv, TypeOK
<1>2. CASE LowLevelOutput
  <2>1. count' = [count EXCEPT !.tx = @ + 1]
    BY <1>2 DEF LowLevelOutput
  <2>2. count'.glitch = count.glitch
    BY <1>1, <2>1 DEF CountType
  <2> QED BY <1>2, <2>2 DEF LowLevelOutput
<1>3. CASE ClearAbort
  <2>1. chip'.fifo = chip.fifo
    BY <1>1, <1>3 DEF ClearAbort, ChipType
  <2> QED BY <1>3, <2>1 DEF ClearAbort
<1>4. CASE SendGivenUp
  BY <1>4 DEF SendGivenUp, OutputDone
<1>5. CASE PacketSend
  <2>1. chip'.fifo = chip.fifo
    BY <1>1, <1>5 DEF PacketSend, ChipType
  <2> QED BY <1>5, <2>1 DEF PacketSend, OutputDone
<1> QED BY <1>2, <1>3, <1>4, <1>5 DEF Output

-----------------------------------------------------------------------------
(* The driver's handling of one packet keeps Heard; a step that misreads a *)
(* pointer is counted.                                                     *)
LEMMA NetcardKeepsHeard ==
    ASSUME IInv, Heard, Netcard, count.glitch = 0, count'.glitch = 0
    PROVE  Heard'
<1>1. net \in NetType /\ chip \in ChipType /\ chip.fifo \in Seq(PacketType) /\ PacketThere
      /\ sbuf \in Bytes /\ taken \in RxFrames \cup {NoFrame}
  BY DEF IInv, TypeOK, ChipType
<1>2. net.pbuf \in Bytes /\ net.pc \in NetPcs /\ net.len \in {0, 1}
  BY <1>1 DEF NetType
<1>3. \A pc \in NetPcs : Go(pc) => net'.pc = pc /\ net'.len = net.len /\ net'.pbuf = net.pbuf
  BY <1>1 DEF Go, NetType
<1>4. \A f \in RxFrames : f # NoFrame
  BY NetIfAssumption DEF RxFrames, NoFrame
<1>5. CASE Poll
  <2>1. net.pc = "poll" /\ net'.pc = "lock" /\ net'.len = net.len
    BY <1>3, <1>5 DEF Poll, At, NetPcs, Locked
  <2> QED BY <1>5, <2>1 DEF Poll, Heard, HasTaken
<1>6. CASE TakeLock
  <2>1. net.pc = "lock" /\ net'.pc = "snap" /\ net'.len = net.len
    BY <1>3, <1>6 DEF TakeLock, At, NetPcs, Locked
  <2> QED BY <1>6, <2>1 DEF TakeLock, Heard, HasTaken
<1>7. ASSUME NEW b \in BOOLEAN, Snapshot(b)
      PROVE  Heard'
  <2>1. net.pc = "snap" /\ net'.pc \in {"reset", "unlock", "ptr"} /\ net'.len = net.len
    <3>1. PICK pc \in {"reset", "unlock", "ptr"} : Go(pc)
      <4>1. CASE chip.fifo = <<>>
        BY <1>7, <4>1 DEF Snapshot
      <4>2. CASE chip.fifo # <<>>
        BY <1>7, <4>2 DEF Snapshot
      <4> QED BY <4>1, <4>2
    <3> QED BY <1>3, <1>7, <3>1 DEF Snapshot, At, NetPcs, Locked
  <2> QED BY <1>7, <2>1 DEF Snapshot, Heard, HasTaken
<1>8. CASE ChipReset
  <2>1. net.pc = "reset" /\ net'.pc = "delay" /\ net'.len = net.len
    BY <1>3, <1>8 DEF ChipReset, At, NetPcs, Locked
  <2> QED BY <1>8, <2>1 DEF ChipReset, Heard, HasTaken
<1>9. CASE DelayOver
  <2>1. net.pc = "delay" /\ net'.pc = "config" /\ net'.len = net.len
    BY <1>3, <1>9 DEF DelayOver, At, NetPcs, Locked
  <2> QED BY <1>9, <2>1 DEF DelayOver, Heard, HasTaken
<1>10. ASSUME NEW b \in BOOLEAN, Configure(b)
       PROVE  Heard'
  <2>1. net.pc = "config" /\ net'.pc = "unlock" /\ net'.len = net.len
    BY <1>3, <1>10 DEF Configure, At, NetPcs, Locked
  <2> QED BY <1>10, <2>1 DEF Configure, Heard, HasTaken
<1>11. CASE PacketHeader
  <2>1. net.pc = "ptr" /\ next = "head" /\ UNCHANGED <<chip, sbuf, delivered, taken>>
    BY <1>11 DEF PacketHeader, At, Heard
  <2>2. ~ Misread
    <3>1. SUFFICES ASSUME Misread PROVE FALSE
      OBVIOUS
    <3>2. count \in CountType /\ count' = [count EXCEPT !.glitch = @ + 1]
      BY <3>1 DEF IInv, TypeOK, Misread
    <3>3. count'.glitch = 1
      BY <3>2 DEF CountType
    <3> QED BY <3>3
  <2>3. /\ next' = "head"
        /\ net' = [net EXCEPT !.pc = IF Head(chip.fifo).ok THEN "rd1" ELSE "free",
                              !.len = IF Head(chip.fifo).ok THEN 1 ELSE 0]
    BY <1>11, <2>1, <2>2 DEF PacketHeader
  <2>4. \/ net'.pc = "rd1" /\ net'.len = 1
        \/ net'.pc = "free" /\ net'.len = 0
    BY <1>1, <2>3 DEF NetType
  <2> QED BY <2>1, <2>3, <2>4 DEF Heard, HasTaken
<1>12. CASE ReadFirstHalf
  <2>1. net.pc = "rd1" /\ net'.pc = "rd2" /\ net'.len = net.len
    BY <1>3, <1>12 DEF ReadFirstHalf, At, NetPcs, Locked
  <2>2. sbuf' = [sbuf EXCEPT ![1] = Oldest]
    BY <1>12 DEF ReadFirstHalf, ReadBytes, Heard, Oldest
  <2>3. sbuf'[1] = Oldest /\ UNCHANGED <<chip, next, taken>>
    BY <1>1, <1>12, <2>2 DEF ReadFirstHalf, Bytes
  <2> QED BY <2>1, <2>3 DEF Heard, HasTaken, Oldest
<1>13. CASE ReadSecondHalf
  <2>1. net.pc = "rd2" /\ net'.pc = "free" /\ net'.len = net.len
    BY <1>3, <1>13 DEF ReadSecondHalf, At, NetPcs, Locked
  <2>2. sbuf' = [sbuf EXCEPT ![2] = Oldest] /\ sbuf[1] = Oldest
    BY <1>13, <2>1 DEF ReadSecondHalf, ReadBytes, Heard, Oldest
  <2>3. sbuf' = <<Oldest, Oldest>> /\ UNCHANGED <<chip, next, taken>>
    BY <1>1, <1>13, <2>2 DEF ReadSecondHalf, Bytes
  <2> QED BY <2>1, <2>3 DEF Heard, HasTaken, Oldest
<1>14. CASE FreePacket
  <2>1. net.pc = "free" /\ net'.pc = "unlock" /\ net'.len = net.len
    BY <1>3, <1>14 DEF FreePacket, At, NetPcs, Locked
  <2>2. Oldest \in RxFrames
    <3>1. chip.fifo # <<>>
      BY <1>1, <2>1 DEF PacketThere
    <3>2. Head(chip.fifo) \in PacketType
      BY <1>1, <3>1
    <3> QED BY <3>2 DEF Oldest, PacketType
  <2>3. taken' = (IF net.len > 0 THEN Oldest ELSE NoFrame) /\ UNCHANGED <<next, sbuf>>
    BY <1>14 DEF FreePacket, Oldest
  <2> QED BY <1>2, <1>4, <2>1, <2>2, <2>3 DEF Heard, HasTaken
<1>15. CASE Unlock
  <2>1. net.pc = "unlock" /\ net'.len = net.len
        /\ net'.pc = (IF net.len > 0 THEN "alloc" ELSE "poll")
    BY <1>3, <1>15 DEF Unlock, At, NetPcs
  <2>2. UNCHANGED <<chip, next, sbuf, taken>>
    BY <1>15 DEF Unlock
  <2> QED BY <1>2, <2>1, <2>2 DEF Heard, HasTaken
<1>16. CASE AllocPbuf
  <2>1. net.pc = "alloc" /\ UNCHANGED <<chip, next, sbuf>>
    BY <1>16 DEF AllocPbuf, At
  <2>2. \/ net'.pc = "cp1" /\ net'.len = net.len /\ taken' = taken
        \/ net'.pc = "poll" /\ net'.len = 0 /\ taken' = NoFrame
    <3>1. CASE Go("cp1") /\ UNCHANGED taken
      BY <1>3, <3>1 DEF NetPcs
    <3>2. CASE net' = [net EXCEPT !.pc = "poll", !.len = 0] /\ taken' = NoFrame
      BY <1>1, <3>2 DEF NetType
    <3> QED BY <1>16, <3>1, <3>2 DEF AllocPbuf
  <2> QED BY <2>1, <2>2 DEF Heard, HasTaken
<1>17. CASE CopyFirstHalf
  <2>1. net.pc = "cp1" /\ UNCHANGED <<chip, next, sbuf, taken>>
    BY <1>17 DEF CopyFirstHalf, At
  <2>2. net'.pc = "cp2" /\ net'.len = net.len /\ net'.pbuf = [net.pbuf EXCEPT ![1] = sbuf[1]]
    BY <1>1, <1>17 DEF CopyFirstHalf, NetType
  <2>3. net'.pbuf[1] = sbuf[1]
    BY <1>2, <2>2 DEF Bytes
  <2>4. net.len = 1 /\ sbuf = <<taken, taken>>
    BY <2>1 DEF Heard, HasTaken
  <2> QED BY <2>1, <2>2, <2>3, <2>4 DEF Heard, HasTaken
<1>18. CASE CopySecondHalf
  <2>1. net.pc = "cp2" /\ UNCHANGED <<chip, next, sbuf, taken>>
    BY <1>18 DEF CopySecondHalf, At
  <2>2. net'.pc = "input" /\ net'.len = net.len /\ net'.pbuf = [net.pbuf EXCEPT ![2] = sbuf[2]]
    BY <1>1, <1>18 DEF CopySecondHalf, NetType
  <2>3. net.len = 1 /\ sbuf = <<taken, taken>> /\ net.pbuf[1] = taken
    BY <2>1 DEF Heard, HasTaken
  <2>4. net'.pbuf = <<taken, taken>>
    BY <1>2, <2>2, <2>3 DEF Bytes
  <2> QED BY <2>1, <2>2, <2>3, <2>4 DEF Heard, HasTaken
<1>19. CASE NetifInput
  <2>1. net'.pc = "lock" /\ net'.len = 0 /\ taken' = NoFrame /\ UNCHANGED <<next, sbuf>>
    BY <1>19 DEF NetifInput
  <2> QED BY <2>1 DEF Heard, HasTaken
<1> QED BY <1>5, <1>6, <1>7, <1>8, <1>9, <1>10, <1>11, <1>12, <1>13, <1>14, <1>15,
           <1>16, <1>17, <1>18, <1>19 DEF Netcard

(* Misreadings are only ever counted up.                                   *)
LEMMA GlitchesCount ==
    ASSUME IInv, [Next]_vars, count'.glitch = 0
    PROVE  count.glitch = 0
<1>1. count \in CountType
  BY DEF IInv, TypeOK
<1>2. CASE Hw
  BY <1>2, HwChanges
<1>3. CASE Output
  BY <1>3, OutputChanges
<1>4. CASE Netcard
  <2>1. \/ UNCHANGED count
        \/ count' = [count EXCEPT !.glitch = @ + 1]
    BY <1>4 DEF Netcard, Poll, TakeLock, Snapshot, ChipReset, DelayOver, Configure,
       PacketHeader, Misread, ReadFirstHalf, ReadSecondHalf, FreePacket, Unlock,
       AllocPbuf, CopyFirstHalf, CopySecondHalf, NetifInput
  <2>2. CASE count' = [count EXCEPT !.glitch = @ + 1]
    <3>1. count'.glitch = count.glitch + 1 /\ count.glitch \in Nat
      BY <1>1, <2>2, NetIfAssumption DEF CountType
    <3> QED BY <3>1
  <2> QED BY <2>1, <2>2
<1> QED BY <1>2, <1>3, <1>4 DEF Next, vars

(* tcpip_thread fills s_lwip_buf only while no packet is in it.            *)
LEMMA ReceivingKept ==
    ASSUME ~TimerOutput, IInv, Receiving, [Next]_vars
    PROVE  Receiving'
<1> SUFFICES ASSUME count'.glitch = 0 PROVE Heard'
  BY DEF Receiving
<1>1. count.glitch = 0 /\ Heard
  BY GlitchesCount DEF Receiving
<1>2. chip.fifo \in Seq(PacketType) /\ PacketThere
  BY DEF IInv, TypeOK, ChipType
<1>3. CASE Hw
  <2>1. net.pc \in {"rd2", "free"} => Oldest' = Oldest
    <3>1. net.pc \in {"rd2", "free"} => chip.fifo # <<>>
      BY <1>2 DEF PacketThere
    <3>2. \A p \in PacketType : chip.fifo # <<>> => Head(Append(chip.fifo, p)) = Head(chip.fifo)
      BY <1>2
    <3>3. net.pc \in {"rd2", "free"} => Head(chip'.fifo) = Head(chip.fifo)
      BY <1>3, <3>1, <3>2, HwChanges
    <3> QED BY <3>3 DEF Oldest
  <2> QED BY <1>1, <1>3, <2>1, HwChanges DEF Heard, HasTaken
<1>4. CASE Output
  <2>1. UNCHANGED <<next, net, delivered, taken>> /\ chip'.fifo = chip.fifo
        /\ (sbuf' = sbuf \/ MayOutput)
    BY <1>4, OutputChanges
  <2>2. CASE sbuf' = sbuf
    BY <1>1, <2>1, <2>2 DEF Heard, HasTaken, Oldest
  <2>3. CASE MayOutput
    BY <1>1, <2>1, <2>3 DEF MayOutput, Heard, HasTaken
  <2> QED BY <2>1, <2>2, <2>3
<1>5. CASE Netcard
  BY <1>1, <1>5, NetcardKeepsHeard
<1>6. CASE UNCHANGED vars
  BY <1>1, <1>6 DEF vars, Heard, HasTaken, Oldest
<1> QED BY <1>3, <1>4, <1>5, <1>6 DEF Next

(* Every step keeps Given: each return of Packet_Send drops the frame.     *)
LEMMA GivenKept ==
    ASSUME IInv, Given, [Next]_vars
    PROVE  Given'
<1>1. TypeOK /\ tcpip \in TcpipType
  BY DEF IInv, TypeOK
<1>2. CASE Hw
  BY <1>2, HwChanges DEF Given
<1>3. CASE LowLevelOutput
  <2>1. MaxRx + count.tx + 1 # NoFrame
    BY <1>1, NetIfAssumption DEF TypeOK, CountType, NoFrame
  <2>2. tcpip'.given = MaxRx + count.tx + 1 /\ tcpip'.pc \in {"send", "wait"}
    BY <1>3 DEF LowLevelOutput
  <2> QED BY <2>1, <2>2 DEF Given
<1>4. CASE ClearAbort
  BY <1>4 DEF ClearAbort, Given
<1>5. CASE SendGivenUp \/ PacketSend
  <2>1. tcpip' = [pc |-> "idle", given |-> NoFrame]
    BY <1>5 DEF SendGivenUp, PacketSend, OutputDone
  <2> QED BY <2>1 DEF Given
<1>6. CASE Netcard
  <2>1. \/ tcpip' = tcpip
        \/ tcpip.pc = "wait" /\ tcpip' = [tcpip EXCEPT !.pc = "send"]
    BY <1>6 DEF Netcard, Poll, TakeLock, Snapshot, ChipReset, DelayOver, Configure,
       PacketHeader, ReadFirstHalf, ReadSecondHalf, FreePacket, Unlock, AllocPbuf,
       CopyFirstHalf, CopySecondHalf, NetifInput, NetUnchanged
  <2> QED BY <1>1, <2>1 DEF TcpipType, Given
<1>7. CASE UNCHANGED vars
  BY <1>7 DEF vars, Given
<1> QED BY <1>2, <1>3, <1>4, <1>5, <1>6, <1>7 DEF Next, Output

-----------------------------------------------------------------------------
(* The frames that arrived and are neither delivered nor lost.             *)
FramesOf(fifo) == [i \in DOMAIN fifo |-> fifo[i].frame]
OnTheWay(f, fifo) == (IF f # NoFrame THEN <<f>> ELSE <<>>) \o FramesOf(fifo)

(* The frames of a queue of packets, as packets join and leave it.         *)
LEMMA FramesOfQueue ==
    ASSUME NEW s \in Seq(PacketType)
    PROVE  /\ FramesOf(s) \in Seq(Frames)
           /\ Len(FramesOf(s)) = Len(s)
           /\ \A p \in PacketType : FramesOf(Append(s, p)) = Append(FramesOf(s), p.frame)
           /\ s # <<>> => /\ FramesOf(s) # <<>>
                          /\ Head(FramesOf(s)) = Head(s).frame
                          /\ Tail(FramesOf(s)) = FramesOf(Tail(s))
<1>1. Len(s) \in Nat /\ DOMAIN s = 1..Len(s) /\ \A i \in 1..Len(s) : s[i] \in PacketType
  BY LenProperties
<1>2. \A p \in PacketType : p.frame \in Frames
  BY DEF PacketType, Frames
<1>3. ASSUME NEW t \in Seq(PacketType)
      PROVE  /\ FramesOf(t) \in Seq(Frames) /\ Len(FramesOf(t)) = Len(t)
             /\ \A i \in 1..Len(t) : FramesOf(t)[i] = t[i].frame
  <2>1. Len(t) \in Nat /\ DOMAIN t = 1..Len(t) /\ \A i \in 1..Len(t) : t[i] \in PacketType
    BY LenProperties
  <2>2. FramesOf(t) = [i \in 1..Len(t) |-> t[i].frame]
    BY <2>1 DEF FramesOf
  <2>3. \A i \in 1..Len(t) : t[i].frame \in Frames
    BY <1>2, <2>1
  <2> QED BY <2>1, <2>2, <2>3
<1>4. ASSUME NEW p \in PacketType
      PROVE  FramesOf(Append(s, p)) = Append(FramesOf(s), p.frame)
  <2> DEFINE a == FramesOf(Append(s, p))
             b == Append(FramesOf(s), p.frame)
  <2>1. /\ Append(s, p) \in Seq(PacketType) /\ Len(Append(s, p)) = Len(s) + 1
        /\ \A i \in 1..Len(s) : Append(s, p)[i] = s[i]
        /\ Append(s, p)[Len(s) + 1] = p
    BY AppendProperties
  <2>2. /\ a \in Seq(Frames) /\ Len(a) = Len(s) + 1
        /\ \A i \in 1..(Len(s) + 1) : a[i] = Append(s, p)[i].frame
    BY <1>3, <2>1
  <2>3. FramesOf(s) \in Seq(Frames) /\ p.frame \in Frames
    BY <1>2, <1>3
  <2>4. /\ b \in Seq(Frames) /\ Len(b) = Len(FramesOf(s)) + 1
        /\ \A i \in 1..Len(FramesOf(s)) : b[i] = FramesOf(s)[i]
        /\ b[Len(FramesOf(s)) + 1] = p.frame
    BY <2>3, AppendProperties
  <2> HIDE DEF a, b
  <2>5. Len(FramesOf(s)) = Len(s) /\ \A i \in 1..Len(s) : FramesOf(s)[i] = s[i].frame
    BY <1>3
  <2>6. \A i \in 1..Len(a) : a[i] = b[i]
    <3> TAKE i \in 1..Len(a)
    <3>1. CASE i \in 1..Len(s)
      BY <1>1, <2>1, <2>2, <2>4, <2>5, <3>1
    <3>2. CASE i = Len(s) + 1
      BY <1>1, <2>1, <2>2, <2>4, <2>5, <3>2
    <3> QED BY <1>1, <2>2, <3>1, <3>2
  <2>7. a = b
    BY <2>2, <2>4, <2>5, <2>6, SeqEqual
  <2> QED BY <2>7 DEF a, b
<1>5. ASSUME s # <<>>
      PROVE  /\ FramesOf(s) # <<>>
             /\ Head(FramesOf(s)) = Head(s).frame
             /\ Tail(FramesOf(s)) = FramesOf(Tail(s))
  <2>1. Len(s) >= 1 /\ Head(s) = s[1]
    BY <1>1, <1>5
  <2>2. /\ FramesOf(s) \in Seq(Frames) /\ Len(FramesOf(s)) = Len(s)
        /\ \A i \in 1..Len(s) : FramesOf(s)[i] = s[i].frame
    BY <1>3
  <2>3. FramesOf(s) # <<>> /\ Head(FramesOf(s)) = Head(s).frame
    BY <1>1, <2>1, <2>2
  <2> DEFINE a == Tail(FramesOf(s))
             b == FramesOf(Tail(s))
  <2>4. /\ a \in Seq(Frames) /\ Len(a) = Len(s) - 1
        /\ \A i \in 1..(Len(s) - 1) : a[i] = FramesOf(s)[i + 1]
    BY <2>2, <2>3, HeadTailProperties
  <2>5. /\ Tail(s) \in Seq(PacketType) /\ Len(Tail(s)) = Len(s) - 1
        /\ \A i \in 1..(Len(s) - 1) : Tail(s)[i] = s[i + 1]
    BY <1>5, HeadTailProperties
  <2>6. /\ b \in Seq(Frames) /\ Len(b) = Len(s) - 1
        /\ \A i \in 1..(Len(s) - 1) : b[i] = Tail(s)[i].frame
    BY <1>3, <2>5
  <2> HIDE DEF a, b
  <2>7. \A i \in 1..Len(a) : a[i] = b[i]
    BY <1>1, <2>2, <2>4, <2>5, <2>6
  <2>8. a = b
    BY <2>4, <2>6, <2>7, SeqEqual
  <2> QED BY <2>3, <2>8 DEF a, b
<1> QED BY <1>3, <1>4, <1>5

(* What is on its way, and its oldest frame: the one the netcard task has, *)
(* or the chip's oldest.                                                   *)
LEMMA OnTheWayProperties ==
    ASSUME NEW f \in RxFrames \cup {NoFrame}, NEW s \in Seq(PacketType)
    PROVE  /\ OnTheWay(f, s) \in Seq(Frames)
           /\ f = NoFrame => OnTheWay(f, s) = FramesOf(s)
           /\ f # NoFrame => /\ OnTheWay(f, s) # <<>>
                             /\ Head(OnTheWay(f, s)) = f
                             /\ Tail(OnTheWay(f, s)) = FramesOf(s)
           /\ \A p \in PacketType : OnTheWay(f, Append(s, p)) = Append(OnTheWay(f, s), p.frame)
           /\ f = NoFrame /\ s # <<>> =>
                 OnTheWay(f, Tail(s)) = Tail(OnTheWay(f, s)) /\ OnTheWay(f, s) # <<>>
           /\ f = NoFrame /\ s # <<>> => OnTheWay(Head(s).frame, Tail(s)) = OnTheWay(f, s)
<1> DEFINE q == FramesOf(s)
<1>1. q \in Seq(Frames)
  BY FramesOfQueue
<1>2. \A p \in PacketType : p.frame \in Frames /\ p.frame # NoFrame
  BY NetIfAssumption DEF PacketType, Frames, RxFrames, NoFrame
<1>3. f = NoFrame => OnTheWay(f, s) = q
  BY <1>1, ConcatEmptySeq DEF OnTheWay
<1>4. ASSUME NEW g \in Frames, NEW t \in Seq(Frames)
      PROVE  /\ <<g>> \o t \in Seq(Frames) /\ <<g>> \o t # <<>>
             /\ Head(<<g>> \o t) = g /\ Tail(<<g>> \o t) = t
             /\ \A e \in Frames : <<g>> \o Append(t, e) = Append(<<g>> \o t, e)
  OBVIOUS
<1>5. f # NoFrame => f \in Frames /\ OnTheWay(f, s) = <<f>> \o q
  BY DEF Frames, OnTheWay
<1>6. \A p \in PacketType : OnTheWay(f, Append(s, p)) = Append(OnTheWay(f, s), p.frame)
  <2> TAKE p \in PacketType
  <2>1. FramesOf(Append(s, p)) = Append(q, p.frame)
    BY FramesOfQueue
  <2>2. CASE f = NoFrame
    <3>1. Append(s, p) \in Seq(PacketType)
      BY AppendProperties
    <3>2. Append(q, p.frame) \in Seq(Frames)
      BY <1>1, <1>2, AppendProperties
    <3>3. OnTheWay(f, Append(s, p)) = Append(q, p.frame)
      BY <2>1, <2>2, <3>2, ConcatEmptySeq DEF OnTheWay
    <3> QED BY <1>3, <2>2, <3>3
  <2>3. CASE f # NoFrame
    <3>1. OnTheWay(f, Append(s, p)) = <<f>> \o Append(q, p.frame)
      BY <2>1, <2>3 DEF OnTheWay
    <3> HIDE DEF q
    <3> QED BY <1>1, <1>2, <1>4, <1>5, <2>3, <3>1
  <2> QED BY <2>2, <2>3
<1>7. ASSUME f = NoFrame, s # <<>>
      PROVE  /\ OnTheWay(f, Tail(s)) = Tail(OnTheWay(f, s)) /\ OnTheWay(f, s) # <<>>
             /\ OnTheWay(Head(s).frame, Tail(s)) = OnTheWay(f, s)
  <2>1. FramesOf(Tail(s)) = Tail(q) /\ q # <<>> /\ Head(q) = Head(s).frame
    BY <1>7, FramesOfQueue
  <2>2. Head(s) \in PacketType /\ Tail(s) \in Seq(PacketType)
    BY <1>7
  <2>3. FramesOf(Tail(s)) \in Seq(Frames)
    BY <2>2, FramesOfQueue
  <2>4. OnTheWay(f, Tail(s)) = Tail(q)
    BY <1>7, <2>1, <2>3, ConcatEmptySeq DEF OnTheWay
  <2>5. OnTheWay(Head(s).frame, Tail(s)) = <<Head(q)>> \o Tail(q)
    BY <1>2, <2>1, <2>2 DEF OnTheWay
  <2>6. \A t \in Seq(Frames) : t # <<>> => <<Head(t)>> \o Tail(t) = t
    OBVIOUS
  <2> HIDE DEF q
  <2> QED BY <1>1, <1>3, <1>7, <2>1, <2>4, <2>5, <2>6
<1> HIDE DEF q
<1>8. OnTheWay(f, s) \in Seq(Frames)
  BY <1>1, <1>3, <1>4, <1>5
<1>9. f # NoFrame => /\ OnTheWay(f, s) # <<>>
                     /\ Head(OnTheWay(f, s)) = f
                     /\ Tail(OnTheWay(f, s)) = q
  BY <1>1, <1>4, <1>5
<1> QED BY <1>3, <1>6, <1>7, <1>8, <1>9 DEF q

-----------------------------------------------------------------------------
(* Losing frames, as NetLink counts positions.                             *)

(* The instance's Cardinality is the library's.                            *)
LEMMA LinkCardinality == \A S : Link!Cardinality(S) = Cardinality(S)
  BY Zenon DEF Link!Cardinality, Cardinality

(* Losing everything that is on its way.                                   *)
LEMMA KeepingNothing ==
    ASSUME NEW S, NEW s \in Seq(S)
    PROVE  Link!Keeping(s, {}) = <<>>
<1> DEFINE position == [i \in 1..Link!Cardinality({}) |->
                          CHOOSE k \in {} : Link!Cardinality({j \in {} : j <= k}) = i]
<1>1. DOMAIN position = {}
  BY FS_EmptySet, LinkCardinality
<1>2. Link!Keeping(s, {}) = [i \in DOMAIN position |-> s[position[i]]]
  BY DEF Link!Keeping
<1> HIDE DEF position
<1> QED BY <1>1, <1>2

(* Losing the oldest frame only.                                           *)
LEMMA KeepingAllButHead ==
    ASSUME NEW S, NEW s \in Seq(S), s # <<>>
    PROVE  Link!Keeping(s, 2..Len(s)) = Tail(s)
<1> DEFINE keep == 2..Len(s)
           position == [i \in 1..Link!Cardinality(keep) |->
                          CHOOSE k \in keep : Link!Cardinality({j \in keep : j <= k}) = i]
<1>1. Len(s) \in Nat /\ Len(s) >= 1
  OBVIOUS
<1>2. Link!Cardinality(keep) = Len(s) - 1
  <2>1. Cardinality(keep) = IF 2 > Len(s) THEN 0 ELSE Len(s) - 2 + 1
    BY <1>1, FS_Interval
  <2> HIDE DEF keep
  <2> QED BY <1>1, <2>1, LinkCardinality
<1>3. \A k \in keep : Link!Cardinality({j \in keep : j <= k}) = k - 1
  <2> TAKE k \in keep
  <2>1. {j \in keep : j <= k} = 2..k
    BY <1>1
  <2>2. Cardinality(2..k) = IF 2 > k THEN 0 ELSE k - 2 + 1
    BY <1>1, FS_Interval
  <2>3. k \in Nat /\ 2 <= k
    BY <1>1
  <2>4. Cardinality(2..k) = k - 1
    BY <2>2, <2>3
  <2> QED BY <2>1, <2>4, LinkCardinality
<1>4. \A i \in 1..(Len(s) - 1) :
         (CHOOSE k \in keep : Link!Cardinality({j \in keep : j <= k}) = i) = i + 1
  <2> TAKE i \in 1..(Len(s) - 1)
  <2>1. i + 1 \in keep /\ \A k \in keep : (k - 1 = i) = (k = i + 1)
    BY <1>1
  <2> HIDE DEF keep
  <2>2. Link!Cardinality({j \in keep : j <= i + 1}) = i
    BY <1>3, <2>1
  <2>3. \A k \in keep : Link!Cardinality({j \in keep : j <= k}) = i => k = i + 1
    BY <1>3, <2>1
  <2> QED BY <2>1, <2>2, <2>3
<1>5. position = [i \in 1..(Len(s) - 1) |-> i + 1]
  <2> HIDE DEF keep
  <2> QED BY <1>2, <1>4
<1>6. Link!Keeping(s, keep) = [i \in DOMAIN position |-> s[position[i]]]
  BY DEF Link!Keeping
<1>7. Link!Keeping(s, keep) = [i \in 1..(Len(s) - 1) |-> s[i + 1]]
  <2> HIDE DEF position
  <2> QED BY <1>5, <1>6
<1>8. Tail(s) = [i \in 1..(Len(s) - 1) |-> s[i + 1]]
  <2> DEFINE t == [i \in 1..(Len(s) - 1) |-> s[i + 1]]
  <2>1. t \in Seq(S) /\ Len(t) = Len(s) - 1
    <3>1. Len(s) - 1 \in Nat /\ \A i \in 1..(Len(s) - 1) : s[i + 1] \in S
      BY <1>1, LenProperties
    <3> QED BY <3>1
  <2>2. Tail(s) \in Seq(S) /\ Len(Tail(s)) = Len(s) - 1
        /\ \A i \in 1..(Len(s) - 1) : Tail(s)[i] = t[i]
    BY HeadTailProperties
  <2> HIDE DEF t
  <2>3. Tail(s) = t
    BY <2>1, <2>2, SeqEqual
  <2> QED BY <2>3 DEF t
<1> QED BY <1>7, <1>8

-----------------------------------------------------------------------------
(* The refinement mapping, and the steps of NetLink under it.              *)
Up == OnTheWay(taken, chip.fifo)

LinkStep == [Link!Next]_(Link!vars)

LEMMA LinkSteps ==
    ASSUME Up \in Seq(Frames)
    PROVE  /\ /\ UNCHANGED <<Up, Whole(delivered), tcpip.given, Whole(wire)>>
              => LinkStep
           /\ /\ \E f \in Frames : Up' = Append(Up, f)
              /\ UNCHANGED <<Whole(delivered), tcpip.given, Whole(wire)>>
              => LinkStep
           /\ /\ Up' = <<>> \/ (Up # <<>> /\ Up' = Tail(Up))
              /\ UNCHANGED <<Whole(delivered), tcpip.given, Whole(wire)>>
              => LinkStep
           /\ /\ Up # <<>> /\ Up' = Tail(Up) /\ Whole(delivered)' = Head(Up)
              /\ UNCHANGED <<tcpip.given, Whole(wire)>>
              => LinkStep
           /\ /\ tcpip.given = NoFrame /\ tcpip'.given \in Frames
              /\ UNCHANGED <<Up, Whole(delivered), Whole(wire)>>
              => LinkStep
           /\ /\ tcpip.given # NoFrame /\ tcpip'.given = NoFrame
              /\ Whole(wire)' \in {tcpip.given, Whole(wire)}
              /\ UNCHANGED <<Up, Whole(delivered)>>
              => LinkStep
<1>1. ASSUME UNCHANGED <<Up, Whole(delivered), tcpip.given, Whole(wire)>>
      PROVE  LinkStep
  BY <1>1 DEF LinkStep, Link!vars, Up, OnTheWay, FramesOf, Fifo
<1>2. ASSUME NEW f \in Frames, Up' = Append(Up, f),
             UNCHANGED <<Whole(delivered), tcpip.given, Whole(wire)>>
      PROVE  LinkStep
  <2>1. Link!Arrive
    BY <1>2 DEF Link!Arrive, Up, OnTheWay, FramesOf, Fifo
  <2> QED BY <2>1 DEF LinkStep, Link!Next
<1>3. ASSUME Up' = <<>> \/ (Up # <<>> /\ Up' = Tail(Up)),
             UNCHANGED <<Whole(delivered), tcpip.given, Whole(wire)>>
      PROVE  LinkStep
  <2>1. \E keep \in SUBSET DOMAIN Up : Up' = Link!Keeping(Up, keep)
    <3>1. CASE Up' = <<>>
      <4>1. Link!Keeping(Up, {}) = <<>>
        BY KeepingNothing
      <4> QED BY <3>1, <4>1
    <3>2. CASE Up # <<>> /\ Up' = Tail(Up)
      <4>1. Link!Keeping(Up, 2..Len(Up)) = Tail(Up)
        BY <3>2, KeepingAllButHead
      <4>2. 2..Len(Up) \subseteq DOMAIN Up
        BY LenProperties
      <4> QED BY <3>2, <4>1, <4>2
    <3> QED BY <1>3, <3>1, <3>2
  <2>2. Link!Lose
    BY <1>3, <2>1 DEF Link!Lose, Up, OnTheWay, FramesOf, Fifo
  <2> QED BY <2>2 DEF LinkStep, Link!Next
<1>4. ASSUME Up # <<>>, Up' = Tail(Up), Whole(delivered)' = Head(Up),
             UNCHANGED <<tcpip.given, Whole(wire)>>
      PROVE  LinkStep
  <2>1. Link!Deliver
    BY <1>4 DEF Link!Deliver, Up, OnTheWay, FramesOf, Fifo
  <2> QED BY <2>1 DEF LinkStep, Link!Next
<1>5. ASSUME tcpip.given = NoFrame, tcpip'.given \in Frames,
             UNCHANGED <<Up, Whole(delivered), Whole(wire)>>
      PROVE  LinkStep
  <2>1. Link!Submit
    BY <1>5 DEF Link!Submit, Up, OnTheWay, FramesOf, Fifo
  <2> QED BY <2>1 DEF LinkStep, Link!Next
<1>6. ASSUME tcpip.given # NoFrame, tcpip'.given = NoFrame,
             Whole(wire)' \in {tcpip.given, Whole(wire)},
             UNCHANGED <<Up, Whole(delivered)>>
      PROVE  LinkStep
  <2>1. Link!Transmit
    BY <1>6 DEF Link!Transmit, Up, OnTheWay, FramesOf, Fifo
  <2> QED BY <2>1 DEF LinkStep, Link!Next
<1> QED BY <1>1, <1>2, <1>3, <1>4, <1>5, <1>6

(* The chip: a frame arrives, or it does not.                              *)
LEMMA HwRefines ==
    ASSUME IInv, Hw
    PROVE  LinkStep
<1>1. taken \in RxFrames \cup {NoFrame} /\ chip.fifo \in Seq(PacketType)
  BY DEF IInv, TypeOK, ChipType
<1>2. Up \in Seq(Frames)
  BY <1>1, OnTheWayProperties DEF Up
<1>3. UNCHANGED <<Whole(delivered), tcpip.given, Whole(wire)>> /\ taken' = taken
  BY HwChanges DEF Whole
<1>4. CASE chip'.fifo = chip.fifo
  <2>1. Up' = Up
    BY <1>3, <1>4 DEF Up
  <2> QED BY <1>2, <1>3, <2>1, LinkSteps
<1>5. CASE \E p \in PacketType : chip'.fifo = Append(chip.fifo, p)
  <2>1. PICK p \in PacketType : chip'.fifo = Append(chip.fifo, p)
    BY <1>5
  <2>2. Up' = Append(Up, p.frame)
    BY <1>1, <1>3, <2>1, OnTheWayProperties DEF Up
  <2>3. p.frame \in Frames
    BY DEF PacketType, Frames
  <2> QED BY <1>2, <1>3, <2>2, <2>3, LinkSteps
<1> QED BY <1>4, <1>5, HwChanges

(* tcpip_thread: a frame is taken in low_level_output, and Packet_Send     *)
(* puts it on the wire or drops it.                                        *)
LEMMA OutputRefines ==
    ASSUME IInv, Holding, Given, Output
    PROVE  LinkStep
<1>1. taken \in RxFrames \cup {NoFrame} /\ chip.fifo \in Seq(PacketType) /\ TypeOK
  BY DEF IInv, TypeOK, ChipType
<1>2. Up \in Seq(Frames)
  BY <1>1, OnTheWayProperties DEF Up
<1>3. UNCHANGED <<Up, Whole(delivered)>>
  BY OutputChanges DEF Whole, Up
<1>4. CASE LowLevelOutput
  <2>1. tcpip'.given = MaxRx + count.tx + 1 /\ tcpip.pc = "idle" /\ count.tx < MaxTx
        /\ wire' = wire
    BY <1>4 DEF LowLevelOutput
  <2>2. tcpip'.given \in Frames
    BY <1>1, <2>1, NetIfAssumption DEF TypeOK, CountType, Frames, TxFrames
  <2>3. tcpip.given = NoFrame
    BY <2>1 DEF Given
  <2>4. Whole(wire)' = Whole(wire)
    BY <2>1 DEF Whole
  <2> QED BY <1>2, <1>3, <2>2, <2>3, <2>4, LinkSteps
<1>5. CASE ClearAbort
  <2>1. UNCHANGED <<tcpip.given, Whole(wire)>>
    BY <1>5 DEF ClearAbort, Whole
  <2> QED BY <1>2, <1>3, <2>1, LinkSteps
<1>6. CASE SendGivenUp \/ PacketSend
  <2>1. tcpip.pc = "send" /\ tcpip'.given = NoFrame /\ wire' \in {sbuf, wire}
    <3>1. CASE SendGivenUp
      BY <3>1 DEF SendGivenUp, OutputDone
    <3>2. CASE PacketSend
      BY <3>2 DEF PacketSend, OutputDone
    <3> QED BY <1>6, <3>1, <3>2
  <2>2. tcpip.given # NoFrame /\ sbuf = <<tcpip.given, tcpip.given>>
    BY <2>1 DEF Given, Holding
  <2>3. Whole(wire)' \in {tcpip.given, Whole(wire)}
    BY <2>1, <2>2 DEF Whole
  <2> QED BY <1>2, <1>3, <2>1, <2>2, <2>3, LinkSteps
<1> QED BY <1>4, <1>5, <1>6 DEF Output

(* The netcard task: it hands a frame over whole, or loses the oldest, or  *)
(* all that the chip held when it was reset.                               *)
LEMMA NetcardRefines ==
    ASSUME IInv, Heard, Netcard
    PROVE  LinkStep
<1>1. /\ taken \in RxFrames \cup {NoFrame} /\ chip \in ChipType
      /\ chip.fifo \in Seq(PacketType) /\ PacketThere
      /\ net.len \in {0, 1} /\ tcpip \in TcpipType
  BY DEF IInv, TypeOK, ChipType, NetType
<1>2. Up \in Seq(Frames)
  BY <1>1, OnTheWayProperties DEF Up
<1>3. ASSUME UNCHANGED <<chip, taken, delivered, tcpip, wire>>
      PROVE  LinkStep
  <2>1. UNCHANGED <<Up, Whole(delivered), tcpip.given, Whole(wire)>>
    BY <1>3 DEF Up, Whole
  <2> QED BY <1>2, <2>1, LinkSteps
<1>4. CASE \/ Poll \/ TakeLock \/ (\E b \in BOOLEAN : Snapshot(b)) \/ DelayOver
           \/ PacketHeader \/ ReadFirstHalf \/ ReadSecondHalf
           \/ CopyFirstHalf \/ CopySecondHalf
  BY <1>3, <1>4 DEF Poll, TakeLock, Snapshot, DelayOver, PacketHeader, ReadFirstHalf,
     ReadSecondHalf, CopyFirstHalf, CopySecondHalf, NetUnchanged
<1>5. ASSUME Up' = <<>> \/ (Up # <<>> /\ Up' = Tail(Up)), UNCHANGED <<delivered, tcpip, wire>>
      PROVE  LinkStep
  <2>1. UNCHANGED <<Whole(delivered), tcpip.given, Whole(wire)>>
    BY <1>5 DEF Whole
  <2> QED BY <1>2, <1>5, <2>1, LinkSteps
<1>6. CASE ChipReset
  <2>1. taken = NoFrame /\ taken' = taken /\ UNCHANGED <<delivered, tcpip, wire>>
    BY <1>6 DEF ChipReset, At, NetUnchanged, Heard, HasTaken
  <2>2. chip'.fifo = <<>>
    BY <1>6 DEF ChipReset, Chip
  <2>3. Up' = <<>>
    <3>1. FramesOf(<<>>) = <<>>
      BY DEF FramesOf
    <3>2. OnTheWay(NoFrame, <<>>) = <<>>
      BY <3>1 DEF OnTheWay
    <3> QED BY <2>1, <2>2, <3>1, <3>2 DEF Up
  <2> QED BY <1>5, <2>1, <2>3
<1>7. ASSUME NEW b \in BOOLEAN, Configure(b)
      PROVE  LinkStep
  <2>1. chip'.fifo = chip.fifo
    BY <1>1, <1>7 DEF Configure, ChipType
  <2>2. UNCHANGED <<Up, Whole(delivered), tcpip.given, Whole(wire)>>
    BY <1>7, <2>1 DEF Configure, NetUnchanged, Up, Whole
  <2> QED BY <1>2, <2>2, LinkSteps
<1>8. CASE FreePacket
  <2>1. net.pc = "free" /\ chip.fifo # <<>>
    BY <1>1, <1>8 DEF FreePacket, At, PacketThere
  <2>2. taken = NoFrame
    BY <2>1 DEF Heard, HasTaken
  <2>3. chip'.fifo = Tail(chip.fifo) /\ UNCHANGED <<delivered, tcpip, wire>>
    BY <1>1, <1>8 DEF FreePacket, NetUnchanged, ChipType
  <2>4. taken' = IF net.len > 0 THEN Head(chip.fifo).frame ELSE NoFrame
    BY <1>8 DEF FreePacket
  <2>5. CASE net.len = 1
    <3>1. Up' = Up
      <4>1. taken' = Head(chip.fifo).frame
        BY <2>4, <2>5
      <4>2. OnTheWay(Head(chip.fifo).frame, Tail(chip.fifo)) = OnTheWay(taken, chip.fifo)
        BY <1>1, <2>1, <2>2, OnTheWayProperties
      <4> QED BY <2>3, <4>1, <4>2 DEF Up
    <3>2. UNCHANGED <<Whole(delivered), tcpip.given, Whole(wire)>>
      BY <2>3 DEF Whole
    <3> QED BY <1>2, <3>1, <3>2, LinkSteps
  <2>6. CASE net.len = 0
    <3>1. Up # <<>> /\ Up' = Tail(Up)
      <4>1. taken' = taken
        BY <2>2, <2>4, <2>6
      <4>2. /\ OnTheWay(taken, Tail(chip.fifo)) = Tail(OnTheWay(taken, chip.fifo))
            /\ OnTheWay(taken, chip.fifo) # <<>>
        BY <1>1, <2>1, <2>2, OnTheWayProperties
      <4> QED BY <2>3, <4>1, <4>2 DEF Up
    <3> QED BY <1>5, <2>3, <3>1
  <2> QED BY <1>1, <2>5, <2>6
<1>9. CASE Unlock
  <2>1. tcpip'.given = tcpip.given
    BY <1>1, <1>9 DEF Unlock, TcpipType
  <2>2. UNCHANGED <<Up, Whole(delivered), tcpip.given, Whole(wire)>>
    BY <1>9, <2>1 DEF Unlock, Up, Whole
  <2> QED BY <1>2, <2>2, LinkSteps
<1>10. ASSUME taken # NoFrame, taken' = NoFrame, chip' = chip
       PROVE  Up # <<>> /\ Up' = Tail(Up) /\ Head(Up) = taken
  <2>1. Up # <<>> /\ Head(Up) = taken /\ Tail(Up) = FramesOf(chip.fifo)
    BY <1>1, <1>10, OnTheWayProperties DEF Up
  <2>2. OnTheWay(NoFrame, chip.fifo) = FramesOf(chip.fifo)
    BY <1>1, OnTheWayProperties
  <2> QED BY <1>10, <2>1, <2>2 DEF Up
<1>11. CASE AllocPbuf
  <2>1. net.pc = "alloc" /\ UNCHANGED <<chip, delivered, tcpip, wire>>
    BY <1>11 DEF AllocPbuf, At, NetUnchanged
  <2>2. taken # NoFrame
    BY <2>1 DEF Heard, HasTaken
  <2>3. taken' = taken \/ taken' = NoFrame
    BY <1>11 DEF AllocPbuf
  <2> QED BY <1>3, <1>5, <1>10, <2>1, <2>2, <2>3
<1>12. CASE NetifInput
  <2>1. net.pc = "input" /\ taken' = NoFrame /\ UNCHANGED <<chip, tcpip, wire>>
        /\ delivered' \in {net.pbuf, delivered}
    BY <1>12 DEF NetifInput, At, NetUnchanged
  <2>2. taken # NoFrame /\ net.pbuf = <<taken, taken>>
    BY <2>1 DEF Heard, HasTaken
  <2>3. Up # <<>> /\ Up' = Tail(Up) /\ Head(Up) = taken
    BY <1>10, <2>1, <2>2
  <2>4. CASE delivered' = net.pbuf
    <3>1. Whole(delivered)' = Head(Up) /\ UNCHANGED <<tcpip.given, Whole(wire)>>
      BY <2>1, <2>2, <2>3, <2>4 DEF Whole
    <3> QED BY <1>2, <2>3, <3>1, LinkSteps
  <2>5. CASE delivered' = delivered
    BY <1>5, <2>1, <2>3, <2>5
  <2> QED BY <2>1, <2>4, <2>5
<1> QED BY <1>4, <1>6, <1>7, <1>8, <1>9, <1>11, <1>12 DEF Netcard

(* If no timer of the stack sends while the netcard task runs, the driver  *)
(* gives the stack two lossy links: until a packet pointer is misread no   *)
(* frame is damaged, invented, doubled or reordered, whatever the chip     *)
(* loses and however often it is reset.                                    *)
THEOREM DriverIsLink == ASSUME ~TimerOutput PROVE Spec => LinkSpec
<1>1. Init => /\ Holding /\ Given /\ Receiving
              /\ Link!Init
  <2> SUFFICES ASSUME Init PROVE Holding /\ Given /\ Receiving /\ Link!Init
    OBVIOUS
  <2>1. Holding /\ Given /\ Receiving
    BY DEF Init, Holding, Given, Receiving, Heard, HasTaken
  <2>2. Fifo = <<>>
    BY DEF Init, Chip, Fifo
  <2>3. Link!Init
    BY <2>2 DEF Init, Link!Init, Whole
  <2> QED BY <2>1, <2>3
<1>2. IInv /\ Holding /\ [Next]_vars => Holding'
  BY HoldingKept
<1>3. IInv /\ Given /\ [Next]_vars => Given'
  BY GivenKept
<1>4. IInv /\ Receiving /\ [Next]_vars => Receiving'
  BY ReceivingKept
<1>5. IInv /\ Holding /\ Given /\ Receiving /\ [Next]_vars =>
         [count'.glitch = 0 => [Link!Next]_(Link!vars)]_vars
  <2> SUFFICES ASSUME IInv, Holding, Given, Receiving, Next, count'.glitch = 0
               PROVE  LinkStep
    BY DEF LinkStep
  <2>1. Heard
    BY GlitchesCount DEF Receiving
  <2> QED BY <2>1, HwRefines, OutputRefines, NetcardRefines DEF Next
<1> QED BY Invariance, <1>1, <1>2, <1>3, <1>4, <1>5, PTL DEF Spec, LinkSpec
=============================================================================
