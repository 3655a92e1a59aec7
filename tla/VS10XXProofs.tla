---------------------------- MODULE VS10XXProofs ----------------------------
(***************************************************************************)
(* For chunks, frames, retries, delays and buffers of any length: the DMA  *)
(* buffer is left alone during a transfer, the decoder has stopped         *)
(* cancelling when it plays, and what the recorder gives is consecutive.   *)
(***************************************************************************)
EXTENDS VS10XX, TLAPS

-----------------------------------------------------------------------------
(* The decoder.                                                            *)

(* A sleeping task that has seen a tick has a transfer that saw it too, so *)
(* that the next tick waits for its end.                                   *)
Asleep ==
    /\ dma.left > 0 /\ pc = "asleep" /\ dly < Delay => dma.aged /\ dly > 0
    /\ dma.left > 0 => pc \in {"delay", "asleep"} /\ xdcs = 0

(* From the copy to the end of the delay there is some of the frame left.  *)
InFrame == pc \in {"copy", "look", "delay", "asleep"} => i < len

(* Where the cancelling loop has ended well, SM_CANCEL is clear.           *)
Cancelling ==
    /\ pc \in {"endfill", "fill"} => mode # "cancel"
    /\ pc \in {"clock", "head", "hard", "set", "header"} \cup Playing
          => mode # "cancel" \/ gaveup

IInv == TypeOK /\ Asleep /\ InFrame /\ Cancelling

LEMMA InitInv == Init => IInv
<1> SUFFICES ASSUME Init PROVE IInv
  OBVIOUS
<1>1. dma \in [left : 0..Frame, aged : BOOLEAN] /\ dma.left = 0
  BY VS10XXAssumption DEF Init
<1>2. /\ i \in Nat /\ len \in 0..MaxLen /\ chunk \in 0..Frame
      /\ retry \in 0..(Retries + 1) /\ dly \in 0..Delay
  BY VS10XXAssumption DEF Init
<1>3. TypeOK
  BY <1>1, <1>2 DEF Init, TypeOK, Restarting
<1>4. Asleep
  BY <1>1 DEF Asleep
<1>5. InFrame /\ Cancelling
  BY DEF Init, InFrame, Cancelling, Playing
<1> QED BY <1>3, <1>4, <1>5 DEF IInv

(* What the step of the restart that begins at p has to do with the rest.  *)
LEMMA RestartFacts ==
    ASSUME IInv, Restart
    PROVE  /\ pc \in Restarting /\ pc' \in Restarting \cup {"pend"}
           /\ dma' = dma /\ dly' = dly /\ len' = len /\ chunk' = chunk
           /\ dma.left = 0 /\ i' \in Nat
           /\ dreq' \in BOOLEAN /\ xdcs' \in {0, 1}
<1> USE DEF Restarting, playVars, restartVars
<1>1. /\ pc \in Restarting => dma.left = 0
      /\ i \in Nat /\ Frame \in Nat /\ dreq \in BOOLEAN
  BY VS10XXAssumption DEF IInv, TypeOK, Asleep
<1>2. CASE SetCancel \/ EndFill
  BY <1>1, <1>2 DEF SetCancel, EndFill, Access
<1>3. CASE Send \/ Fill
  BY <1>1, <1>3 DEF Send, Fill, Access
<1>4. CASE ReadBit \/ Head
  BY <1>1, <1>4 DEF ReadBit, Head, Access
<1>5. CASE SoftMode
  BY <1>1, <1>5 DEF SoftMode, Access
<1>6. CASE SoftClock
  BY <1>1, <1>6 DEF SoftClock, Access
<1>7. CASE HDReset \/ SetAll \/ Header
  BY <1>1, <1>7 DEF HDReset, SetAll, Header, Access
<1> QED BY <1>2, <1>3, <1>4, <1>5, <1>6, <1>7 DEF Restart

(* The retries and the mode.                                               *)
LEMMA RestartModes ==
    ASSUME IInv, Restart
    PROVE  /\ retry' \in 0..(Retries + 1) /\ hard' \in BOOLEAN
           /\ mode' \in {"play", "cancel", "reset"}
           /\ gaveup' \in BOOLEAN /\ Cancelling'
<1> USE DEF restartVars, Playing
<1>1. /\ retry \in 0..(Retries + 1) /\ Retries \in Nat /\ hard \in BOOLEAN
      /\ mode \in {"play", "cancel", "reset"} /\ gaveup \in BOOLEAN
      /\ CancelMax \in Nat
  BY VS10XXAssumption DEF IInv, TypeOK
<1>2. Cancelling
  BY DEF IInv
<1>3. CASE SetCancel \/ EndFill \/ Send \/ Fill
  BY <1>1, <1>2, <1>3 DEF SetCancel, EndFill, Send, Fill, Access, Cancelling
<1>4. CASE ReadBit
  BY <1>1, <1>2, <1>4 DEF ReadBit, Cancelled, Access, Cancelling
<1>5. CASE Head \/ SetAll \/ Header \/ HDReset
  <2>1. CASE Head
    BY <1>1, <1>2, <2>1 DEF Head, Access, Cancelling
  <2>2. CASE SetAll \/ Header
    BY <1>1, <1>2, <2>2 DEF SetAll, Header, Access, Cancelling
  <2>3. CASE HDReset
    BY <1>1, <2>3 DEF HDReset, Cancelling
  <2> QED BY <1>5, <2>1, <2>2, <2>3
<1>6. CASE SoftMode
  <2>1. CASE mode = "reset" /\ pc' = "clock" /\ retry' = 0 /\ UNCHANGED <<mode, gaveup>>
    BY <1>1, <1>6, <2>1 DEF SoftMode, Cancelling
  <2>2. CASE /\ mode # "reset" /\ mode' \in {mode, "reset"} /\ retry > Retries
             /\ pc' = "clock" /\ retry' = 0 /\ gaveup' = (mode' # "reset")
    <3>1. /\ retry' \in 0..(Retries + 1) /\ hard' \in BOOLEAN
          /\ mode' \in {"play", "cancel", "reset"}
      BY <1>1, <1>6, <2>2 DEF SoftMode
    <3>2. gaveup' \in BOOLEAN
      BY <2>2
    <3>3. Cancelling'
      BY <2>2, Zenon DEF Cancelling
    <3> QED BY <3>1, <3>2, <3>3
  <2>3. CASE /\ mode # "reset" /\ mode' \in {mode, "reset"} /\ ~(retry > Retries)
             /\ pc' = "soft" /\ retry' = retry + 1 /\ UNCHANGED gaveup
    BY <1>1, <1>6, <2>3 DEF SoftMode, Cancelling
  <2> QED BY <1>6, <2>1, <2>2, <2>3 DEF SoftMode
<1>7. CASE SoftClock
  BY <1>1, <1>2, <1>7 DEF SoftClock, Access, Cancelling
<1> QED BY <1>3, <1>4, <1>5, <1>6, <1>7 DEF Restart

LEMMA RestartInv == IInv /\ Restart => IInv'
<1> SUFFICES ASSUME IInv, Restart PROVE IInv'
  OBVIOUS
<1>1. TypeOK'
  BY RestartFacts, RestartModes DEF IInv, TypeOK, Restarting, Playing
<1>2. Asleep' /\ InFrame'
  BY RestartFacts DEF Asleep, InFrame, Restarting
<1> QED BY <1>1, <1>2, RestartModes DEF IInv

-----------------------------------------------------------------------------
(* The steps of playing.                                                   *)

(* They stay among themselves, and do not touch the mode.                  *)
LEMMA PlayModes ==
    ASSUME IInv, NextFrame \/ PlayChunk
    PROVE  /\ pc \in Playing /\ pc' \in Playing
           /\ retry' = retry /\ hard' = hard /\ mode' = mode
           /\ gaveup' = gaveup /\ dreq' = dreq
           /\ Cancelling'
<1> USE DEF Playing, restartVars
<1>1. /\ pc \in Playing /\ pc' \in Playing
      /\ retry' = retry /\ hard' = hard /\ mode' = mode
      /\ gaveup' = gaveup /\ dreq' = dreq
  BY DEF NextFrame, PlayChunk, Copy, Look, Sleep, Wake
<1> QED BY <1>1 DEF IInv, Cancelling

(* The positions in the frame, and the chunk.                              *)
LEMMA PlayPlaces ==
    ASSUME IInv, NextFrame \/ PlayChunk
    PROVE  /\ i' \in Nat /\ len' \in 0..MaxLen /\ chunk' \in 0..Frame
           /\ pc' = "copy" => i' < len'
           /\ InFrame'
<1>1. /\ i \in Nat /\ len \in 0..MaxLen /\ chunk \in 0..Frame
      /\ MaxLen \in Nat /\ Frame \in Nat
  BY VS10XXAssumption DEF IInv, TypeOK
<1>2. CASE NextFrame
  BY <1>1, <1>2 DEF NextFrame, InFrame
<1>3. CASE Copy
  <2>1. i < len
    BY <1>3 DEF Copy, IInv, InFrame
  <2>2. chunk' \in 0..Frame
    BY <1>1, <1>3, <2>1 DEF Copy, More
  <2> QED BY <1>1, <1>3, <2>1, <2>2 DEF Copy, InFrame
<1>4. CASE Look \/ Sleep
  BY <1>1, <1>4 DEF Look, Sleep, IInv, InFrame
<1>5. CASE Wake
  <2>1. CASE More
    BY <1>1, <1>5, <2>1 DEF Wake, More, InFrame
  <2>2. CASE ~More
    BY <1>1, <1>5, <2>2 DEF Wake, InFrame
  <2> QED BY <2>1, <2>2
<1> QED BY <1>2, <1>3, <1>4, <1>5 DEF PlayChunk

(* The transfer.                                                           *)
LEMMA PlayTransfer ==
    ASSUME IInv, NextFrame \/ PlayChunk
    PROVE  /\ dly' \in 0..Delay /\ xdcs' \in {0, 1}
           /\ dma' \in [left : 0..Frame, aged : BOOLEAN]
           /\ Asleep'
<1>1. /\ dly \in 0..Delay /\ xdcs \in {0, 1} /\ chunk \in 0..Frame
      /\ dma \in [left : 0..Frame, aged : BOOLEAN]
      /\ Delay \in Nat /\ Frame \in Nat
  BY VS10XXAssumption DEF IInv, TypeOK
<1>2. Asleep
  BY DEF IInv
<1>3. CASE NextFrame \/ Copy
  BY <1>1, <1>2, <1>3 DEF NextFrame, Copy, Asleep
<1>4. CASE Look
  <2>1. CASE dreq
    <3>1. /\ dma' = [left |-> chunk, aged |-> FALSE] /\ xdcs' = 0
          /\ pc' = "delay" /\ dly' = dly
      BY <1>4, <2>1 DEF Look
    <3>2. dma' \in [left : 0..Frame, aged : BOOLEAN]
      BY <1>1, <3>1
    <3>3. Asleep'
      BY <3>1 DEF Asleep
    <3> QED BY <1>1, <3>1, <3>2, <3>3
  <2>2. CASE ~dreq
    BY <1>1, <1>2, <1>4, <2>2 DEF Look, Asleep
  <2> QED BY <2>1, <2>2
<1>5. CASE Sleep
  BY <1>1, <1>2, <1>5 DEF Sleep, Asleep
<1>6. CASE Wake
  <2>1. ~(dma.left > 0)
    BY <1>1, <1>2, <1>6, VS10XXAssumption DEF Wake, Asleep
  <2> QED BY <1>1, <1>6, <2>1 DEF Wake, Asleep
<1> QED BY <1>3, <1>4, <1>5, <1>6 DEF PlayChunk

LEMMA PlayInv == IInv /\ (NextFrame \/ PlayChunk) => IInv'
<1> SUFFICES ASSUME IInv, NextFrame \/ PlayChunk PROVE IInv'
  OBVIOUS
<1>1. TypeOK'
  BY PlayModes, PlayPlaces, PlayTransfer DEF IInv, TypeOK
<1> QED BY <1>1, PlayModes, PlayPlaces, PlayTransfer DEF IInv

-----------------------------------------------------------------------------
(* The steps of the hardware.                                              *)

LEMMA TransferInv == IInv /\ Transfer => IInv'
<1> SUFFICES ASSUME IInv, Transfer PROVE IInv'
  OBVIOUS
<1>1. /\ dma \in [left : 0..Frame, aged : BOOLEAN] /\ Frame \in Nat
      /\ dma.left > 0 /\ dma' = [dma EXCEPT !.left = @ - 1] /\ dreq' \in {dreq, FALSE}
  BY VS10XXAssumption DEF IInv, TypeOK, Transfer
<1>2. /\ dma' \in [left : 0..Frame, aged : BOOLEAN]
      /\ dma'.left <= dma.left /\ dma'.aged = dma.aged
  BY <1>1
<1>3. dreq' \in BOOLEAN
  BY <1>1 DEF IInv, TypeOK
<1>4. TypeOK'
  BY <1>2, <1>3 DEF Transfer, restartVars, IInv, TypeOK
<1>5. Asleep'
  BY <1>1, <1>2 DEF Transfer, IInv, Asleep
<1>6. InFrame' /\ Cancelling'
  BY DEF Transfer, restartVars, IInv, InFrame, Cancelling
<1> QED BY <1>4, <1>5, <1>6 DEF IInv

(* A tick marks the transfer; the one after comes when it is over.         *)
LEMMA TickInv == IInv /\ Tick => IInv'
<1> SUFFICES ASSUME IInv, Tick PROVE IInv'
  OBVIOUS
<1>1. /\ dma \in [left : 0..Frame, aged : BOOLEAN] /\ Frame \in Nat
      /\ dly \in 0..Delay /\ Delay \in Nat /\ Delay >= 2
  BY VS10XXAssumption DEF IInv, TypeOK
<1>2. /\ dma' = [dma EXCEPT !.aged = (dma.left > 0)]
      /\ dly' = IF dly > 0 THEN dly - 1 ELSE 0
      /\ dma.left > 0 => ~dma.aged
  BY DEF Tick
<1>3. /\ dma' \in [left : 0..Frame, aged : BOOLEAN] /\ dma'.left = dma.left
      /\ dma'.aged = (dma.left > 0)
  <2>1. (dma.left > 0) \in BOOLEAN
    OBVIOUS
  <2>2. \A b \in BOOLEAN : /\ [dma EXCEPT !.aged = b] \in [left : 0..Frame, aged : BOOLEAN]
                           /\ [dma EXCEPT !.aged = b].left = dma.left
                           /\ [dma EXCEPT !.aged = b].aged = b
    BY <1>1
  <2> QED BY <1>2, <2>1, <2>2, Zenon
<1>4. dly' \in 0..Delay /\ dly - 1 <= dly'
  BY <1>1, <1>2
<1>5. TypeOK'
  BY <1>3, <1>4 DEF Tick, restartVars, IInv, TypeOK
<1>6. Asleep'
  <2>1. dma.left > 0 /\ pc = "asleep" => ~(dly < Delay)
    BY <1>2 DEF IInv, Asleep
  <2>2. dma.left > 0 /\ pc = "asleep" => dly' > 0
    BY <1>1, <1>4, <2>1
  <2> QED BY <1>3, <2>2 DEF Tick, IInv, Asleep
<1>7. InFrame' /\ Cancelling'
  BY DEF Tick, restartVars, IInv, InFrame, Cancelling
<1> QED BY <1>5, <1>6, <1>7 DEF IInv

LEMMA ChipInv == IInv /\ ChipStep => IInv'
<1> SUFFICES ASSUME IInv, ChipStep PROVE IInv'
  OBVIOUS
<1>1. /\ mode' \in {"play", "cancel", "reset"} /\ dreq' \in BOOLEAN
      /\ mode # "cancel" => mode' # "cancel"
  BY DEF ChipStep, Chip, IInv, TypeOK
<1>2. TypeOK'
  BY <1>1 DEF ChipStep, playVars, IInv, TypeOK
<1>3. Asleep' /\ InFrame'
  BY DEF ChipStep, playVars, IInv, Asleep, InFrame
<1>4. Cancelling'
  BY <1>1 DEF ChipStep, IInv, Cancelling
<1> QED BY <1>2, <1>3, <1>4 DEF IInv

LEMMA StepInv == IInv /\ [Next]_vars => IInv'
<1> SUFFICES ASSUME IInv, [Next]_vars PROVE IInv'
  OBVIOUS
<1>1. CASE UNCHANGED vars
  <2>1. TypeOK'
    BY <1>1 DEF vars, restartVars, playVars, IInv, TypeOK
  <2>2. Asleep' /\ InFrame' /\ Cancelling'
    BY <1>1 DEF vars, restartVars, playVars, IInv, Asleep, InFrame, Cancelling
  <2> QED BY <2>1, <2>2 DEF IInv
<1> QED BY <1>1, RestartInv, PlayInv, TransferInv, TickInv, ChipInv DEF Next

-----------------------------------------------------------------------------
(* The recorder.                                                           *)

(* While a block is read, fill + idx is what HDAT1 said at the look and    *)
(* what came since.                                                        *)
Margin ==
    client = "read" => /\ idx < Block
                       /\ Block + late <= fill + idx /\ fill + idx < High + late

RecordInv == RecordTypeOK /\ Margin /\ BlocksWhole

LEMMA RecordInitInv == RecordInit => RecordInv
<1> SUFFICES ASSUME RecordInit PROVE RecordInv
  OBVIOUS
<1>1. /\ client = "start" /\ idx = 0 /\ late = 0 /\ fill \in 0..(Size - 1)
      /\ Block \in Nat /\ MaxLate \in Nat /\ torn = 0
  BY RecordAssumption DEF RecordInit
<1>2. idx \in 0..Block /\ late \in 0..MaxLate
  BY <1>1
<1> QED BY <1>1, <1>2 DEF RecordInv, RecordTypeOK, Margin, BlocksWhole

(* A word that comes while a block is read finds room.                     *)
LEMMA WordInv == RecordInv /\ Word => RecordInv'
<1> SUFFICES ASSUME RecordInv, Word PROVE RecordInv'
  OBVIOUS
<1>1. /\ fill \in 0..(Size - 1) /\ late \in 0..MaxLate /\ idx \in 0..Block
      /\ Size \in Nat /\ Block \in Nat /\ High \in Nat /\ MaxLate \in Nat
      /\ High + MaxLate <= Size /\ fill' \in 0..(Size - 1)
  BY RecordAssumption DEF RecordInv, RecordTypeOK, Word
<1>2. CASE client = "read"
  <2>1. late < MaxLate /\ late' = late + 1
    BY <1>2 DEF Word
  <2>2. fill + 1 < Size
    BY <1>1, <1>2, <2>1 DEF RecordInv, Margin
  <2>3. fill' = fill + 1 /\ torn' = torn
    BY <1>1, <2>2 DEF Word
  <2>4. late' \in 0..MaxLate /\ idx' = idx /\ client' = client
    BY <1>1, <2>1 DEF Word
  <2>5. Margin'
    BY <1>1, <1>2, <2>1, <2>3, <2>4 DEF RecordInv, Margin
  <2> QED BY <1>1, <2>3, <2>4, <2>5 DEF RecordInv, RecordTypeOK, BlocksWhole
<1>3. CASE client # "read"
  <2>1. late' \in 0..MaxLate
    BY <1>1 DEF Word
  <2>2. torn' = torn /\ idx' = idx /\ client' = client
    BY <1>3 DEF Word
  <2> QED BY <1>1, <1>3, <2>1, <2>2 DEF RecordInv, RecordTypeOK, Margin, BlocksWhole
<1> QED BY <1>2, <1>3

(* A read finds a word.                                                    *)
LEMMA ReadWordInv == RecordInv /\ ReadWord => RecordInv'
<1> SUFFICES ASSUME RecordInv, ReadWord PROVE RecordInv'
  OBVIOUS
<1>1. /\ fill \in 0..(Size - 1) /\ late \in 0..MaxLate /\ idx \in 0..Block
      /\ Size \in Nat /\ Block \in Nat /\ High \in Nat /\ MaxLate \in Nat
  BY RecordAssumption DEF RecordInv, RecordTypeOK
<1>2. idx < Block /\ Block + late <= fill + idx /\ fill + idx < High + late
  BY DEF RecordInv, Margin, ReadWord
<1>3. fill > 0
  BY <1>1, <1>2
<1>4. fill' = fill - 1 /\ idx' = idx + 1 /\ torn' = torn /\ late' = late
  BY <1>1, <1>3 DEF ReadWord
<1>5. RecordTypeOK'
  <2>1. fill' \in 0..(Size - 1) /\ late' \in 0..MaxLate /\ idx' \in 0..Block
    BY <1>1, <1>2, <1>3, <1>4
  <2>2. client' \in {"read", "send"}
    BY DEF ReadWord
  <2> QED BY <1>4, <2>1, <2>2 DEF RecordInv, RecordTypeOK
<1>6. Margin'
  <2>1. CASE idx + 1 < Block
    BY <1>1, <1>2, <1>3, <1>4, <2>1 DEF Margin
  <2>2. CASE ~(idx + 1 < Block)
    BY <2>2 DEF ReadWord, Margin
  <2> QED BY <2>1, <2>2
<1> QED BY <1>4, <1>5, <1>6 DEF RecordInv, BlocksWhole

LEMMA RecordStepInv == RecordInv /\ [RecordNext]_recordVars => RecordInv'
<1> SUFFICES ASSUME RecordInv, [RecordNext]_recordVars PROVE RecordInv'
  OBVIOUS
<1> USE RecordAssumption DEF RecordInv, RecordTypeOK, Margin, BlocksWhole
<1>1. CASE Word
  BY <1>1, WordInv
<1>2. CASE StartRecord
  BY <1>2 DEF StartRecord
<1>3. CASE SendHeader
  BY <1>3 DEF SendHeader
<1>4. CASE LookBlock
  <2>1. CASE BlockReady
    BY <1>4, <2>1 DEF LookBlock, BlockReady
  <2>2. CASE ~BlockReady
    BY <1>4, <2>2 DEF LookBlock, AfterTurn
  <2> QED BY <2>1, <2>2
<1>5. CASE ReadWord
  BY <1>5, ReadWordInv
<1>6. CASE SentBlock
  BY <1>6 DEF SentBlock, AfterTurn
<1>7. CASE UNCHANGED recordVars
  BY <1>7 DEF recordVars
<1> QED BY <1>1, <1>2, <1>3, <1>4, <1>5, <1>6, <1>7 DEF RecordNext, Client

-----------------------------------------------------------------------------
(* Both.                                                                   *)

(* Neither codec's step touches the other.                                 *)
LEMMA Steps ==
    [CodecsNext]_<<vars, recordVars>> => [Next]_vars /\ [RecordNext]_recordVars
  BY DEF CodecsNext, RecordNext

LEMMA Invariance == CodecsSpec => [](IInv /\ RecordInv)
<1>1. CodecsInit => IInv /\ RecordInv
  BY InitInv, RecordInitInv DEF CodecsInit
<1>2. IInv /\ RecordInv /\ [CodecsNext]_<<vars, recordVars>> => (IInv /\ RecordInv)'
  BY Steps, StepInv, RecordStepInv
<1> QED BY <1>1, <1>2, PTL DEF CodecsSpec

(* No place of the two tasks is one the code does not have, and no level,  *)
(* counter or index leaves its range (task_play.c:31, task_udpclient.c:78).*)
THEOREM TypesCorrect == CodecsSpec => [](TypeOK /\ RecordTypeOK)
<1>1. IInv /\ RecordInv => TypeOK /\ RecordTypeOK
  BY DEF IInv, RecordInv
<1> QED BY <1>1, Invariance, PTL

(* The DMA buffer is neither overrun nor filled during a transfer, with    *)
(* any delay of two ticks or more (task_play.c:34-58).                     *)
THEOREM TransferUndisturbed == CodecsSpec => []BufferSafe
<1>1. IInv => BufferSafe
  BY VS10XXAssumption DEF IInv, TypeOK, Asleep, BufferSafe
<1> QED BY <1>1, Invariance, PTL

(* Playing starts with a decoder that no longer cancels, or one that       *)
(* VS_Soft_Reset could not reset (vs10xx_core.c:342).                      *)
THEOREM DecoderIsReady == CodecsSpec => []DecoderReady
<1>1. IInv => DecoderReady
  BY DEF IInv, Cancelling, DecoderReady
<1> QED BY <1>1, Invariance, PTL

(* No block that is sent lacks a word or has one that was not recorded,    *)
(* while the words that come during a block fit above the limit of the     *)
(* look (task_udpclient.c:73).                                             *)
THEOREM BlocksAreWhole == CodecsSpec => []BlocksWhole
<1>1. RecordInv => BlocksWhole
  BY DEF RecordInv
<1> QED BY <1>1, Invariance, PTL
=============================================================================
