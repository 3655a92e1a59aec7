----------------------------- MODULE VS10XXPlay -----------------------------
(***************************************************************************)
(* The decoder as task_play uses it: VS_Restart_Play and the resets at the *)
(* start (vs10xx_core.c), then one frame after another, cut into chunks    *)
(* that the DMA channel moves to SPI3 while the task sleeps (task_play.c). *)
(*                                                                         *)
(* Lengths count units of 32 bytes, what the chip takes whenever DREQ is   *)
(* high.  DREQ falls after any access and rises when the chip likes.  What *)
(* waits for DREQ waits without a bound, unless a retry is counted.        *)
(* Where Intercom says which bytes a frame has, this module says how they  *)
(* reach the chip; SPI clock rates and volume are left out.                *)
(***************************************************************************)
EXTENDS Integers

CONSTANTS
    Frame,      \* SEND_NUM_PER_FRAME, 160 bytes
    CancelMax,  \* 2048 bytes: when VS_Restart_Play gives up cancelling
    FillMax,    \* 2052 bytes rounded up: the fill after a cancellation
    Retries,    \* 100, in VS_Soft_Reset
    Delay,      \* OSTimeDly(2)
    MaxLen      \* bound: the longest frame, RCV_BUFFER_SIZE

ASSUME VS10XXAssumption ==
    /\ Frame \in Nat \ {0} /\ MaxLen \in Nat \ {0}
    /\ CancelMax \in Nat \ {0} /\ FillMax \in Nat \ {0} /\ Retries \in Nat
    /\ Delay \in Nat /\ Delay >= 2

VARIABLES
    pc,      \* where task_play is
    i,       \* the counter of the loop it is in
    len,     \* of the frame
    chunk,   \* what vs10xx_play_dma_buff holds of it
    retry,   \* of VS_Soft_Reset
    hard,    \* VS_HD_Reset was called
    dly,     \* ticks left of OSTimeDly
    xdcs,    \* the level of XDCS: 0 selects the data interface
    dma,     \* what is left of the transfer, and whether a tick came since its start
    dreq,    \* the level of DREQ
    mode,    \* SPI_MODE of the chip: "play", "cancel" (SM_CANCEL set) or "reset" (0x0800)
    gaveup   \* ghost: VS_Soft_Reset left its loop although the mode was not reset

restartVars == <<retry, hard, mode, gaveup>>
playVars == <<len, chunk, dly, dma>>
vars == <<pc, i, xdcs, dreq, restartVars, playVars>>

(* play() is entered after VS_Sine_Test, which leaves XDCS high.           *)
Init ==
    /\ pc = "mode" /\ i = 0 /\ len = 0 /\ chunk = 0 /\ retry = 0 /\ hard = FALSE
    /\ dly = 0 /\ xdcs = 1 /\ dma = [left |-> 0, aged |-> FALSE]
    /\ dreq \in BOOLEAN /\ mode = "play"
    /\ gaveup = FALSE

-----------------------------------------------------------------------------
(* VS_Restart_Play.                                                        *)

(* VS_RD_Reg, VS_WR_Cmd and VS_Send_MusicData wait for DREQ first, and     *)
(* leave XDCS high.  Between its wait and its second look at DREQ the last *)
(* sends nothing that could lower it.                                      *)
Access(p) == pc = p /\ dreq /\ dreq' \in BOOLEAN /\ xdcs' = 1

(* SPI_MODE is read and written back with SM_CANCEL.                       *)
SetCancel ==
    /\ Access("mode") /\ mode' = "cancel" /\ pc' = "send" /\ i' = 0
    /\ UNCHANGED <<retry, hard, gaveup, playVars>>

(* i counts 32 bytes for what is a frame of SEND_NUM_PER_FRAME.            *)
Send ==
    /\ Access("send") /\ i' = i + 1 /\ pc' = "bit"
    /\ UNCHANGED <<retry, hard, mode, gaveup, playVars>>

\* Seeded fault: the last turn of the loop counts as a success.
CancelledLate == i <= CancelMax
(* Line 368 takes this for "left by the break", and a break in the last    *)
(* turn for a failure.                                                     *)
Cancelled == i < CancelMax

ReadBit ==
    /\ Access("bit")
    /\ pc' = IF mode = "cancel" /\ i < CancelMax THEN "send"
             ELSE IF Cancelled THEN "endfill" ELSE "soft"
    /\ UNCHANGED <<i, retry, hard, mode, gaveup, playVars>>

EndFill ==
    /\ Access("endfill") /\ pc' = "fill" /\ i' = 0
    /\ UNCHANGED <<retry, hard, mode, gaveup, playVars>>

Fill ==
    /\ Access("fill") /\ i' = i + 1
    /\ pc' = IF i + 1 < FillMax THEN "fill" ELSE "head"
    /\ UNCHANGED <<retry, hard, mode, gaveup, playVars>>

(* HDAT0 + HDAT1: zero when the decoder is idle.                           *)
Head ==
    /\ Access("head") /\ hard' \in BOOLEAN
    /\ pc' = IF hard' THEN "hard" ELSE "set"
    /\ UNCHANGED <<i, retry, mode, gaveup, playVars>>

(* VS_Soft_Reset.  `break` comes with the write after the retries.         *)
SoftMode ==
    /\ Access("soft")
    /\ \/ /\ mode = "reset" /\ pc' = "clock" /\ retry' = 0
          /\ UNCHANGED <<mode, gaveup>>
       \/ /\ mode # "reset" /\ mode' \in {mode, "reset"}
          /\ IF retry > Retries
             THEN pc' = "clock" /\ retry' = 0 /\ gaveup' = (mode' # "reset")
             ELSE pc' = "soft" /\ retry' = retry + 1 /\ UNCHANGED gaveup
    /\ UNCHANGED <<i, hard, playVars>>

(* SPI_CLOCKF, until it reads what was written or the retries are over.    *)
SoftClock ==
    /\ Access("clock")
    /\ \/ pc' = (IF hard THEN "set" ELSE "head") /\ retry' = 0
       \/ retry <= Retries /\ pc' = "clock" /\ retry' = retry + 1
    /\ UNCHANGED <<i, hard, mode, gaveup, playVars>>

(* VS_HD_Reset looks at DREQ 200 times and nobody asks what it returned.   *)
HDReset ==
    /\ pc = "hard" /\ dreq' \in BOOLEAN /\ xdcs' = 1
    /\ mode' = "play" /\ pc' = "soft" /\ retry' = 0
    /\ UNCHANGED <<i, hard, gaveup, playVars>>

(* VS_Set_All and VS_Reset_DecodeTime.                                     *)
SetAll ==
    /\ Access("set") /\ pc' = "header"
    /\ UNCHANGED <<i, restartVars, playVars>>

(* vs10xx_send_data of 44 bytes is one VS_Send_MusicData2: a look at DREQ, *)
(* and no header if it is low.                                             *)
Header ==
    /\ pc = "header" /\ pc' = "pend" /\ xdcs' = 1
    /\ dreq' \in IF dreq THEN BOOLEAN ELSE {FALSE}
    /\ UNCHANGED <<i, restartVars, playVars>>

Restart ==
    \/ SetCancel \/ Send \/ ReadBit \/ EndFill \/ Fill \/ Head
    \/ SoftMode \/ SoftClock \/ HDReset \/ SetAll \/ Header

-----------------------------------------------------------------------------
(* vs10xx_play_dma_send_data.                                              *)

(* A frame from the deque.                                                 *)
NextFrame ==
    /\ pc = "pend" /\ pc' = "copy" /\ len' \in 1..MaxLen /\ i' = 0
    /\ UNCHANGED <<xdcs, dreq, restartVars, chunk, dly, dma>>

(* The condition of the loop; what is left after it is the last chunk.     *)
More == i < len - Frame

(* memcpy to vs10xx_play_dma_buff.                                         *)
Copy ==
    /\ pc = "copy" /\ pc' = "look"
    /\ chunk' = IF More THEN Frame ELSE len - i
    /\ UNCHANGED <<i, xdcs, dreq, restartVars, len, dly, dma>>

(* One look at DREQ: the transfer starts, or the chunk is dropped.         *)
Look ==
    /\ pc = "look" /\ pc' = "delay"
    /\ IF dreq THEN xdcs' = 0 /\ dma' = [left |-> chunk, aged |-> FALSE]
               ELSE UNCHANGED <<xdcs, dma>>
    /\ UNCHANGED <<i, dreq, restartVars, len, chunk, dly>>

\* Seeded fault: OSTimeDly(1).
SleepShort ==
    /\ pc = "delay" /\ pc' = "asleep" /\ dly' = Delay - 1
    /\ UNCHANGED <<i, xdcs, dreq, restartVars, len, chunk, dma>>
Sleep ==
    /\ pc = "delay" /\ pc' = "asleep" /\ dly' = Delay
    /\ UNCHANGED <<i, xdcs, dreq, restartVars, len, chunk, dma>>

(* After the last chunk XDCS stays as it is.                               *)
Wake ==
    /\ pc = "asleep" /\ dly = 0
    /\ IF More THEN pc' = "copy" /\ i' = i + Frame /\ xdcs' = 1
               ELSE pc' = "pend" /\ UNCHANGED <<i, xdcs>>
    /\ UNCHANGED <<dreq, restartVars, len, chunk, dly, dma>>

PlayChunk == Copy \/ Look \/ Sleep \/ Wake

-----------------------------------------------------------------------------
(* The hardware.                                                           *)

(* The DMA channel moves a unit; the chip may have enough.                 *)
Transfer ==
    /\ dma.left > 0 /\ dma' = [dma EXCEPT !.left = @ - 1]
    /\ dreq' \in {dreq, FALSE}
    /\ UNCHANGED <<pc, i, xdcs, restartVars, len, chunk, dly>>

(* A tick is 5 ms and 160 bytes at 4.5 MHz take 0.3: no transfer sees two. *)
Tick ==
    /\ dly > 0 \/ (dma.left > 0 /\ ~dma.aged)
    /\ dma.left > 0 => ~dma.aged
    /\ dly' = IF dly > 0 THEN dly - 1 ELSE 0
    /\ dma' = [dma EXCEPT !.aged = (dma.left > 0)]
    /\ UNCHANGED <<pc, i, xdcs, dreq, restartVars, len, chunk>>

Chip ==
    \/ ~dreq /\ dreq' = TRUE /\ UNCHANGED mode
    \/ mode = "cancel" /\ mode' = "play" /\ UNCHANGED dreq

ChipStep ==
    /\ Chip
    /\ UNCHANGED <<pc, i, xdcs, retry, hard, gaveup, playVars>>

Next == Restart \/ NextFrame \/ PlayChunk \/ Transfer \/ Tick \/ ChipStep

Spec == Init /\ [][Next]_vars

-----------------------------------------------------------------------------
Restarting == {"mode", "send", "bit", "endfill", "fill", "head", "soft", "clock",
               "hard", "set", "header"}
Playing == {"pend", "copy", "look", "delay", "asleep"}

TypeOK ==
    /\ pc \in Restarting \cup Playing
    /\ i \in Nat /\ len \in 0..MaxLen /\ chunk \in 0..Frame
    /\ pc = "copy" => i < len
    /\ retry \in 0..(Retries + 1) /\ hard \in BOOLEAN /\ dly \in 0..Delay /\ xdcs \in {0, 1}
    /\ dma \in [left : 0..Frame, aged : BOOLEAN]
    /\ dreq \in BOOLEAN /\ mode \in {"play", "cancel", "reset"}
    /\ gaveup \in BOOLEAN

(* memcpy stays within the DMA buffer, and while a transfer runs the task  *)
(* is on its way to sleep or asleep: it neither fills the buffer, nor      *)
(* starts another transfer, nor uses SPI3 or raises XDCS.  The code never  *)
(* asks the channel; it counts on two ticks being more than one            *)
(* (task_play.c:34-58).                                                    *)
BufferSafe ==
    /\ chunk <= Frame
    /\ dma.left > 0 => pc \in {"delay", "asleep"} /\ xdcs = 0

(* Audio is not sent to a decoder that is still cancelling, on any path    *)
(* through VS_Restart_Play, unless VS_Soft_Reset ran out of retries, which *)
(* it does not report (vs10xx_core.c:342-389).                             *)
DecoderReady == pc \in Playing => mode # "cancel" \/ gaveup
=============================================================================
