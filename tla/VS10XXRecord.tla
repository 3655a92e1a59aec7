---------------------------- MODULE VS10XXRecord ----------------------------
(***************************************************************************)
(* The recorder and the loop of task_udpclient (task_udpclient.c:51-95).   *)
(* The chip puts words into a buffer of its own at its own pace and says   *)
(* in SPI_HDAT1 how many it has; a full buffer starts again empty.  The    *)
(* task polls, reads a block of 256 words when there is one and the buffer *)
(* is not nearly full, and sends it.  It has the lowest priority: words    *)
(* arrive between any two of its accesses.                                 *)
(***************************************************************************)
EXTENDS Naturals

CONSTANTS
    Size,    \* words in the chip's buffer, 1024
    Block,   \* words of a block, 256
    High,    \* from where on no block is read, 896
    MaxLate  \* words that arrive from a look at HDAT1 to the end of the block

(* At 8 kHz the margin of 128 words is 16 ms, in which the task reads the  *)
(* block and those above it run.                                           *)
ASSUME RecordAssumption ==
    /\ Size \in Nat /\ Block \in Nat \ {0} /\ High \in Nat /\ MaxLate \in Nat
    /\ Block < High /\ High + MaxLate <= Size

VARIABLES
    client,  \* where task_udpclient is
    fill,    \* HDAT1
    idx,     \* words read of the block
    late,    \* words that came since the look at HDAT1 that began the block
    torn     \* ghost: 1 if the block lost a word or got one that was not there

recordVars == <<client, fill, idx, late, torn>>

(* The recording has just been activated.                                  *)
RecordInit ==
    /\ client = "start" /\ fill \in 0..(Size - 1)
    /\ idx = 0 /\ late = 0 /\ torn = 0

(* The chip.                                                               *)
Word ==
    /\ client = "read" => late < MaxLate
    /\ late' = IF client = "read" THEN late + 1 ELSE late
    /\ fill' = IF fill + 1 < Size THEN fill + 1 ELSE 0
    /\ torn' = IF client = "read" /\ fill + 1 = Size THEN 1 ELSE torn
    /\ UNCHANGED <<client, idx>>

(* The loop of line 52: until HDAT1 >> 8 is 0.                             *)
StartRecord ==
    /\ client = "start"
    /\ client' = IF fill < Block THEN "pend" ELSE "start"
    /\ UNCHANGED <<fill, idx, late, torn>>

(* sem_vs1053async was posted; sendto of the header.                       *)
SendHeader ==
    /\ client = "pend" /\ client' = "look"
    /\ UNCHANGED <<fill, idx, late, torn>>

\* Seeded fault: `w <= 896`.
BlockReadyLate == fill >= Block /\ fill <= High
BlockReady == fill >= Block /\ fill < High

(* is_line_established, which may change at any time.                      *)
AfterTurn == {"look", "pend"}

LookBlock ==
    /\ client = "look"
    /\ IF BlockReady THEN client' = "read" /\ idx' = 0 /\ late' = 0 /\ torn' = 0
                     ELSE client' \in AfterTurn /\ UNCHANGED <<idx, late, torn>>
    /\ UNCHANGED fill

(* SPI_HDAT0, once for each word.                                          *)
ReadWord ==
    /\ client = "read" /\ idx' = idx + 1
    /\ fill' = IF fill > 0 THEN fill - 1 ELSE 0
    /\ torn' = IF fill = 0 THEN 1 ELSE torn
    /\ client' = IF idx + 1 < Block THEN "read" ELSE "send"
    /\ UNCHANGED late

(* sendto returns.                                                         *)
SentBlock ==
    /\ client = "send" /\ client' \in AfterTurn
    /\ UNCHANGED <<fill, idx, late, torn>>

Client == StartRecord \/ SendHeader \/ LookBlock \/ ReadWord \/ SentBlock

RecordNext == Word \/ Client

RecordSpec == RecordInit /\ [][RecordNext]_recordVars

-----------------------------------------------------------------------------
RecordTypeOK ==
    /\ client \in {"start", "pend", "look", "read", "send"}
    /\ fill \in 0..(Size - 1) /\ idx \in 0..Block /\ late \in 0..MaxLate
    /\ torn \in {0, 1}

(* What is sent is 256 consecutive words of the recording: the chip did    *)
(* not start its buffer again while the block was read, and every word was *)
(* there when it was read (task_udpclient.c:73-83).                        *)
BlocksWhole == torn = 0
=============================================================================
