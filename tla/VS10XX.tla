------------------------------- MODULE VS10XX -------------------------------
(***************************************************************************)
(* The two codecs and the tasks that drive them.  They share no pins and   *)
(* no SPI, only the processor: task_udpclient (priority 18) runs while     *)
(* task_play (17) is blocked, in OSSemPend, in OSTimeDly or in a delay of  *)
(* a reset, and not while it polls DREQ.                                   *)
(***************************************************************************)
EXTENDS VS10XXPlay, VS10XXRecord

(* VS_HD_Reset and VS_Soft_Reset wait in delay_ms, which is OSTimeDly; the *)
(* polls of DREQ beside those waits are counted as blocked too, so that    *)
(* the client runs no less than it can.                                    *)
PlayBlocked == pc \in {"pend", "asleep", "hard", "soft", "head", "set"}

CodecsInit == Init /\ RecordInit

CodecsNext ==
    \/ Next /\ UNCHANGED recordVars
    \/ Word /\ UNCHANGED vars
    \/ PlayBlocked /\ Client /\ UNCHANGED vars

CodecsSpec == CodecsInit /\ [][CodecsNext]_<<vars, recordVars>>
=============================================================================
