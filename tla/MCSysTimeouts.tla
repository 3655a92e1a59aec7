--------------------------- MODULE MCSysTimeouts ---------------------------
(* Instances of SysTimeouts: the program's two timers, milliseconds and    *)
(* words scaled down, so that a wait lasts up to three ticks, a word holds *)
(* every conversion that Timely asks for, and OSTime wraps around within a *)
(* few waits.                                                              *)
EXTENDS SysTimeouts, TLC

MCTimers == {"arp", "reass"}
MCInterval == [t \in MCTimers |-> IF t = "arp" THEN 12 ELSE 9]
=============================================================================
