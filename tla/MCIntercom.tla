----------------------------- MODULE MCIntercom -----------------------------
(* Instances of Intercom for TLC.                                          *)
EXTENDS Intercom

(* The closed form of the initial queue is what rev_buffer_init computes:  *)
(* its rcv_queue_enqueue never finds the queue full.                       *)
FoldedInit ==
    LET d[i \in 0..RcvBufferNum] ==
            IF i = 0 THEN New(Capacity) ELSE AddFirst(d[i - 1], i, TRUE)
    IN d[RcvBufferNum]

ASSUME InitialQueueIsFolded == InitialQueue = FoldedInit
=============================================================================
