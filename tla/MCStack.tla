------------------------------ MODULE MCStack ------------------------------
(* Stack with one INPKT cell, both netbufs and mailboxes one longer than   *)
(* all that can be queued; kernel blocks for both sockets, for one, or for *)
(* none.                                                                   *)
EXTENDS Stack

CONSTANTS c1, b1, b2

MCInCells == {c1}
MCNetbufs == {b1, b2}
MCFreeBlocks == {[events |-> k[1], queues |-> k[2]] : k \in {<<4, 2>>, <<3, 1>>, <<1, 0>>, <<0, 0>>}}
=============================================================================
