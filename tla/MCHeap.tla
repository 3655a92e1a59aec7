------------------------------- MODULE MCHeap -------------------------------
(* An instance of Heap: blocks of the smallest size, an odd size, one that *)
(* splits off exactly the smallest block or not, and sizes of the size_t's *)
(* upper half.                                                             *)
EXTENDS Heap

MCRequests == {0, 1, 9, 24, 120, 300}
=============================================================================
