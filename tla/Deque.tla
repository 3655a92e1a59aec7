------------------------------- MODULE Deque -------------------------------
(***************************************************************************)
(* The ring-buffer deque of collect/deque.c (Collections-C) and the FIFO   *)
(* face collect/queue.c puts on it, as operators on one record:            *)
(*                                                                         *)
(*   size, capacity, first, last   the fields of struct deque_s            *)
(*   buffer                        0..capacity-1 -> element                *)
(*                                                                         *)
(* "first" is the index of the front element, "last" the index one past    *)
(* the back element; both wrap with "& (capacity - 1)", which is           *)
(* "% capacity" because the capacity is a power of two.  size_t arithmetic *)
(* never overflows here: the indices are masked and size <= capacity.      *)
(***************************************************************************)
EXTENDS Integers, Sequences

CONSTANT Unset   \* what a buffer word holds before it is first written

(* Bound: capacities go up to 2^MaxExponent (2^31 in the code).            *)
MaxExponent == 8

(* upper_pow_two, for the capacities a conf can ask for.                   *)
UpperPowTwo(n) == IF n = 0 THEN 2
                  ELSE CHOOSE p \in {2^k : k \in 0..MaxExponent} :
                          p >= n /\ \A k \in 0..MaxExponent : 2^k >= n => p <= 2^k

DequeType(Elem) ==
    UNION {[size : 0..c, capacity : {c}, first : 0..(c - 1), last : 0..(c - 1),
            buffer : [0..(c - 1) -> Elem \cup {Unset}]] : c \in {2^k : k \in 0..MaxExponent}}

(* deque_new_conf: the buffer has conf->capacity words, uninitialised.     *)
New(confCapacity) ==
    [size |-> 0, capacity |-> UpperPowTwo(confCapacity), first |-> 0, last |-> 0,
     buffer |-> [i \in 0..(confCapacity - 1) |-> Unset]]

(* copy_buffer with cp = NULL: the two memcpy calls, by what they copy.    *)
(* A ring whose last is past first is copied in one piece of "size" words; *)
(* otherwise the tail of the buffer goes first and then "last" words from  *)
(* its start.  Words of the new buffer that neither writes stay NULL.      *)
CopyBuffer(d, dest) ==
    LET tail == d.capacity - d.first
    IN [i \in DOMAIN dest |->
          IF d.last > d.first
          THEN IF i < d.size THEN d.buffer[d.first + i] ELSE dest[i]
          ELSE IF i < tail THEN d.buffer[d.first + i]
               ELSE IF i - tail < d.last THEN d.buffer[i - tail] ELSE dest[i]]

(* expand_capacity when mem_calloc succeeds.                               *)
ExpandCapacity(d) ==
    [size |-> d.size, capacity |-> 2 * d.capacity, first |-> 0, last |-> d.size,
     buffer |-> CopyBuffer(d, [i \in 0..(2 * d.capacity - 1) |-> Unset])]

Prev(d, i) == (i - 1) % d.capacity
Succ(d, i) == (i + 1) % d.capacity

(* The tail of deque_add_first, once there is room.                        *)
PushFirst(d, e) ==
    [d EXCEPT !.first = Prev(d, d.first),
              !.buffer[Prev(d, d.first)] = e,
              !.size = d.size + 1]

(* deque_add_first; "memory" is whether an expansion would get its memory. *)
AddFirst(d, e, memory) ==
    IF d.size < d.capacity THEN PushFirst(d, e)
    ELSE IF memory THEN PushFirst(ExpandCapacity(d), e) ELSE d

PushLast(d, e) ==
    [d EXCEPT !.buffer[d.last] = e,
              !.last = Succ(d, d.last),
              !.size = d.size + 1]

(* deque_add_last: the same, at the other end.                             *)
AddLast(d, e, memory) ==
    IF d.size < d.capacity THEN PushLast(d, e)
    ELSE IF memory THEN PushLast(ExpandCapacity(d), e) ELSE d

(* deque_remove_first and deque_remove_last do nothing to an empty deque.  *)
RemoveFirst(d) ==
    IF d.size = 0 THEN d
    ELSE [d EXCEPT !.first = Succ(d, d.first), !.size = d.size - 1]

RemoveLast(d) ==
    IF d.size = 0 THEN d
    ELSE [d EXCEPT !.last = Prev(d, d.last), !.size = d.size - 1]

(* The element the two removals hand out.                                  *)
FirstOut(d) == d.buffer[d.first]
LastOut(d) == d.buffer[Prev(d, d.last)]

RemoveAll(d) == [d EXCEPT !.first = 0, !.last = 0, !.size = 0]

(* deque_get_at / deque_foreach: the element at an index counts from first. *)
At(d, i) == d.buffer[(d.first + i) % d.capacity]

(* The deque as a sequence, front first: what deque_foreach visits.        *)
Contents(d) == [i \in 1..d.size |-> At(d, i - 1)]
=============================================================================
