------------------------------ MODULE TimerSet ------------------------------
(***************************************************************************)
(* What sys_timeout promises: a set of timers, each with the time it has   *)
(* left, that expire in the order of the times left.                       *)
(***************************************************************************)
EXTENDS Naturals

CONSTANTS Timers, Interval

VARIABLE left   \* milliseconds left, for the timers that are set

Init == left = [t \in {} |-> 0]

(* No timer has less time left.                                            *)
IsNext(t) == t \in DOMAIN left /\ \A u \in DOMAIN left : left[t] <= left[u]

Arm(t) == /\ t \notin DOMAIN left
          /\ left' = [u \in DOMAIN left \cup {t} |-> IF u = t THEN Interval[t] ELSE left[u]]

(* Time passes, never beyond the next expiry.                              *)
Pass(t) == /\ IsNext(t)
           /\ \E d \in 1..left[t] : left' = [u \in DOMAIN left |-> left[u] - d]

(* The timer with the least time left expires; so much time has passed.    *)
Expire(t) == /\ IsNext(t)
             /\ left' = [u \in DOMAIN left \ {t} |-> left[u] - left[t]]

Next == \E t \in Timers : Arm(t) \/ Pass(t) \/ Expire(t)

Spec == Init /\ [][Next]_left
=============================================================================
