------------------------------- MODULE NetLink -------------------------------
(***************************************************************************)
(* What the network interface promises the stack above it: two lossy links *)
(* that neither invent, damage, duplicate nor reorder a frame.             *)
(***************************************************************************)
EXTENDS Naturals, Sequences, FiniteSets

CONSTANTS Frames, NoFrame

VARIABLES
    rx,         \* frames that arrived and are neither delivered nor lost
    delivered,  \* the last frame given to the stack
    tx,         \* the frame the stack is sending
    wire        \* the last frame put on the wire

vars == <<rx, delivered, tx, wire>>

Init == rx = <<>> /\ delivered = NoFrame /\ tx = NoFrame /\ wire = NoFrame

(* s without the positions outside keep.                                   *)
Keeping(s, keep) ==
    LET position == [i \in 1..Cardinality(keep) |->
                        CHOOSE k \in keep : Cardinality({j \in keep : j <= k}) = i]
    IN [i \in DOMAIN position |-> s[position[i]]]

Arrive == /\ \E f \in Frames : rx' = Append(rx, f)
          /\ UNCHANGED <<delivered, tx, wire>>

Lose == /\ \E keep \in SUBSET DOMAIN rx : rx' = Keeping(rx, keep)
        /\ UNCHANGED <<delivered, tx, wire>>

Deliver == /\ rx # <<>>
           /\ delivered' = Head(rx) /\ rx' = Tail(rx)
           /\ UNCHANGED <<tx, wire>>

Submit == /\ tx = NoFrame
          /\ tx' \in Frames
          /\ UNCHANGED <<rx, delivered, wire>>

Transmit == /\ tx # NoFrame
            /\ wire' \in {tx, wire}
            /\ tx' = NoFrame
            /\ UNCHANGED <<rx, delivered>>

Next == Arrive \/ Lose \/ Deliver \/ Submit \/ Transmit

Spec == Init /\ [][Next]_vars
=============================================================================
