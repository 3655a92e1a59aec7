----------------------------- MODULE MCEndToEnd -----------------------------
(* Instances of EndToEnd.                                                  *)
EXTENDS EndToEnd

Calls(n, e, q, c, f, a, l) ==
    [sessions |-> n, ended |-> e, queues |-> q, callbacks |-> c, failures |-> f, audio |-> a, loss |-> l]

MCMinSize == -2

(* Two calls over a bad network with a microphone that fails, the queues   *)
(* aside; two calls whose threads play from one queue; a call that plays   *)
(* more than the queue holds; a call that records.                         *)
MCScenarios == {Calls(2, 2, {}, 1, 1, 0, 2),
                Calls(2, 1, {"dgram"}, 0, 0, 1, 0),
                Calls(1, 0, {"dgram"}, 0, 0, 4, 0),
                Calls(1, 1, {"rec"}, 1, 0, 0, 0)}
=============================================================================
