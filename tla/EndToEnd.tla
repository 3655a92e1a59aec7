------------------------------ MODULE EndToEnd ------------------------------
(***************************************************************************)
(* A call: the PC program (YHServer), the network between, which loses     *)
(* datagrams, and the device as far as the call sees it: task_udpserver's  *)
(* parse_AT with its flag, and task_udpclient, which sends while the line  *)
(* is up.  (Intercom has the device's tasks in full.)                      *)
(*                                                                         *)
(* The protocol has no acknowledgement: AT1 goes out once, AT2 three times *)
(* half a second apart from a thread that outlives its session.            *)
(***************************************************************************)
EXTENDS YHServer

VARIABLES
    line,     \* the device's is_line_established
    sending,  \* is task_udpclient in its sending loop?
    audio,    \* audio datagrams sent so far
    loss      \* commands lost so far

vars == <<scenario, queue, thread, crash, connected, session, lineRcv, lineSnd, waveIn,
          posted, ui, net, air, ghost, line, sending, audio, loss>>

device == <<line, sending, audio>>

Init ==
    /\ PcInit
    /\ line = FALSE /\ sending = FALSE /\ audio = 0 /\ loss = 0
    /\ ghost = [at1 |-> "unsent", late |-> FALSE, failed |-> FALSE, failures |-> 0,
                recorded |-> FALSE, callbacks |-> 0, overlap |-> {},
                sent |-> 0]

(* task_udpserver: recvfrom, parse_AT, the flag, and the semaphore that    *)
(* starts task_udpclient.                                                  *)
DeviceReceive ==
    /\ Alive /\ net # <<>> /\ net' = Tail(net)
    /\ LET up == Head(net)[1] = "AT1"  of == Head(net)[2]
       IN /\ line' = up
          /\ sending' = (sending \/ up)
          /\ ghost' = [ghost EXCEPT
                         !.at1 = IF up /\ of = session THEN "received" ELSE @,
                         !.late = @ \/ (~up /\ of < session /\ ghost.at1 = "received")]
    /\ UNCHANGED <<pcVars, air, audio, loss>>

(* task_udpclient sends a block, then tests the flag.                      *)
DeviceSend ==
    /\ Alive /\ sending /\ audio < scenario.audio
    /\ audio' = audio + 1
    /\ air' = Append(air, Audio)
    /\ sending' = line
    /\ UNCHANGED <<pcVars, net, ghost, line, loss>>

NetLose ==
    /\ Alive /\ net # <<>> /\ loss < scenario.loss
    /\ net' = Tail(net) /\ loss' = loss + 1
    /\ ghost' = [ghost EXCEPT !.at1 = IF Head(net) = <<"AT1", session>> THEN "lost" ELSE @]
    /\ UNCHANGED <<pcVars, air, device>>

Next == (Pc /\ UNCHANGED <<device, loss>>) \/ DeviceReceive \/ DeviceSend \/ NetLose

Spec == Init /\ [][Next]_vars

FairSpec == Spec /\ PcFairness /\ WF_vars(DeviceReceive)

-----------------------------------------------------------------------------
(* Properties.                                                             *)

BlockType == {Nothing, Audio} \cup Sessions \X {"header", "half"}
SlotType == [data : BlockType, len : BOOLEAN]
QueueType == [array : [0..(Blocks - 1) -> SlotType], head : 0..(Blocks - 1),
              tail : 0..(Blocks - 1), size : MinSize..Blocks]
ThreadType == [pc : InLoop \cup InEnqueue \cup {"none", "done", "shut", "end"},
               data : BlockType, len : BOOLEAN, index : 0..(Blocks - 1),
               size : MinSize..Blocks, left : 0..ShutDowns]

(* The values of YHnet's fields, queues and threads, and of the device's   *)
(* flag: whatever update two threads lose, head and tail stay in the array *)
(* and no queue counts more than its blocks.                               *)
TypeOK ==
    /\ {connected, lineRcv, lineSnd, posted, line, sending} \subseteq BOOLEAN
    /\ session \in 0..MaxSessions
    /\ waveIn \in {"null", "recording", "stopped"}
    /\ ui.pc \in {"idle", "array", "head", "tail", "size", "establish", "play", "record",
                  "stop", "enqueue"}
    /\ queue \in [Queues -> QueueType]
    /\ thread \in [Queues -> [Threads -> ThreadType]]
    /\ \A i \in DOMAIN net : net[i] \in {"AT1", "AT2"} \X Sessions
    /\ crash \in {"no", "empty", "grown", "range", "argument", "system", "null"}

(* A Queue<T> made for Blocks elements never replaces its array: however   *)
(* many threads take from it without a lock, and whatever they lose of its *)
(* size, YHbuffer.Enqueue's test of Count leaves Queue<T>.Enqueue room.    *)
NeverGrows == crash # "grown"

(* ShutDown finds m_wave_in null only after a recording that failed: the   *)
(* RecordingStopped of the session before never comes after its m_wave_in  *)
(* was replaced.                                                           *)
NullAfterFailure == crash = "null" => ghost.failed

(* The wave header goes before the audio, whatever the two threads lose of *)
(* the queue.  Three blocks are just enough for the header and the halves  *)
(* of the first callback of DataAvailable: audio goes out without its      *)
(* header only after a second callback, or with an older thread about.     *)
HeaderFirst ==
    [][\A s \in Sessions :
          Use("rec", s) /\ "rec" \notin ghost.overlap /\ ghost.sent < s
             => thread["rec"][s].data = Header(s) \/ ghost.callbacks >= 2]_vars

(* Nothing is under way: the UI thread waits for a click, no command is in *)
(* the network and no thread of an ended recording has one to send.        *)
Settled ==
    /\ Alive /\ ui.pc = "idle" /\ ~posted /\ net = <<>>
    /\ \A s \in Sessions : /\ thread["rec"][s].pc # "shut"
                           /\ thread["rec"][s].pc \in InLoop => lineSnd

(* Both ends agree on the line, unless the one AT1 was lost, an AT2 of an  *)
(* earlier session came after it, the recording ended by itself, or the    *)
(* session ended before it recorded and nobody sent an AT2.  The network   *)
(* loses fewer commands than LineShutDown repeats.                         *)
LineAgrees ==
    Settled /\ line # connected =>
        IF connected THEN ghost.at1 = "lost" \/ ghost.late \/ ghost.failed
                     ELSE ~ghost.recorded

(* A call that recorded something and is ended for good ends on the device *)
(* too: of the three AT2 at least one arrives.                             *)
LineGoesDown ==
    <>[](~connected) => <>[](~line \/ ~ghost.recorded \/ ~Alive)
=============================================================================
