------------------------------ MODULE YHServer ------------------------------
(***************************************************************************)
(* The PC program: MainWindow's button and YHnet's threads over YHbuffer.  *)
(*                                                                         *)
(*   UI thread    the button (Start, ShutDown) and, dispatched to it, the  *)
(*                callbacks of NAudio's WaveIn                             *)
(*   m_thread_rcv one, for ever: datagrams into m_dgram_queue              *)
(*   m_thread_play one for each Start: m_dgram_queue to the loudspeaker    *)
(*   m_thread_rec one for each recording: m_queue_rec to the device, then  *)
(*                three shut-downs                                         *)
(*                                                                         *)
(* Each queue has one producer (rcv, UI), one consumer for each session    *)
(* whose thread has not ended, and is cleared by the UI thread.            *)
(***************************************************************************)
EXTENDS YHbuffer

CONSTANT ShutDowns     \* AT2 sent at the end of a recording, 3 in the code

ASSUME ShutDownsAssumption == ShutDowns \in Nat \ {0}

VARIABLES
    connected, \* m_is_connected
    session,   \* calls of Start so far; names the threads it starts
    lineRcv,   \* m_is_line_rcv
    lineSnd,   \* m_is_line_snd
    waveIn,    \* m_wave_in: null, recording, stopped (by either side)
    posted,    \* RecordingStopped is posted to the UI thread and not handled
    ui,        \* UI thread: pc, the queue it clears, the blocks DataAvailable has
    net,       \* commands on their way to the device
    air,       \* audio datagrams in the socket m_rcvsocket
    ghost      \* what happened in this session; sent: whose block was sent last

pcVars == <<bufferVars, connected, session, lineRcv, lineSnd, waveIn, posted, ui>>

Running(q) == {s \in Sessions : thread[q][s].pc \in InLoop}

PcInit ==
    /\ BufferInit
    /\ connected = FALSE /\ session = 0
    /\ lineRcv = FALSE /\ lineSnd = FALSE
    /\ waveIn = "null" /\ posted = FALSE
    /\ ui = [pc |-> "idle", clears |-> "dgram", todo |-> <<>>, stopping |-> FALSE]
    /\ net = <<>> /\ air = <<>>

Ui(pc) == Alive /\ ui.pc = pc
UiGo(pc) == ui' = [ui EXCEPT !.pc = pc]

-----------------------------------------------------------------------------
(* The button.  Start, in its order; ShutDown.                             *)

(* Seeded fault: RecordingStopped of the session before is still to come.  *)
ClickStartEarly ==
    /\ Ui("idle") /\ ~connected /\ session < scenario.sessions
    /\ connected' = TRUE /\ session' = session + 1
    /\ ui' = [ui EXCEPT !.pc = "array", !.clears = "dgram"]
    /\ ghost' = [ghost EXCEPT !.at1 = "unsent", !.late = FALSE, !.failed = FALSE,
                     !.recorded = FALSE, !.callbacks = 0,
                     !.overlap = @ \cup {q \in Queues : Running(q) # {}}]
    /\ UNCHANGED <<bufferVars, lineRcv, lineSnd, waveIn, posted, net, air>>

(* BtnConnect_Click connects.  RecordingStopped of the session before was  *)
(* posted before the click and is handled first.                           *)
ClickStart ==
    /\ Ui("idle") /\ ~connected /\ ~posted /\ session < scenario.sessions
    /\ connected' = TRUE /\ session' = session + 1
    /\ ui' = [ui EXCEPT !.pc = "array", !.clears = "dgram"]
    /\ ghost' = [ghost EXCEPT !.at1 = "unsent", !.late = FALSE, !.failed = FALSE,
                     !.recorded = FALSE, !.callbacks = 0,
                     !.overlap = @ \cup {q \in Queues : Running(q) # {}}]
    /\ UNCHANGED <<bufferVars, lineRcv, lineSnd, waveIn, posted, net, air>>

(* m_dgram_queue.Clear(), then m_queue_rec.Clear().                        *)
AfterClear == IF ui.clears = "dgram" THEN [ui EXCEPT !.pc = "array", !.clears = "rec"]
              ELSE [ui EXCEPT !.pc = "establish"]

StartClear ==
    /\ \/ /\ Ui("array") /\ ~Followed(ui.clears)
          /\ ui' = AfterClear /\ UNCHANGED bufferVars
       \/ /\ Ui("array") /\ Followed(ui.clears)
          /\ UiGo("head") /\ ClearArray(ui.clears)
       \/ /\ Ui("head") /\ UiGo("tail")
          /\ ClearField(ui.clears, [queue[ui.clears] EXCEPT !.head = 0])
       \/ /\ Ui("tail") /\ UiGo("size")
          /\ ClearField(ui.clears, [queue[ui.clears] EXCEPT !.tail = 0])
       \/ /\ Ui("size") /\ ui' = AfterClear
          /\ ClearField(ui.clears, [queue[ui.clears] EXCEPT !.size = 0])
    /\ UNCHANGED <<connected, session, lineRcv, lineSnd, waveIn, posted, net, air, ghost>>

(* Seeded fault: the line is established by the first Start only.          *)
LineEstablishOnce ==
    /\ Ui("establish") /\ UiGo("play")
    /\ net' = IF session = 1 THEN Append(net, <<"AT1", session>>) ELSE net
    /\ ghost' = [ghost EXCEPT !.at1 = "sent"]
    /\ UNCHANGED <<bufferVars, connected, session, lineRcv, lineSnd, waveIn, posted, air>>

LineEstablish ==
    /\ Ui("establish") /\ UiGo("play")
    /\ net' = Append(net, <<"AT1", session>>)
    /\ ghost' = [ghost EXCEPT !.at1 = "sent"]
    /\ UNCHANGED <<bufferVars, connected, session, lineRcv, lineSnd, waveIn, posted, air>>

StartPlay ==
    /\ Ui("play") /\ UiGo("record")
    /\ lineRcv' = TRUE
    /\ Go("dgram", session, "test")
    /\ UNCHANGED <<scenario, queue, crash, connected, session, lineSnd, waveIn, posted, net,
                   air, ghost>>

StartRecording ==
    /\ Ui("record") /\ UiGo("idle")
    /\ waveIn' = "recording"
    /\ UNCHANGED <<bufferVars, connected, session, lineRcv, lineSnd, posted, net, air, ghost>>

(* BtnConnect_Click disconnects: ShutDown clears m_is_line_rcv and calls   *)
(* StopRecording, which dereferences m_wave_in.                            *)
ClickShutDown ==
    /\ Ui("idle") /\ connected /\ ~posted /\ session <= scenario.ended
    /\ connected' = FALSE /\ lineRcv' = FALSE
    /\ IF waveIn = "null"
       THEN crash' = "null" /\ UNCHANGED ui
       ELSE ui' = [ui EXCEPT !.pc = "stop", !.stopping = TRUE] /\ UNCHANGED crash
    /\ UNCHANGED <<scenario, queue, thread, session, lineSnd, waveIn, posted, net, air, ghost>>

(* WaveIn.StopRecording has handed over the buffers that were done and     *)
(* posts RecordingStopped; Dispose closes the device.                      *)
StopRecording ==
    /\ Ui("stop")
    /\ ui' = [ui EXCEPT !.pc = "idle", !.stopping = FALSE]
    /\ waveIn' = "stopped" /\ posted' = TRUE
    /\ UNCHANGED <<bufferVars, connected, session, lineRcv, lineSnd, net, air, ghost>>

(* The device is taken away: NAudio stops and posts RecordingStopped.      *)
RecorderFails ==
    /\ Ui("idle") /\ waveIn = "recording" /\ ghost.failures < scenario.failures
    /\ waveIn' = "stopped" /\ posted' = TRUE
    /\ ghost' = [ghost EXCEPT !.failed = TRUE, !.failures = @ + 1]
    /\ UNCHANGED <<bufferVars, connected, session, lineRcv, lineSnd, ui, net, air>>

OnRecordingStopped ==
    /\ Ui("idle") /\ posted
    /\ posted' = FALSE /\ waveIn' = "null" /\ lineSnd' = FALSE
    /\ UNCHANGED <<bufferVars, connected, session, lineRcv, ui, net, air, ghost>>

-----------------------------------------------------------------------------
(* waveIn_DataAvailable, from the device or from inside StopRecording.     *)

(* A call of YHbuffer.Enqueue begins.                                      *)
Call(block) == [NoThread EXCEPT !.pc = "count", !.data = block, !.len = block # Nothing]

DataAvailable ==
    /\ Alive /\ \/ ui.pc = "idle" /\ waveIn = "recording"
                \/ ui.pc = "stop"
    /\ ghost.callbacks < scenario.callbacks
    /\ lineSnd' = TRUE
    /\ LET blocks == IF lineSnd THEN <<Half(session), Half(session)>>
                     ELSE <<Header(session), Half(session), Half(session)>>
       IN /\ ui' = [ui EXCEPT !.pc = "enqueue", !.todo = blocks]
          /\ Becomes("rec", Producer, Call(Head(blocks)))
    /\ ghost' = [ghost EXCEPT !.callbacks = @ + 1]
    /\ UNCHANGED <<scenario, queue, crash, connected, session, lineRcv, waveIn, posted, net, air>>

(* Enqueue has returned: the next one.  The wave header is followed by the *)
(* start of the thread that sends.                                         *)
Enqueued ==
    /\ Ui("enqueue") /\ At("rec", Producer, "done")
    /\ LET left   == Tail(ui.todo)
           starts == Head(ui.todo) = Header(session)
       IN /\ ui' = [ui EXCEPT !.todo = left,
                              !.pc = IF left # <<>> THEN "enqueue"
                                     ELSE IF ui.stopping THEN "stop" ELSE "idle"]
          /\ thread' = [thread EXCEPT
                          !["rec"][Producer] = IF left = <<>> THEN NoThread ELSE Call(Head(left)),
                          !["rec"][session] = IF starts THEN [@ EXCEPT !.pc = "test"] ELSE @]
          /\ ghost' = IF starts
                      THEN [ghost EXCEPT !.recorded = TRUE,
                               !.overlap = @ \cup {q \in {"rec"} : Running(q) # {}}]
                      ELSE ghost
    /\ UNCHANGED <<scenario, queue, crash, connected, session, lineRcv, lineSnd, waveIn,
                   posted, net, air>>

-----------------------------------------------------------------------------
(* ThreadDoRecv: ReceiveFrom, and Enqueue of the datagram.                 *)

ReceiveFrom ==
    /\ Alive /\ thread["dgram"][Producer].pc \in {"none", "done"} /\ air # <<>>
    /\ Becomes("dgram", Producer, Call(Head(air)))
    /\ air' = Tail(air)
    /\ UNCHANGED <<scenario, queue, crash, connected, session, lineRcv, lineSnd, waveIn,
                   posted, ui, net, ghost>>

-----------------------------------------------------------------------------
(* ThreadDoPlay (q = "dgram") and ThreadDoRec (q = "rec") of session s.    *)

Flag(q) == IF q = "dgram" THEN lineRcv ELSE lineSnd
ThreadUnchanged == UNCHANGED <<scenario, queue, connected, session, lineRcv, lineSnd, waveIn,
                               posted, ui, air>>

(* while (m_is_line_...): the sending thread goes on to the shut-downs.    *)
TestFlag(q, s) ==
    /\ At(q, s, "test")
    /\ LET me == thread[q][s]
       IN Becomes(q, s, IF Flag(q)
                        THEN [me EXCEPT !.pc = IF Followed(q) THEN "count" ELSE "test"]
                        ELSE IF q = "dgram" THEN [me EXCEPT !.pc = "end"]
                        ELSE [me EXCEPT !.pc = "shut", !.left = ShutDowns])
    /\ UNCHANGED <<net, crash, ghost>> /\ ThreadUnchanged

(* AddSamples, or Send of the block: both throw when m_data is null.       *)
Use(q, s) ==
    /\ At(q, s, "use")
    /\ IF thread[q][s].data = Nothing
       THEN crash' = "argument" /\ UNCHANGED <<thread, ghost>>
       ELSE /\ Becomes(q, s, [thread[q][s] EXCEPT !.pc = "test", !.data = Nothing, !.len = FALSE])
            /\ ghost' = IF q = "rec" THEN [ghost EXCEPT !.sent = s] ELSE ghost
            /\ UNCHANGED crash
    /\ UNCHANGED net /\ ThreadUnchanged

(* Seeded fault: one shut-down too few.                                    *)
LineShutDownTwice(s) ==
    /\ At("rec", s, "shut")
    /\ LET me == thread["rec"][s]
       IN Becomes("rec", s, [me EXCEPT !.left = @ - 1,
                                       !.pc = IF me.left = 2 THEN "end" ELSE "shut"])
    /\ net' = Append(net, <<"AT2", s>>)
    /\ UNCHANGED <<crash, ghost>> /\ ThreadUnchanged

(* Thread.Sleep(500); LineShutDown().                                      *)
LineShutDown(s) ==
    /\ At("rec", s, "shut")
    /\ LET me == thread["rec"][s]
       IN Becomes("rec", s, [me EXCEPT !.left = @ - 1,
                                       !.pc = IF me.left = 1 THEN "end" ELSE "shut"])
    /\ net' = Append(net, <<"AT2", s>>)
    /\ UNCHANGED <<crash, ghost>> /\ ThreadUnchanged

-----------------------------------------------------------------------------
(* What else throws, with nothing to catch it: StartRecording without a    *)
(* sound device, ReceiveFrom of a datagram longer than m_rcv_buffer,       *)
(* AddSamples to a full buffer, Send of any of the commands and blocks.    *)
SystemThrows ==
    /\ \/ Ui("establish") \/ Ui("record")
       \/ Alive /\ thread["dgram"][Producer].pc \in {"none", "done"} /\ air # <<>>
       \/ \E q \in Queues, s \in Sessions : At(q, s, "use") \/ At(q, s, "shut")
    /\ crash' = "system"
    /\ UNCHANGED <<scenario, queue, thread, connected, session, lineRcv, lineSnd, waveIn,
                   posted, ui, net, air, ghost>>

-----------------------------------------------------------------------------
OutsideUnchanged == UNCHANGED <<connected, session, lineRcv, lineSnd, waveIn, posted, ui, net,
                                air, ghost>>

Click == ClickStart \/ ClickShutDown

(* Steps of YHbuffer.Enqueue, with the Dequeue of the oldest inside it.    *)
Produce(q) == (Enqueue(q) \/ Dequeue(q, Producer)) /\ OutsideUnchanged

UiSteps == \/ StartClear \/ LineEstablish \/ StartPlay \/ StartRecording
           \/ StopRecording \/ Produce("rec") \/ Enqueued

Receive == ReceiveFrom \/ Produce("dgram")

Thread(q, s) == \/ TestFlag(q, s) \/ Use(q, s)
                \/ (DequeueCount(q, s) \/ Dequeue(q, s)) /\ OutsideUnchanged

Pc == \/ Click \/ UiSteps \/ DataAvailable \/ RecorderFails \/ OnRecordingStopped
      \/ Receive \/ SystemThrows
      \/ \E s \in Sessions : LineShutDown(s) \/ \E q \in Queues : Thread(q, s)

(* Windows runs every thread; nobody has to click, speak or unplug.        *)
PcFairness ==
    /\ WF_pcVars(UiSteps) /\ WF_pcVars(OnRecordingStopped) /\ WF_pcVars(Receive)
    /\ \A s \in Sessions : /\ WF_pcVars(LineShutDown(s))
                           /\ \A q \in Queues : WF_pcVars(Thread(q, s))
=============================================================================
