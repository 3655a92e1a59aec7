----------------------------- MODULE CallProofs -----------------------------
(***************************************************************************)
(* The call itself (EndToEnd): proofs, over the invariant Base of          *)
(* EndToEndProofs.                                                         *)
(*                                                                         *)
(* BothEndsAgree follows the commands: a sending thread puts its AT2 into  *)
(* the network behind everything its session sent before, and one more     *)
(* than the network loses.  HeaderGoesFirst follows the header through the *)
(* three calls of Enqueue of the first callback and the thread's Dequeue,  *)
(* one access to memory at a time.                                         *)
(***************************************************************************)
EXTENDS EndToEndProofs, FiniteSetTheorems

Quit == {"shut", "end"}
Unsent == Clearing \cup {"establish"}
Positions(commands, x) == {i \in 1..Len(commands) : commands[i] = x}

(* The sending thread of the running session, and the header that starts it*)
Sending ==
    /\ \A i \in 1..Len(ui.todo) : ui.todo[i] = Header(session) => i = 1 /\ ~ghost.recorded
    /\ ghost.recorded => ghost.callbacks > 0 /\ session > 0
    /\ \A s \in Sessions :
          /\ s > session => thread["rec"][s].pc = "none"
          /\ s = session /\ ~ghost.recorded => thread["rec"][s].pc = "none"
          /\ s = session /\ ghost.recorded => thread["rec"][s].pc # "none"
          /\ s = session /\ connected /\ thread["rec"][s].pc \in Quit => ghost.failed
          /\ thread["rec"][s].pc = "end" => thread["rec"][s].left = 0
          /\ thread["rec"][s].pc \in InLoop \cup Quit \cup {"none"}

(* Every AT2 the thread has sent is in the network or lost, or one has     *)
(* arrived and no AT1 comes after it.                                      *)
Down(s) ==
    \/ ShutDowns <= Cardinality(Positions(net, <<"AT2", s>>)) + loss + thread["rec"][s].left
    \/ ~line /\ \A i \in 1..Len(net) : net[i][1] # "AT1"

(* Where the commands of the running session are.                          *)
Commands ==
    /\ \A i \in 1..Len(net) : net[i][2] <= session
    /\ \A s \in Sessions, i \in 1..Len(net) :
          s = session /\ net[i] = <<"AT2", s>> => thread["rec"][s].pc \in Quit
    /\ ghost.at1 = "unsent" => session = 0 \/ ui.pc \in Unsent
    /\ ghost.at1 = "sent" => \E i \in 1..Len(net) : net[i] = <<"AT1", session>>
    /\ ghost.at1 = "received" /\ connected /\ ~ghost.late /\ ~ghost.failed => line
    /\ \A i, j \in 1..Len(net) : i < j /\ net[i] = <<"AT2", session>> => net[j][1] # "AT1"
    /\ \A s \in Sessions : s = session /\ thread["rec"][s].pc \in Quit => Down(s)

(* How many commands of a kind there are, when one more is sent and when   *)
(* the oldest goes.                                                        *)
LEMMA PositionsFinite ==
    ASSUME NEW S, NEW n \in Seq(S), NEW x
    PROVE  IsFiniteSet(Positions(n, x)) /\ Cardinality(Positions(n, x)) \in Nat
<1>1. Len(n) \in Nat
  OBVIOUS
<1>2. IsFiniteSet(1..Len(n))
  BY <1>1, FS_Interval
<1>3. Positions(n, x) \subseteq 1..Len(n)
  BY DEF Positions
<1> QED BY <1>2, <1>3, FS_Subset, FS_CardinalityType

(* One more command of a kind is sent.                                     *)
LEMMA PositionsAppend ==
    ASSUME NEW S, NEW n \in Seq(S), NEW e \in S
    PROVE  /\ Cardinality(Positions(Append(n, e), e)) = Cardinality(Positions(n, e)) + 1
<1>1. /\ Len(n) \in Nat /\ Len(Append(n, e)) = Len(n) + 1
      /\ \A i \in 1..Len(n) : Append(n, e)[i] = n[i]
      /\ Append(n, e)[Len(n) + 1] = e
  BY AppendProperties
<1>2. Positions(Append(n, e), e) = Positions(n, e) \cup {Len(n) + 1}
  BY <1>1 DEF Positions
<1>3. Len(n) + 1 \notin Positions(n, e)
  BY <1>1 DEF Positions
<1>4. IsFiniteSet(Positions(n, e))
  BY PositionsFinite
<1> QED BY <1>2, <1>3, <1>4, FS_AddElement

(* Sending makes no kind of command fewer.                                 *)
LEMMA PositionsGrow ==
    ASSUME NEW S, NEW n \in Seq(S), NEW e \in S, NEW x
    PROVE  Cardinality(Positions(n, x)) <= Cardinality(Positions(Append(n, e), x))
<1>1. /\ Len(n) \in Nat /\ Len(Append(n, e)) = Len(n) + 1
      /\ \A i \in 1..Len(n) : Append(n, e)[i] = n[i]
      /\ Append(n, e) \in Seq(S)
  BY AppendProperties
<1>2. Positions(n, x) \subseteq Positions(Append(n, e), x)
  BY <1>1 DEF Positions
<1>3. IsFiniteSet(Positions(Append(n, e), x))
  BY <1>1, PositionsFinite
<1> QED BY <1>2, <1>3, FS_Subset

(* The oldest command goes: one of its kind less, none of another.         *)
LEMMA PositionsTail ==
    ASSUME NEW S, NEW n \in Seq(S), NEW x, n # <<>>
    PROVE  /\ Cardinality(Positions(n, x)) <= Cardinality(Positions(Tail(n), x)) + 1
           /\ Head(n) # x => Cardinality(Positions(n, x)) <= Cardinality(Positions(Tail(n), x))
<1> DEFINE T == Positions(Tail(n), x)
           U == Positions(n, x) \ {1}
           f == [i \in U |-> i - 1]
<1>1. /\ Tail(n) \in Seq(S) /\ Len(Tail(n)) = Len(n) - 1 /\ Len(n) \in Nat
      /\ \A i \in 1..(Len(n) - 1) : Tail(n)[i] = n[i + 1]
      /\ Head(n) = n[1]
  BY HeadTailProperties, EmptySeq
<1>2. IsFiniteSet(T) /\ Cardinality(T) \in Nat
  BY <1>1, PositionsFinite
<1>3. \A i \in U : i \in Nat /\ i - 1 \in T
  BY <1>1 DEF Positions
<1>4. f \in [U -> T]
  BY <1>3
<1>5. \A i, j \in U : f[i] = f[j] => i = j
  BY <1>3
<1>6. f \in Injection(U, T)
  <2> HIDE DEF f, U, T
  <2> QED BY <1>4, <1>5, Fun_IsInj
<1>7. Cardinality(U) <= Cardinality(T)
  <2> HIDE DEF f, U, T
  <2> QED BY <1>2, <1>6, FS_Injection
<1>8. /\ IsFiniteSet(Positions(n, x)) /\ Cardinality(Positions(n, x)) \in Nat
  BY PositionsFinite
<1>9. Cardinality(U) = IF 1 \in Positions(n, x) THEN Cardinality(Positions(n, x)) - 1
                       ELSE Cardinality(Positions(n, x))
  BY <1>8, FS_RemoveElement
<1>10. Cardinality(U) \in Nat
  BY <1>8, FS_RemoveElement, FS_CardinalityType
<1>11. Head(n) # x => 1 \notin Positions(n, x)
  BY <1>1 DEF Positions
<1> HIDE DEF T, U
<1>12. Cardinality(Positions(n, x)) <= Cardinality(T) + 1
  BY <1>2, <1>7, <1>8, <1>9, <1>10
<1>13. Head(n) # x => Cardinality(Positions(n, x)) <= Cardinality(T)
  BY <1>2, <1>7, <1>8, <1>9, <1>10, <1>11
<1> QED BY <1>12, <1>13 DEF T

-----------------------------------------------------------------------------
(* The steps that leave the commands and the sending threads alone: a      *)
(* sending thread in its loop stays in it.                                 *)
Calm == \A s \in Sessions :
           \/ thread'["rec"][s] = thread["rec"][s]
           \/ /\ {thread["rec"][s].pc, thread'["rec"][s].pc} \subseteq InLoop
              /\ thread'["rec"][s].left = thread["rec"][s].left

SameGhost ==
    /\ ghost'.at1 = ghost.at1 /\ ghost'.late = ghost.late
    /\ ghost'.recorded = ghost.recorded /\ ghost'.callbacks = ghost.callbacks
    /\ ghost.failed => ghost'.failed

Quiet ==
    /\ UNCHANGED <<session, net, line, loss>> /\ ui'.todo = ui.todo
    /\ connected' => connected
    /\ ui.pc \in Unsent => ui'.pc \in Unsent
    /\ SameGhost /\ Calm

(* A sending thread in its loop has neither begun to shut the line down    *)
(* nor ended.                                                              *)
LEMMA LoopPcs == \A pc \in InLoop : pc \notin Quit /\ pc # "none"
  BY DEF InLoop, InDequeue, Quit

(* A quiet step keeps both parts of the invariant.                         *)
LEMMA QuietKeeps ==
    ASSUME Sending, Commands, Quiet
    PROVE  Sending' /\ Commands'
<1>1. \A s \in Sessions :
         /\ thread'["rec"][s].pc \in Quit <=> thread["rec"][s].pc \in Quit
         /\ thread'["rec"][s].pc = "none" <=> thread["rec"][s].pc = "none"
         /\ thread'["rec"][s].pc = "end" <=> thread["rec"][s].pc = "end"
         /\ thread'["rec"][s].left = thread["rec"][s].left
         /\ thread'["rec"][s].pc \in InLoop \cup Quit \cup {"none"}
  <2> SUFFICES ASSUME NEW s \in Sessions
               PROVE  /\ thread'["rec"][s].pc \in Quit <=> thread["rec"][s].pc \in Quit
                      /\ thread'["rec"][s].pc = "none" <=> thread["rec"][s].pc = "none"
                      /\ thread'["rec"][s].pc = "end" <=> thread["rec"][s].pc = "end"
                      /\ thread'["rec"][s].left = thread["rec"][s].left
                      /\ thread'["rec"][s].pc \in InLoop \cup Quit \cup {"none"}
    OBVIOUS
  <2>1. CASE thread'["rec"][s] = thread["rec"][s]
    BY <2>1 DEF Sending
  <2>2. CASE /\ thread["rec"][s].pc \in InLoop /\ thread'["rec"][s].pc \in InLoop
             /\ thread'["rec"][s].left = thread["rec"][s].left
    <3>1. /\ thread["rec"][s].pc \notin Quit /\ thread'["rec"][s].pc \notin Quit
          /\ thread["rec"][s].pc # "none" /\ thread'["rec"][s].pc # "none"
      BY <2>2, LoopPcs
    <3> QED BY <2>2, <3>1 DEF Quit
  <2> QED BY <2>1, <2>2 DEF Quiet, Calm
<1>2. /\ UNCHANGED <<session, net, line, loss>> /\ ui'.todo = ui.todo /\ (connected' => connected)
      /\ (ui.pc \in Unsent => ui'.pc \in Unsent) /\ SameGhost
  BY DEF Quiet
<1>3. Sending'
  <2>1. \A i \in 1..Len(ui'.todo) : ui'.todo[i] = Header(session') => i = 1 /\ ~ghost'.recorded
    BY <1>2 DEF Sending, SameGhost
  <2>2. ghost'.recorded => ghost'.callbacks > 0 /\ session' > 0
    BY <1>2 DEF Sending, SameGhost
  <2> QED BY <1>1, <1>2, <2>1, <2>2 DEF Sending, SameGhost
<1>4. ASSUME NEW s \in Sessions, s = session', thread'["rec"][s].pc \in Quit
      PROVE  Down(s)'
  <2>1. Down(s)
    BY <1>1, <1>2, <1>4 DEF Commands
  <2> QED BY <1>1, <1>2, <2>1 DEF Down
<1>5. /\ \A i \in 1..Len(net') : net'[i][2] <= session'
      /\ \A s \in Sessions, i \in 1..Len(net') :
            s = session' /\ net'[i] = <<"AT2", s>> => thread'["rec"][s].pc \in Quit
      /\ \A i, j \in 1..Len(net') : i < j /\ net'[i] = <<"AT2", session'>> => net'[j][1] # "AT1"
  BY <1>1, <1>2 DEF Commands
<1>6. /\ ghost'.at1 = "unsent" => session' = 0 \/ ui'.pc \in Unsent
      /\ ghost'.at1 = "sent" => \E i \in 1..Len(net') : net'[i] = <<"AT1", session'>>
      /\ ghost'.at1 = "received" /\ connected' /\ ~ghost'.late /\ ~ghost'.failed => line'
  BY <1>2 DEF Commands, SameGhost
<1> QED BY <1>3, <1>4, <1>5, <1>6 DEF Commands

(* Steps of one thread: of another than the sending ones, or within the    *)
(* loop.                                                                   *)
LEMMA CalmThread ==
    ASSUME NEW q \in Queues, NEW t \in Threads, Others(q, t),
           \/ q = "dgram" \/ t = Producer
           \/ /\ {thread[q][t].pc, thread'[q][t].pc} \subseteq InLoop
              /\ thread'[q][t].left = thread[q][t].left
    PROVE  Calm
<1> SUFFICES ASSUME NEW s \in Sessions
             PROVE  \/ thread'["rec"][s] = thread["rec"][s]
                    \/ /\ {thread["rec"][s].pc, thread'["rec"][s].pc} \subseteq InLoop
                       /\ thread'["rec"][s].left = thread["rec"][s].left
  BY DEF Calm
<1>1. s \in Threads /\ s # Producer /\ "rec" \in Queues
  BY YHbufferAssumption DEF Threads, Sessions, Producer, Queues
<1>2. CASE q = "rec" /\ t = s
  BY <1>1, <1>2
<1>3. CASE ~(q = "rec" /\ t = s)
  BY <1>1, <1>3 DEF Others
<1> QED BY <1>2, <1>3

(* The steps of the UI thread that send nothing and start no sending       *)
(* thread.                                                                 *)
LEMMA QuietUi ==
    ASSUME Base, Still,
           \/ StartClear \/ StartPlay \/ StartRecording \/ StopRecording \/ ClickShutDown
           \/ RecorderFails \/ OnRecordingStopped \/ ReceiveFrom \/ SystemThrows
    PROVE  Quiet
<1>1. ui \in UiType /\ ghost \in GhostType /\ QueueTypes
  BY DEF Base, Typed
<1>2. CASE StartClear
  <2>1. ui'.todo = ui.todo /\ ui'.pc \in Unsent
    <3>1. AfterClear.todo = ui.todo /\ AfterClear.pc \in Unsent
      BY <1>1 DEF AfterClear, UiType, Unsent, Clearing
    <3>2. \A pc \in Clearing : [ui EXCEPT !.pc = pc].todo = ui.todo
                               /\ [ui EXCEPT !.pc = pc].pc \in Unsent
      BY <1>1 DEF UiType, Unsent
    <3>3. ui' = AfterClear \/ \E pc \in Clearing : ui' = [ui EXCEPT !.pc = pc]
      BY <1>2 DEF StartClear, UiGo, Clearing
    <3> QED BY <3>1, <3>2, <3>3
  <2>2. UNCHANGED <<session, net, connected, ghost, thread>>
    BY <1>2 DEF StartClear, ClearArray, ClearField, bufferVars
  <2> QED BY <2>1, <2>2 DEF Quiet, SameGhost, Calm, Still
<1>3. CASE StartPlay
  <2>1. ui'.todo = ui.todo /\ ui.pc \notin Unsent
    BY <1>1, <1>3 DEF StartPlay, Ui, UiGo, UiType, Unsent, Clearing
  <2>2. session \in Threads /\ "dgram" \in Queues
    BY DEF Base, Typed, Sessions, Threads, Producer, Queues
  <2>3. Others("dgram", session)
    BY <1>1, <1>3, <2>2 DEF StartPlay, Go, Becomes, QueueTypes, Others
  <2>4. Calm
    BY <2>2, <2>3, CalmThread
  <2> QED BY <1>3, <2>1, <2>4 DEF StartPlay, Quiet, SameGhost, Still
<1>4. CASE StartRecording \/ StopRecording \/ ClickShutDown
  <2>1. ui'.todo = ui.todo /\ ui.pc \notin Unsent
    BY <1>1, <1>4 DEF StartRecording, StopRecording, ClickShutDown, Ui, UiGo, UiType, Unsent,
       Clearing
  <2>2. UNCHANGED <<session, net, ghost, thread>> /\ (connected' => connected)
    BY <1>4 DEF StartRecording, StopRecording, ClickShutDown, bufferVars
  <2> QED BY <2>1, <2>2 DEF Quiet, SameGhost, Calm, Still
<1>5. CASE RecorderFails
  <2>1. SameGhost
    BY <1>1, <1>5 DEF RecorderFails, GhostType, SameGhost
  <2> QED BY <1>5, <2>1 DEF RecorderFails, bufferVars, Quiet, Calm, Still
<1>6. CASE OnRecordingStopped
  BY <1>6 DEF OnRecordingStopped, bufferVars, Quiet, SameGhost, Calm, Still
<1>7. CASE ReceiveFrom
  <2>1. Producer \in Threads /\ "dgram" \in Queues
    BY DEF Threads, Queues
  <2>2. Others("dgram", Producer)
    BY <1>1, <1>7, <2>1 DEF ReceiveFrom, Becomes, QueueTypes, Others
  <2>3. Calm
    BY <2>1, <2>2, CalmThread
  <2> QED BY <1>7, <2>3 DEF ReceiveFrom, Quiet, SameGhost, Still
<1>8. CASE SystemThrows
  BY <1>8 DEF SystemThrows, Quiet, SameGhost, Calm, Still
<1> QED BY <1>2, <1>3, <1>4, <1>5, <1>6, <1>7, <1>8

(* The threads within YHbuffer and in their loops.                         *)
LEMMA QuietThread ==
    ASSUME Base, Still,
           \/ \E q \in Queues, t \in Threads : QueueStep(q, t) /\ OutsideUnchanged
           \/ \E q \in Queues, s \in Sessions :
                 Use(q, s) \/ (TestFlag(q, s) /\ (q = "dgram" \/ Flag(q)))
    PROVE  Quiet
<1>0. \A s \in Sessions : s \in Threads
  BY DEF Threads
<1>1. ASSUME NEW q \in Queues, NEW t \in Threads, QueueStep(q, t), OutsideUnchanged
      PROVE  Quiet
  <2>1. Kept(q, t)
    BY <1>1, QueueStepKept DEF Base, Typed, Room
  <2>2. Calm
    BY <2>1, CalmThread DEF Kept, InQueue
  <2> QED BY <1>1, <2>2 DEF OutsideUnchanged, Quiet, SameGhost, Still
<1>2. ASSUME NEW q \in Queues, NEW s \in Sessions, Use(q, s)
      PROVE  Quiet
  <2>1. thread[q][s].pc \in InLoop /\ (thread'[q][s].pc = "test" => thread'[q][s].pc \in InLoop)
    BY <1>2, UseEffect DEF InLoop
  <2>2. Calm
    <3>1. CASE thread' = thread
      BY <3>1 DEF Calm
    <3>2. CASE Others(q, s) /\ thread'[q][s].pc = "test" /\ thread'[q][s].left = thread[q][s].left
      BY <1>0, <2>1, <3>2, CalmThread
    <3> QED BY <1>2, <3>1, <3>2, UseEffect
  <2>3. SameGhost
    <3>1. ghost' = ghost \/ ghost' = [ghost EXCEPT !.sent = s]
      BY <1>2, UseEffect
    <3> QED BY <3>1 DEF Base, Typed, GhostType, SameGhost
  <2> QED BY <1>2, <2>2, <2>3 DEF Use, ThreadUnchanged, Quiet, Still
<1>3. ASSUME NEW q \in Queues, NEW s \in Sessions, TestFlag(q, s), q = "dgram" \/ Flag(q)
      PROVE  Quiet
  <2>1. CASE q = "dgram"
    <3>1. Calm
      BY <1>0, <1>3, <2>1, TestFlagEffect, CalmThread
    <3> QED BY <1>3, <3>1 DEF TestFlag, ThreadUnchanged, Quiet, SameGhost, Still
  <2>2. CASE Flag(q)
    <3>1. thread[q][s].pc \in InLoop /\ thread'[q][s].pc \in InLoop
      BY <1>3, <2>2, TestFlagEffect DEF InLoop
    <3>2. Calm
      BY <1>0, <1>3, <2>2, <3>1, TestFlagEffect, CalmThread
    <3> QED BY <1>3, <3>2 DEF TestFlag, ThreadUnchanged, Quiet, SameGhost, Still
  <2> QED BY <1>3, <2>1, <2>2
<1> QED BY <1>1, <1>2, <1>3

-----------------------------------------------------------------------------
(* The UI thread's other steps.                                            *)

(* The numbers and sequences of the commands.                              *)
LEMMA NetTypes ==
    ASSUME Base
    PROVE  /\ net \in Seq({"AT1", "AT2"} \X Sessions) /\ Len(net) \in Nat
           /\ session \in Nat /\ session <= MaxSessions /\ MaxSessions \in Nat
           /\ loss \in Nat /\ ShutDowns \in Nat /\ ghost.callbacks \in Nat
           /\ \A s \in Sessions : /\ s \in Nat /\ s > 0 /\ s \in Threads /\ s # Producer
                                  /\ thread["rec"][s].left \in Nat
           /\ \A i \in 1..Len(net) : net[i] \in {"AT1", "AT2"} \X Sessions /\ net[i][2] \in Nat
<1>1. /\ net \in Seq({"AT1", "AT2"} \X Sessions) /\ session \in 0..MaxSessions
      /\ loss \in 0..scenario.loss /\ scenario \in Scenarios /\ QueueTypes
  BY DEF Base, Typed
<1>2. MaxSessions \in Nat /\ scenario.loss \in Nat /\ ShutDowns \in Nat
  BY <1>1, YHbufferAssumption, ShutDownsAssumption
<1>3. \A s \in Sessions : s \in Nat /\ s > 0 /\ s \in Threads /\ s # Producer
  BY <1>2 DEF Sessions, Threads, Producer
<1>4. ASSUME NEW s \in Sessions PROVE thread["rec"][s].left \in Nat
  <2>1. thread["rec"][s] \in ThreadType
    BY <1>1, <1>3 DEF QueueTypes, Queues
  <2> QED BY <1>2, <2>1 DEF ThreadType
<1>5. \A i \in 1..Len(net) : net[i] \in {"AT1", "AT2"} \X Sessions
  BY <1>1
<1>6. \A i \in 1..Len(net) : net[i][2] \in Nat
  BY <1>3, <1>5
<1> QED BY <1>1, <1>2, <1>3, <1>4, <1>5, <1>6, ControlBooleans DEF Base

(* A new session: its thread has not been started, and the commands in the *)
(* network are of earlier ones.                                            *)
LEMMA CommandsClickStart ==
    ASSUME Base, Sending, Commands, ClickStart
    PROVE  Sending' /\ Commands'
<1>1. /\ ui.pc = "idle" /\ session' = session + 1 /\ UNCHANGED <<net, thread>>
      /\ ui'.pc = "array" /\ ui'.todo = ui.todo
      /\ ghost'.at1 = "unsent" /\ ghost'.recorded = FALSE
  BY DEF ClickStart, Ui, bufferVars, Base, Typed, UiType, GhostType
<1>2. ui.todo = <<>>
  BY <1>1 DEF Base, Room
<1>3. \A s \in Sessions : s > session => thread["rec"][s].pc = "none"
  BY DEF Sending
<1>4. \A s \in Sessions : s > session' \/ s = session' => thread["rec"][s].pc = "none"
  BY <1>1, <1>3, NetTypes
<1>5. Sending'
  <2>1. \A i \in 1..Len(ui'.todo) : FALSE
    BY <1>1, <1>2
  <2>2. \A s \in Sessions : /\ thread["rec"][s].pc = "end" => thread["rec"][s].left = 0
                            /\ thread["rec"][s].pc \in InLoop \cup Quit \cup {"none"}
    BY DEF Sending
  <2> QED BY <1>1, <1>4, <2>1, <2>2 DEF Sending, Quit
<1>6. Commands'
  <2>1. \A i \in 1..Len(net) : net[i][2] <= session /\ net[i][2] \in Nat
    BY NetTypes DEF Commands
  <2>2. \A i \in 1..Len(net) : net[i][2] <= session + 1 /\ net[i][2] # session + 1
    BY <2>1, NetTypes
  <2>3. \A i \in 1..Len(net') : net'[i][2] <= session' /\ net'[i] # <<"AT2", session'>>
    BY <1>1, <2>2
  <2>4. \A s \in Sessions : s = session' => thread'["rec"][s].pc \notin Quit
    BY <1>1, <1>4 DEF Quit
  <2> QED BY <1>1, <2>3, <2>4 DEF Commands, Unsent, Clearing
<1> QED BY <1>5, <1>6

(* AT1 goes out before the session can have sent an AT2.                   *)
LEMMA CommandsLineEstablish ==
    ASSUME Base, Sending, Commands, LineEstablish
    PROVE  Sending' /\ Commands'
<1>1. /\ ui.pc = "establish" /\ UNCHANGED <<session, thread, connected, scenario>>
      /\ net' = Append(net, <<"AT1", session>>) /\ ui'.todo = ui.todo
      /\ ghost'.at1 = "sent" /\ ghost'.recorded = ghost.recorded
      /\ ghost'.callbacks = ghost.callbacks /\ ghost'.failed = ghost.failed
  BY DEF LineEstablish, Ui, UiGo, bufferVars, Base, Typed, UiType, GhostType
<1>2. session \in Sessions
  BY <1>1, NetTypes DEF Base, Control, Sessions
<1>3. thread["rec"][session].pc = "none"
  <2>1. ghost.callbacks = 0
    BY <1>1 DEF Base, Control, Starting
  <2>2. ~ghost.recorded
    BY <2>1 DEF Sending
  <2> QED BY <1>2, <2>2 DEF Sending
<1>4. \A i \in 1..Len(net) : net[i] # <<"AT2", session>>
  BY <1>2, <1>3 DEF Commands, Quit
<1>5. /\ Len(net') = Len(net) + 1 /\ net'[Len(net) + 1] = <<"AT1", session>>
      /\ \A i \in 1..Len(net) : net'[i] = net[i]
  <2>1. <<"AT1", session>> \in {"AT1", "AT2"} \X Sessions
    BY <1>2
  <2> QED BY <1>1, <2>1, NetTypes, AppendProperties
<1>6. \A i \in 1..Len(net') : i \in 1..Len(net) \/ i = Len(net) + 1
  BY <1>5, NetTypes
<1>7. \A i \in 1..Len(net') : net'[i] # <<"AT2", session>>
  BY <1>4, <1>5, <1>6
<1>8. \A i \in 1..Len(net') : net'[i][2] <= session
  <2>1. <<"AT1", session>>[2] <= session
    BY NetTypes
  <2> QED BY <1>5, <1>6, <2>1 DEF Commands
<1>9. \E i \in 1..Len(net') : net'[i] = <<"AT1", session>>
  <2>1. Len(net) + 1 \in 1..Len(net')
    BY <1>5, NetTypes
  <2> QED BY <1>5, <2>1
<1>10. \A s \in Sessions : s = session' => thread'["rec"][s].pc \notin Quit
  BY <1>1, <1>3 DEF Quit
<1>11. Commands'
  BY <1>1, <1>7, <1>8, <1>9, <1>10 DEF Commands
<1>12. Sending'
  BY <1>1 DEF Sending
<1> QED BY <1>11, <1>12

(* The header comes first, and only in the callback that starts the        *)
(* recording.                                                              *)
LEMMA CommandsDataAvailable ==
    ASSUME Base, Sending, Commands, DataAvailable, Still
    PROVE  Sending' /\ Commands'
<1>1. /\ UNCHANGED <<session, connected, net, line, loss>>
      /\ ghost'.at1 = ghost.at1 /\ ghost'.late = ghost.late /\ ghost'.failed = ghost.failed
      /\ ghost'.recorded = ghost.recorded /\ ghost'.callbacks = ghost.callbacks + 1
  BY DataAvailableEffect DEF DataAvailable, Still, Base, Typed, GhostType
<1>2. ui.pc \notin Unsent /\ ui'.todo = Callback
  BY DataAvailableEffect DEF Unsent, Clearing
<1>3. \A s \in Sessions : thread'["rec"][s] = thread["rec"][s]
  BY DataAvailableEffect, NetTypes DEF Others, Queues
<1>4. \A i \in 1..Len(Callback) : Callback[i] = Header(session) => i = 1 /\ ~ghost.recorded
  <2>0. Header(session) # Half(session)
    BY DEF Header, Half
  <2>1. CASE lineSnd
    <3>1. Callback = <<Half(session), Half(session)>>
      BY <2>1 DEF Callback
    <3>2. Len(Callback) = 2 /\ Callback[1] = Half(session) /\ Callback[2] = Half(session)
      BY <3>1
    <3>3. \A i \in 1..Len(Callback) : i = 1 \/ i = 2
      BY <3>2
    <3> QED BY <2>0, <3>2, <3>3
  <2>2. CASE ~lineSnd
    <3>1. Callback = <<Header(session), Half(session), Half(session)>>
      BY <2>2 DEF Callback
    <3>2. /\ Len(Callback) = 3 /\ Callback[2] = Half(session) /\ Callback[3] = Half(session)
      BY <3>1
    <3>3. \A i \in 1..Len(Callback) : i = 1 \/ i = 2 \/ i = 3
      BY <3>2
    <3>4. ~ghost.recorded
      <4>1. ~(ghost.callbacks > 0)
        BY <2>2, DataAvailableEffect DEF Base, Control
      <4> QED BY <4>1 DEF Sending
    <3> QED BY <2>0, <3>2, <3>3, <3>4
  <2> QED BY <2>1, <2>2, ControlBooleans DEF Base
<1>5. Sending'
  <2>1. ghost'.recorded => ghost'.callbacks > 0 /\ session' > 0
    BY <1>1, NetTypes DEF Sending
  <2>2. \A i \in 1..Len(ui'.todo) : ui'.todo[i] = Header(session') => i = 1 /\ ~ghost'.recorded
    BY <1>1, <1>2, <1>4
  <2> QED BY <1>1, <1>3, <2>1, <2>2 DEF Sending
<1>6. Commands'
  <2>1. \A s \in Sessions : Down(s) => Down(s)'
    BY <1>1, <1>3 DEF Down
  <2> QED BY <1>1, <1>2, <1>3, <2>1 DEF Commands
<1> QED BY <1>5, <1>6

(* The header in the queue, the sending thread of the session begins.      *)
LEMMA CommandsEnqueued ==
    ASSUME Base, Sending, Commands, Enqueued, Still
    PROVE  Sending' /\ Commands'
<1> DEFINE starts == Head(ui.todo) = Header(session)
<1>1. /\ UNCHANGED <<session, connected, net, line, loss>> /\ ghost \in GhostType
      /\ ui.todo \in Seq(BlockType) /\ ui.todo # <<>> /\ ui'.todo = Tail(ui.todo)
      /\ ui.pc = "enqueue" /\ session \in Sessions
  BY EnqueuedEffect DEF Enqueued, Still, Base, Typed, UiType
<1>2. /\ ghost'.at1 = ghost.at1 /\ ghost'.late = ghost.late /\ ghost'.failed = ghost.failed
      /\ ghost'.callbacks = ghost.callbacks /\ ghost'.recorded = (ghost.recorded \/ starts)
  <2>1. CASE starts
    <3>1. ghost' = [ghost EXCEPT !.recorded = TRUE,
                       !.overlap = @ \cup {q \in {"rec"} : Running(q) # {}}]
      BY <2>1, EnqueuedEffect
    <3> QED BY <1>1, <2>1, <3>1 DEF GhostType
  <2>2. CASE ~starts
    <3>1. ghost' = ghost
      BY <2>2, EnqueuedEffect
    <3> QED BY <1>1, <2>2, <3>1 DEF GhostType
  <2> QED BY <2>1, <2>2
<1>3. ghost.callbacks > 0
  BY <1>1 DEF Base, Control
<1>4. /\ Len(ui.todo) \in Nat /\ Len(ui.todo) > 0 /\ Len(Tail(ui.todo)) = Len(ui.todo) - 1
      /\ Head(ui.todo) = ui.todo[1] /\ 1 \in 1..Len(ui.todo)
      /\ \A i \in 1..(Len(ui.todo) - 1) : Tail(ui.todo)[i] = ui.todo[i + 1]
  BY <1>1, HeadTailProperties, EmptySeq
<1>5. \A i \in 1..Len(ui'.todo) : ui'.todo[i] # Header(session)
  <2> SUFFICES ASSUME NEW i \in 1..Len(Tail(ui.todo)) PROVE Tail(ui.todo)[i] # Header(session)
    BY <1>1
  <2>1. i + 1 \in 1..Len(ui.todo) /\ i + 1 # 1 /\ Tail(ui.todo)[i] = ui.todo[i + 1]
    BY <1>4
  <2> QED BY <2>1 DEF Sending
<1>6. \A s \in Sessions : s # session => thread'["rec"][s] = thread["rec"][s]
  BY EnqueuedEffect, NetTypes DEF Queues
<1>7. /\ ~starts => thread'["rec"][session] = thread["rec"][session]
      /\ starts => /\ ~ghost.recorded /\ thread["rec"][session].pc = "none"
                   /\ thread'["rec"][session].pc = "test"
  <2>1. CASE starts
    <3>1. ~ghost.recorded
      BY <1>4, <2>1 DEF Sending
    <3>2. thread["rec"][session].pc = "none" /\ thread["rec"][session] \in ThreadType
      BY <1>1, <3>1, NetTypes DEF Sending, Base, Typed, QueueTypes, Queues
    <3>3. thread'["rec"][session].pc = "test"
      BY <2>1, <3>2, EnqueuedEffect DEF ThreadType
    <3> QED BY <2>1, <3>1, <3>2, <3>3
  <2>2. CASE ~starts
    BY <2>2, EnqueuedEffect
  <2> QED BY <2>1, <2>2
<1> HIDE DEF starts
<1>8. Sending'
  <2>1. ASSUME NEW s \in Sessions
        PROVE  /\ s > session => thread'["rec"][s].pc = "none"
               /\ s = session /\ ~ghost'.recorded => thread'["rec"][s].pc = "none"
               /\ s = session /\ ghost'.recorded => thread'["rec"][s].pc # "none"
               /\ s = session /\ connected /\ thread'["rec"][s].pc \in Quit => ghost.failed
               /\ thread'["rec"][s].pc = "end" => thread'["rec"][s].left = 0
               /\ thread'["rec"][s].pc \in InLoop \cup Quit \cup {"none"}
    <3>1. CASE s # session
      BY <1>6, <3>1 DEF Sending
    <3>2. CASE s = session /\ starts
      <4>1. ghost'.recorded /\ thread'["rec"][s].pc = "test"
        BY <1>2, <1>7, <3>2
      <4>2. ~(s > session)
        BY <3>2, NetTypes
      <4> QED BY <4>1, <4>2 DEF Quit, InLoop
    <3>3. CASE s = session /\ ~starts
      BY <1>2, <1>7, <3>3 DEF Sending
    <3> QED BY <3>1, <3>2, <3>3
  <2>2. ghost'.callbacks > 0 /\ session' > 0
    BY <1>1, <1>2, <1>3, NetTypes
  <2> QED BY <1>1, <1>2, <1>5, <2>1, <2>2 DEF Sending
<1>9. \A s \in Sessions : s = session =>
         /\ thread'["rec"][s].pc \in Quit <=> thread["rec"][s].pc \in Quit
         /\ thread["rec"][s].pc \in Quit => thread'["rec"][s].left = thread["rec"][s].left
  BY <1>7 DEF Quit
<1>10. Commands'
  <2>1. ASSUME NEW s \in Sessions, s = session', thread'["rec"][s].pc \in Quit
        PROVE  Down(s)'
    BY <1>1, <1>9, <2>1 DEF Commands, Down
  <2>2. ui.pc \notin Unsent
    BY <1>1 DEF Unsent, Clearing
  <2> QED BY <1>1, <1>2, <1>9, <2>1, <2>2 DEF Commands
<1> QED BY <1>8, <1>10

-----------------------------------------------------------------------------
(* The sending threads.                                                    *)

(* A sending thread that has been started goes a step.                     *)
LEMMA SendingStep ==
    ASSUME Base, Sending, NEW s \in Sessions,
           UNCHANGED <<session, connected, ui, ghost>>, Others("rec", s),
           thread["rec"][s].pc # "none", thread'["rec"][s].pc \in Quit,
           thread["rec"][s].pc \in Quit \/ ~lineSnd,
           thread'["rec"][s].pc = "end" => thread'["rec"][s].left = 0
    PROVE  Sending'
<1>1. s = session /\ connected => ghost.failed
  <2> SUFFICES ASSUME s = session, connected, ~lineSnd
               PROVE  ghost.failed
    BY DEF Sending
  <2>1. ghost.recorded /\ ghost.callbacks > 0
    BY DEF Sending
  <2>2. ui.pc \notin Starting
    <3>1. ghost.callbacks # 0
      BY <2>1, NetTypes
    <3> QED BY <3>1 DEF Base, Control
  <2>3. ~ghost.failed => waveIn = "recording"
    BY <2>2 DEF Base, Control
  <2>4. waveIn = "recording" => lineSnd
    BY <2>1 DEF Base, Control
  <2> QED BY <2>3, <2>4
<1>2. ASSUME NEW r \in Sessions
      PROVE  /\ r > session => thread'["rec"][r].pc = "none"
             /\ r = session /\ ~ghost.recorded => thread'["rec"][r].pc = "none"
             /\ r = session /\ ghost.recorded => thread'["rec"][r].pc # "none"
             /\ r = session /\ connected /\ thread'["rec"][r].pc \in Quit => ghost.failed
             /\ thread'["rec"][r].pc = "end" => thread'["rec"][r].left = 0
             /\ thread'["rec"][r].pc \in InLoop \cup Quit \cup {"none"}
  <2>1. CASE r = s
    <3>1. ~(s > session) /\ ~(s = session /\ ~ghost.recorded)
      BY DEF Sending
    <3>2. thread'["rec"][s].pc # "none"
      BY DEF Quit
    <3> QED BY <1>1, <2>1, <3>1, <3>2
  <2>2. CASE r # s
    <3>1. thread'["rec"][r] = thread["rec"][r]
      BY <2>2, NetTypes DEF Others, Queues
    <3> QED BY <3>1 DEF Sending
  <2> QED BY <2>1, <2>2
<1> QED BY <1>2 DEF Sending

(* The sending thread leaves its loop.                                     *)
LEMMA CommandsTest ==
    ASSUME Base, Sending, Commands, Still, NEW s \in Sessions, TestFlag("rec", s), ~lineSnd
    PROVE  Sending' /\ Commands'
<1>1. /\ thread["rec"][s].pc = "test" /\ UNCHANGED <<net, ghost, line, loss, session, connected, ui>>
      /\ thread'["rec"][s].pc = "shut" /\ thread'["rec"][s].left = ShutDowns
      /\ Others("rec", s)
  <2>1. ~Flag("rec") /\ "rec" \in Queues
    BY DEF Flag, Queues
  <2> QED BY <2>1, TestFlagEffect DEF TestFlag, ThreadUnchanged, Still
<1>2. thread["rec"][s].pc \notin Quit /\ thread'["rec"][s].pc \in Quit
  BY <1>1 DEF Quit
<1>3. \A r \in Sessions : r # s => thread'["rec"][r] = thread["rec"][r]
  BY <1>1, NetTypes DEF Others, Queues
<1>4. Sending'
  BY <1>1, <1>2, SendingStep
<1>5. Commands'
  <2>1. \A r \in Sessions, i \in 1..Len(net') :
           r = session' /\ net'[i] = <<"AT2", r>> => thread'["rec"][r].pc \in Quit
    BY <1>1, <1>2, <1>3 DEF Commands
  <2>2. Down(s)'
    <3>1. /\ Cardinality(Positions(net, <<"AT2", s>>)) \in Nat
      BY NetTypes, PositionsFinite
    <3>2. ShutDowns <= Cardinality(Positions(net, <<"AT2", s>>)) + loss + ShutDowns
      BY <3>1, NetTypes
    <3> QED BY <1>1, <3>2 DEF Down
  <2>3. ASSUME NEW r \in Sessions, r = session', thread'["rec"][r].pc \in Quit
        PROVE  Down(r)'
    <3>1. CASE r = s
      BY <2>2, <3>1
    <3>2. CASE r # s
      <4>1. thread'["rec"][r] = thread["rec"][r]
        BY <1>3, <3>2
      <4>2. Down(r)
        BY <1>1, <2>3, <4>1 DEF Commands
      <4> QED BY <1>1, <4>1, <4>2 DEF Down
    <3> QED BY <3>1, <3>2
  <2>4. /\ \A i \in 1..Len(net') : net'[i][2] <= session'
        /\ ghost'.at1 = "unsent" => session' = 0 \/ ui'.pc \in Unsent
        /\ ghost'.at1 = "sent" => \E i \in 1..Len(net') : net'[i] = <<"AT1", session'>>
        /\ ghost'.at1 = "received" /\ connected' /\ ~ghost'.late /\ ~ghost'.failed => line'
        /\ \A i, j \in 1..Len(net') : i < j /\ net'[i] = <<"AT2", session'>> => net'[j][1] # "AT1"
    BY <1>1 DEF Commands
  <2> QED BY <2>1, <2>3, <2>4 DEF Commands
<1> QED BY <1>4, <1>5

(* A sending thread shuts the line down.                                   *)
LEMMA CommandsShutDown ==
    ASSUME Base, Sending, Commands, Still, NEW s \in Sessions, LineShutDown(s)
    PROVE  Sending' /\ Commands'
<1> DEFINE P == {"AT1", "AT2"} \X Sessions
           e == <<"AT2", s>>
           count(n) == Cardinality(Positions(n, e))
<1>1. /\ thread["rec"][s].pc = "shut" /\ thread["rec"][s].left > 0
      /\ thread'["rec"][s].left = thread["rec"][s].left - 1
      /\ thread'["rec"][s].pc = (IF thread["rec"][s].left = 1 THEN "end" ELSE "shut")
      /\ Others("rec", s) /\ net' = Append(net, e)
      /\ UNCHANGED <<line, loss, session, connected, ui, ghost>>
  BY LineShutDownEffect DEF LineShutDown, ThreadUnchanged, Still
<1>2. \A r \in Sessions : r # s => thread'["rec"][r] = thread["rec"][r]
  BY <1>1, NetTypes DEF Others, Queues
<1>3. net \in Seq(P) /\ e \in P
  BY NetTypes
<1>4. /\ Len(net') = Len(net) + 1 /\ net'[Len(net) + 1] = e
      /\ \A i \in 1..Len(net) : net'[i] = net[i]
  BY <1>1, <1>3, AppendProperties
<1>5. \A i \in 1..Len(net') : i \in 1..Len(net) \/ i = Len(net) + 1
  BY <1>4, NetTypes
<1>6. thread["rec"][s].pc \in Quit /\ thread'["rec"][s].pc \in Quit
  BY <1>1 DEF Quit
<1>7. s <= session
  <2>1. thread["rec"][s].pc # "none"
    BY <1>1
  <2>2. ~(s > session)
    BY <2>1 DEF Sending
  <2> QED BY <2>2, NetTypes
<1>8. \A i \in 1..Len(net') : net'[i][2] <= session'
  BY <1>1, <1>4, <1>5, <1>7 DEF Commands
<1>9. ASSUME NEW r \in Sessions, NEW i \in 1..Len(net'), r = session', net'[i] = <<"AT2", r>>
      PROVE  thread'["rec"][r].pc \in Quit
  <2>1. CASE r = s
    BY <1>6, <2>1
  <2>2. CASE r # s
    <3>1. net'[i] # e
      BY <1>9, <2>2
    <3>2. i \in 1..Len(net) /\ net[i] = <<"AT2", r>>
      BY <1>4, <1>5, <1>9, <3>1
    <3>3. thread["rec"][r].pc \in Quit
      BY <1>1, <1>9, <3>2 DEF Commands
    <3> QED BY <1>2, <2>2, <3>3
  <2> QED BY <2>1, <2>2
<1>10. ghost'.at1 = "sent" => \E i \in 1..Len(net') : net'[i] = <<"AT1", session'>>
  <2> SUFFICES ASSUME ghost.at1 = "sent"
               PROVE  \E i \in 1..Len(net') : net'[i] = <<"AT1", session>>
    BY <1>1
  <2>1. PICK i \in 1..Len(net) : net[i] = <<"AT1", session>>
    BY DEF Commands
  <2>2. i \in 1..Len(net') /\ net'[i] = net[i]
    BY <1>4, NetTypes
  <2> QED BY <2>1, <2>2
<1>11. ASSUME NEW i \in 1..Len(net'), NEW j \in 1..Len(net'), i < j,
              net'[i] = <<"AT2", session'>>
       PROVE  net'[j][1] # "AT1"
  <2>1. CASE j = Len(net) + 1
    BY <1>4, <2>1
  <2>2. CASE j # Len(net) + 1
    <3>1. i \in 1..Len(net) /\ j \in 1..Len(net)
      BY <1>5, <1>11, <2>2, NetTypes
    <3> QED BY <1>1, <1>4, <1>11, <3>1 DEF Commands
  <2> QED BY <2>1, <2>2
<1>12. ASSUME NEW r \in Sessions, r = session', thread'["rec"][r].pc \in Quit
       PROVE  Down(r)'
  <2>1. thread["rec"][r].pc \in Quit /\ r = session
    BY <1>1, <1>2, <1>6, <1>12
  <2>2. Down(r)
    BY <2>1 DEF Commands
  <2>3. CASE ~line /\ \A i \in 1..Len(net) : net[i][1] # "AT1"
    <3>1. \A i \in 1..Len(net') : net'[i][1] # "AT1"
      BY <1>4, <1>5, <2>3
    <3> QED BY <1>1, <2>3, <3>1 DEF Down
  <2>4. CASE ShutDowns <= Cardinality(Positions(net, <<"AT2", r>>)) + loss + thread["rec"][r].left
    <3>1. CASE r = s
      <4>1. count(net') = count(net) + 1 /\ count(net) \in Nat
        BY <1>1, <1>3, PositionsAppend, PositionsFinite
      <4>2. ShutDowns <= count(net) + loss + thread["rec"][s].left
        BY <2>4, <3>1
      <4>3. thread["rec"][s].left \in Nat /\ loss \in Nat /\ ShutDowns \in Nat
        BY NetTypes
      <4> HIDE DEF count
      <4>4. ShutDowns <= count(net') + loss + thread'["rec"][s].left
        BY <1>1, <4>1, <4>2, <4>3
      <4> QED BY <1>1, <3>1, <4>4 DEF Down, count
    <3>2. CASE r # s
      <4> DEFINE before == Cardinality(Positions(net, <<"AT2", r>>))
                 after  == Cardinality(Positions(net', <<"AT2", r>>))
      <4>1. before <= after
        BY <1>1, <1>3, PositionsGrow
      <4>2. before \in Nat /\ after \in Nat
        <5>1. net' \in Seq(P)
          BY <1>1, <1>3, AppendProperties
        <5> QED BY <1>3, <5>1, PositionsFinite
      <4>3. thread'["rec"][r] = thread["rec"][r] /\ thread["rec"][r].left \in Nat
            /\ loss \in Nat /\ ShutDowns \in Nat
        BY <1>2, <3>2, NetTypes
      <4>4. ShutDowns <= before + loss + thread["rec"][r].left
        BY <2>4
      <4> HIDE DEF before, after
      <4>5. ShutDowns <= after + loss + thread'["rec"][r].left
        BY <4>1, <4>2, <4>3, <4>4
      <4> QED BY <1>1, <4>5 DEF Down, after
    <3> QED BY <3>1, <3>2
  <2> QED BY <2>2, <2>3, <2>4 DEF Down
<1>13. /\ ghost'.at1 = "unsent" => session' = 0 \/ ui'.pc \in Unsent
       /\ ghost'.at1 = "received" /\ connected' /\ ~ghost'.late /\ ~ghost'.failed => line'
  BY <1>1 DEF Commands
<1>14. \A r \in Sessions, i \in 1..Len(net') :
          r = session' /\ net'[i] = <<"AT2", r>> => thread'["rec"][r].pc \in Quit
  BY <1>9
<1>15. Commands'
  BY <1>8, <1>10, <1>11, <1>12, <1>13, <1>14 DEF Commands
<1>16. Sending'
  <2>1. thread'["rec"][s].pc = "end" => thread'["rec"][s].left = 0
    BY <1>1
  <2>2. thread["rec"][s].pc # "none"
    BY <1>1
  <2> QED BY <1>1, <1>6, <2>1, <2>2, SendingStep
<1> QED BY <1>15, <1>16

-----------------------------------------------------------------------------
(* The device and the network.                                             *)

(* They leave the sending threads alone.                                   *)
LEMMA SendingDevice ==
    ASSUME Sending, UNCHANGED <<session, connected, ui, thread>>,
           ghost'.recorded = ghost.recorded, ghost'.callbacks = ghost.callbacks,
           ghost'.failed = ghost.failed
    PROVE  Sending'
  BY DEF Sending

(* The oldest command leaves the network, whatever becomes of it.          *)
LEMMA CommandsTail ==
    ASSUME Base, Commands, net # <<>>, net' = Tail(net),
           UNCHANGED <<session, thread, ui>>,
           \/ Head(net) # <<"AT1", session>> /\ ghost'.at1 = ghost.at1
           \/ Head(net) = <<"AT1", session>> /\ ghost'.at1 \in {"received", "lost"}
    PROVE  /\ Head(net) = net[1] /\ 1 \in 1..Len(net) /\ net' \in Seq({"AT1", "AT2"} \X Sessions)
           /\ Len(net') = Len(net) - 1
           /\ \A i \in 1..Len(net') : net'[i] = net[i + 1] /\ i + 1 \in 1..Len(net)
           /\ \A i \in 1..Len(net') : net'[i][2] <= session'
           /\ \A s \in Sessions, i \in 1..Len(net') :
                 s = session' /\ net'[i] = <<"AT2", s>> => thread'["rec"][s].pc \in Quit
           /\ ghost'.at1 = "unsent" => session' = 0 \/ ui'.pc \in Unsent
           /\ ghost'.at1 = "sent" => \E i \in 1..Len(net') : net'[i] = <<"AT1", session'>>
           /\ \A i, j \in 1..Len(net') :
                 i < j /\ net'[i] = <<"AT2", session'>> => net'[j][1] # "AT1"
<1>1. /\ Len(net') = Len(net) - 1 /\ Len(net') \in Nat /\ net' \in Seq({"AT1", "AT2"} \X Sessions)
      /\ Head(net) = net[1] /\ \A i \in 1..Len(net') : net'[i] = net[i + 1]
  BY NetTypes, HeadTailProperties, EmptySeq
<1>2. 1 \in 1..Len(net) /\ \A i \in 1..Len(net') : i + 1 \in 1..Len(net)
  BY <1>1, NetTypes
<1>3. ghost'.at1 = "sent" => \E i \in 1..Len(net') : net'[i] = <<"AT1", session'>>
  <2> SUFFICES ASSUME ghost'.at1 = "sent"
               PROVE  \E i \in 1..Len(net') : net'[i] = <<"AT1", session>>
    OBVIOUS
  <2>1. Head(net) # <<"AT1", session>> /\ ghost.at1 = "sent"
    OBVIOUS
  <2>2. PICK i \in 1..Len(net) : net[i] = <<"AT1", session>>
    BY <2>1 DEF Commands
  <2>3. i # 1
    BY <1>1, <2>1, <2>2
  <2>4. i - 1 \in 1..Len(net') /\ (i - 1) + 1 = i
    BY <1>1, <2>3, NetTypes
  <2> QED BY <1>1, <2>2, <2>4
<1>4. \A i \in 1..Len(net') : net'[i][2] <= session'
  BY <1>1, <1>2 DEF Commands
<1>5. \A s \in Sessions, i \in 1..Len(net') :
         s = session' /\ net'[i] = <<"AT2", s>> => thread'["rec"][s].pc \in Quit
  BY <1>1, <1>2 DEF Commands
<1>6. ghost'.at1 = "unsent" => session' = 0 \/ ui'.pc \in Unsent
  BY DEF Commands
<1>7. ASSUME NEW i \in 1..Len(net'), NEW j \in 1..Len(net'), i < j,
             net'[i] = <<"AT2", session'>>
      PROVE  net'[j][1] # "AT1"
  <2>1. i + 1 \in 1..Len(net) /\ j + 1 \in 1..Len(net) /\ i + 1 < j + 1
    BY <1>2, <1>7
  <2>2. net[i + 1] = <<"AT2", session>> /\ net'[j] = net[j + 1]
    BY <1>1, <1>7
  <2> QED BY <2>1, <2>2 DEF Commands
<1> QED BY <1>1, <1>2, <1>3, <1>4, <1>5, <1>6, <1>7

(* Down survives the loss of a command of another kind, and of one of its  *)
(* own that the network loses.                                             *)
LEMMA DownTail ==
    ASSUME Base, NEW s \in Sessions, net # <<>>, net' = Tail(net), thread' = thread,
           \/ loss' = loss + 1
           \/ loss' = loss /\ Head(net) # <<"AT2", s>>,
           ShutDowns <= Cardinality(Positions(net, <<"AT2", s>>)) + loss + thread["rec"][s].left
    PROVE  Down(s)'
<1> DEFINE before == Cardinality(Positions(net, <<"AT2", s>>))
           after  == Cardinality(Positions(net', <<"AT2", s>>))
<1>1. /\ before <= after + 1
      /\ Head(net) # <<"AT2", s>> => before <= after
  BY NetTypes, PositionsTail
<1>2. before \in Nat /\ after \in Nat
  <2>1. net' \in Seq({"AT1", "AT2"} \X Sessions)
    BY NetTypes, HeadTailProperties
  <2> QED BY <2>1, NetTypes, PositionsFinite
<1>3. thread["rec"][s].left \in Nat /\ loss \in Nat /\ ShutDowns \in Nat
  BY NetTypes
<1>4. ShutDowns <= before + loss + thread["rec"][s].left
  OBVIOUS
<1> HIDE DEF before, after
<1>5. ShutDowns <= after + loss' + thread["rec"][s].left
  <2>1. CASE loss' = loss + 1
    BY <1>1, <1>2, <1>3, <1>4, <2>1
  <2>2. CASE loss' = loss /\ Head(net) # <<"AT2", s>>
    BY <1>1, <1>2, <1>3, <1>4, <2>2
  <2> QED BY <2>1, <2>2
<1> QED BY <1>5 DEF Down, after

(* The device handles the oldest command.                                  *)
LEMMA CommandsReceive ==
    ASSUME Base, Sending, Commands, DeviceReceive
    PROVE  Sending' /\ Commands'
<1> DEFINE first == Head(net)
<1>1. /\ net # <<>> /\ net' = Tail(net) /\ line' = (first[1] = "AT1")
      /\ UNCHANGED <<loss, session, connected, ui, thread>>
      /\ ghost'.recorded = ghost.recorded /\ ghost'.callbacks = ghost.callbacks
      /\ ghost'.failed = ghost.failed
      /\ ghost'.late = (ghost.late \/ (first[1] # "AT1" /\ first[2] < session
                                         /\ ghost.at1 = "received"))
      /\ ghost'.at1 = IF first[1] = "AT1" /\ first[2] = session THEN "received" ELSE ghost.at1
  BY DEF DeviceReceive, pcVars, bufferVars, Base, Typed, GhostType
<1>2. first = net[1] /\ 1 \in 1..Len(net)
  BY <1>1, NetTypes, HeadTailProperties, EmptySeq
<1>3. first \in {"AT1", "AT2"} \X Sessions /\ first = <<first[1], first[2]>>
  BY <1>2, NetTypes
<1>4. \/ first # <<"AT1", session>> /\ ghost'.at1 = ghost.at1
      \/ first = <<"AT1", session>> /\ ghost'.at1 \in {"received", "lost"}
  BY <1>1, <1>3
<1>5. /\ Len(net') = Len(net) - 1
      /\ \A i \in 1..Len(net') : net'[i] = net[i + 1] /\ i + 1 \in 1..Len(net)
      /\ \A i \in 1..Len(net') : net'[i][2] <= session'
      /\ \A s \in Sessions, i \in 1..Len(net') :
            s = session' /\ net'[i] = <<"AT2", s>> => thread'["rec"][s].pc \in Quit
      /\ ghost'.at1 = "unsent" => session' = 0 \/ ui'.pc \in Unsent
      /\ ghost'.at1 = "sent" => \E i \in 1..Len(net') : net'[i] = <<"AT1", session'>>
      /\ \A i, j \in 1..Len(net') :
            i < j /\ net'[i] = <<"AT2", session'>> => net'[j][1] # "AT1"
  BY <1>1, <1>4, CommandsTail
<1> HIDE DEF first
<1>6. line' <=> first[1] = "AT1"
  BY <1>1, Zenon
<1>7. ghost'.at1 = "received" /\ connected' /\ ~ghost'.late /\ ~ghost'.failed => line'
  <2> SUFFICES ASSUME ghost'.at1 = "received", connected, ~ghost'.late, ~ghost.failed,
                      first[1] # "AT1"
               PROVE  FALSE
    BY <1>1, <1>6
  <2>1. first[1] = "AT2" /\ ghost.at1 = "received" /\ first[2] \in Sessions
    BY <1>1, <1>3
  <2>2. ~(first[2] < session)
    BY <1>1, <2>1
  <2>3. first[2] <= session
    BY <1>2 DEF Commands
  <2>4. first[2] = session
    BY <2>1, <2>2, <2>3, NetTypes
  <2>5. net[1] = <<"AT2", session>> /\ session \in Sessions
    BY <1>2, <1>3, <2>1, <2>4
  <2>6. thread["rec"][session].pc \in Quit
    BY <1>2, <2>5 DEF Commands
  <2> QED BY <2>5, <2>6 DEF Sending
<1>8. ASSUME NEW s \in Sessions, s = session', thread'["rec"][s].pc \in Quit
      PROVE  Down(s)'
  <2>1. s = session /\ Down(s)
    BY <1>1, <1>8 DEF Commands
  <2>2. CASE ~line /\ \A i \in 1..Len(net) : net[i][1] # "AT1"
    <3>1. ~line' /\ \A i \in 1..Len(net') : net'[i][1] # "AT1"
      BY <1>2, <1>5, <1>6, <2>2
    <3> QED BY <3>1 DEF Down
  <2>3. CASE first = <<"AT2", s>>
    <3>1. ~line'
      <4>1. first[1] # "AT1"
        BY <2>3
      <4> QED BY <1>6, <4>1
    <3>2. ASSUME NEW i \in 1..Len(net')
          PROVE  net'[i][1] # "AT1"
      <4>1. i + 1 \in 1..Len(net) /\ 1 < i + 1 /\ net'[i] = net[i + 1]
        BY <1>5
      <4>2. net[1] = <<"AT2", session>>
        BY <1>2, <2>1, <2>3
      <4> QED BY <1>2, <4>1, <4>2 DEF Commands
    <3> QED BY <3>1, <3>2 DEF Down
  <2>4. CASE /\ first # <<"AT2", s>>
             /\ ShutDowns <= Cardinality(Positions(net, <<"AT2", s>>)) + loss + thread["rec"][s].left
    BY <1>1, <2>4, DownTail DEF first
  <2> QED BY <2>1, <2>2, <2>3, <2>4 DEF Down
<1>9. Commands'
  BY <1>5, <1>7, <1>8 DEF Commands
<1>10. Sending'
  BY <1>1, SendingDevice
<1> QED BY <1>9, <1>10

(* The network loses the oldest command.                                   *)
LEMMA CommandsLose ==
    ASSUME Base, Sending, Commands, NetLose
    PROVE  Sending' /\ Commands'
<1>1. /\ net # <<>> /\ net' = Tail(net) /\ loss' = loss + 1
      /\ UNCHANGED <<line, session, connected, ui, thread>>
      /\ ghost'.recorded = ghost.recorded /\ ghost'.callbacks = ghost.callbacks
      /\ ghost'.failed = ghost.failed /\ ghost'.late = ghost.late
      /\ ghost'.at1 = IF Head(net) = <<"AT1", session>> THEN "lost" ELSE ghost.at1
  BY DEF NetLose, pcVars, bufferVars, device, Base, Typed, GhostType
<1>2. /\ Len(net') = Len(net) - 1
      /\ \A i \in 1..Len(net') : net'[i] = net[i + 1] /\ i + 1 \in 1..Len(net)
      /\ \A i \in 1..Len(net') : net'[i][2] <= session'
      /\ \A s \in Sessions, i \in 1..Len(net') :
            s = session' /\ net'[i] = <<"AT2", s>> => thread'["rec"][s].pc \in Quit
      /\ ghost'.at1 = "unsent" => session' = 0 \/ ui'.pc \in Unsent
      /\ ghost'.at1 = "sent" => \E i \in 1..Len(net') : net'[i] = <<"AT1", session'>>
      /\ \A i, j \in 1..Len(net') :
            i < j /\ net'[i] = <<"AT2", session'>> => net'[j][1] # "AT1"
  BY <1>1, CommandsTail
<1>3. ghost'.at1 = "received" /\ connected' /\ ~ghost'.late /\ ~ghost'.failed => line'
  BY <1>1 DEF Commands
<1>4. ASSUME NEW s \in Sessions, s = session', thread'["rec"][s].pc \in Quit
      PROVE  Down(s)'
  <2>1. Down(s)
    BY <1>1, <1>4 DEF Commands
  <2>2. CASE ~line /\ \A i \in 1..Len(net) : net[i][1] # "AT1"
    BY <1>1, <1>2, <2>2 DEF Down
  <2>3. CASE ShutDowns <= Cardinality(Positions(net, <<"AT2", s>>)) + loss + thread["rec"][s].left
    BY <1>1, <2>3, DownTail
  <2> QED BY <2>1, <2>2, <2>3 DEF Down
<1>5. Commands'
  BY <1>2, <1>3, <1>4 DEF Commands
<1>6. Sending'
  BY <1>1, SendingDevice
<1> QED BY <1>5, <1>6

-----------------------------------------------------------------------------
(* The invariant, and that both ends agree.                                *)

(* Every step keeps it.                                                    *)
LEMMA CommandsKept ==
    ASSUME Base, Sending, Commands, [Next]_vars
    PROVE  Sending' /\ Commands'
<1>1. CASE UNCHANGED vars \/ DeviceSend
  <2>1. Quiet
    BY <1>1 DEF vars, DeviceSend, pcVars, bufferVars, Quiet, SameGhost, Calm
  <2> QED BY <2>1, QuietKeeps
<1>2. CASE DeviceReceive
  BY <1>2, CommandsReceive
<1>3. CASE NetLose
  BY <1>3, CommandsLose
<1>4. CASE /\ Still
           /\ ClickStart \/ LineEstablish \/ DataAvailable \/ Enqueued
  BY <1>4, CommandsClickStart, CommandsLineEstablish, CommandsDataAvailable, CommandsEnqueued
<1>5. CASE /\ Still
           /\ \/ StartClear \/ StartPlay \/ StartRecording \/ StopRecording \/ ClickShutDown
              \/ RecorderFails \/ OnRecordingStopped \/ ReceiveFrom \/ SystemThrows
  BY <1>5, QuietUi, QuietKeeps
<1>6. ASSUME Still, NEW q \in Queues, NEW t \in Threads, QueueStep(q, t) /\ OutsideUnchanged
      PROVE  Sending' /\ Commands'
  BY <1>6, QuietThread, QuietKeeps
<1>7. ASSUME Still, NEW s \in Sessions, LineShutDown(s)
      PROVE  Sending' /\ Commands'
  BY <1>7, CommandsShutDown
<1>8. ASSUME Still, NEW q \in Queues, NEW s \in Sessions, TestFlag(q, s) \/ Use(q, s)
      PROVE  Sending' /\ Commands'
  <2>1. CASE Use(q, s) \/ (TestFlag(q, s) /\ (q = "dgram" \/ Flag(q)))
    BY <1>8, <2>1, QuietThread, QuietKeeps
  <2>2. CASE q = "rec" /\ TestFlag("rec", s) /\ ~Flag("rec")
    BY <1>8, <2>2, CommandsTest DEF Flag
  <2> QED BY <1>8, <2>1, <2>2 DEF Queues
<1>9. CASE PcSteps /\ Still
  BY <1>4, <1>5, <1>6, <1>7, <1>8, <1>9 DEF PcSteps
<1> QED BY <1>1, <1>2, <1>3, <1>9, StepGroups DEF DeviceStep

(* No command has been sent at first.                                      *)
LEMMA CommandsInit ==
    ASSUME Init
    PROVE  Sending /\ Commands
<1>1. ui.todo = <<>> /\ net = <<>> /\ session = 0 /\ ghost.recorded = FALSE
      /\ ghost.at1 = "unsent"
  BY DEF Init, PcInit
<1>2. \A s \in Sessions : thread["rec"][s].pc = "none" /\ s # 0
  <2>1. \A s \in Sessions : s \in Threads /\ s # 0
    BY YHbufferAssumption DEF Sessions, Threads
  <2> QED BY <2>1 DEF Init, PcInit, BufferInit, NoThread, Queues
<1>3. Sending
  <2>1. \A i \in 1..Len(ui.todo) : FALSE
    BY <1>1
  <2> QED BY <1>1, <1>2, <2>1 DEF Sending, Quit
<1>4. Commands
  <2>1. \A i \in 1..Len(net) : FALSE
    BY <1>1
  <2> QED BY <1>1, <1>2, <2>1 DEF Commands
<1> QED BY <1>3, <1>4

(* Nothing is under way, and one end has the line up.                      *)
LEMMA SettledAgrees ==
    ASSUME \A c \in Scenarios : c.loss < ShutDowns,
           Base, Sending, Commands
    PROVE  LineAgrees
<1>1. SUFFICES ASSUME Settled, line # connected
               PROVE  IF connected THEN ghost.at1 = "lost" \/ ghost.late \/ ghost.failed
                                   ELSE ~ghost.recorded
  BY DEF LineAgrees
<1>2. /\ scenario \in Scenarios /\ line \in BOOLEAN /\ connected \in BOOLEAN
      /\ ghost.at1 \in {"unsent", "sent", "received", "lost"}
      /\ loss \in 0..scenario.loss /\ scenario.loss \in Nat
  BY YHbufferAssumption DEF Base, Typed, GhostType
<1>3. Alive /\ ui.pc = "idle" /\ net = <<>> /\ ~posted
  BY <1>1 DEF Settled
<1>4. Len(net) = 0 /\ \A i \in 1..Len(net) : FALSE
  BY <1>3
<1>5. ASSUME connected
      PROVE  ghost.at1 = "lost" \/ ghost.late \/ ghost.failed
  <2>1. ~line
    BY <1>1, <1>2, <1>5
  <2>2. ghost.at1 # "unsent"
    <3>1. session # 0
      BY <1>5 DEF Base, Control
    <3> QED BY <1>3, <3>1 DEF Commands, Unsent, Clearing
  <2>3. ghost.at1 # "sent"
    BY <1>4 DEF Commands
  <2>4. ghost.at1 = "received" => ghost.late \/ ghost.failed
    BY <1>5, <2>1 DEF Commands
  <2> QED BY <1>2, <2>2, <2>3, <2>4
<1>6. ASSUME ~connected, ghost.recorded
      PROVE  FALSE
  <2>1. line
    BY <1>1, <1>2, <1>6
  <2>2. session \in Sessions
    BY <1>6, NetTypes DEF Sending, Sessions
  <2>3. thread["rec"][session].pc # "none"
    BY <1>6, <2>2 DEF Sending
  <2>4. ~lineSnd
    <3>1. waveIn # "recording" /\ waveIn # "stopped"
      BY <1>3, <1>6 DEF Base, Control
    <3>2. waveIn = "null"
      BY <3>1 DEF Base, Typed
    <3> QED BY <3>2 DEF Base, Control
  <2>5. thread["rec"][session].pc \in Quit
    <3>1. thread["rec"][session].pc \notin InLoop /\ thread["rec"][session].pc # "shut"
      BY <1>1, <2>2, <2>4 DEF Settled
    <3>2. thread["rec"][session].pc \in InLoop \cup Quit \cup {"none"}
      BY <2>2 DEF Sending
    <3> QED BY <2>3, <3>1, <3>2
  <2>6. thread["rec"][session].pc = "end"
    BY <1>1, <2>2, <2>5 DEF Settled, Quit
  <2>7. thread["rec"][session].left = 0
    BY <2>2, <2>6 DEF Sending
  <2>8. Down(session)
    BY <2>2, <2>5 DEF Commands
  <2>9. Cardinality(Positions(net, <<"AT2", session>>)) = 0
    <3>1. Positions(net, <<"AT2", session>>) = {}
      BY <1>4 DEF Positions
    <3> QED BY <3>1, FS_EmptySet
  <2>10. ShutDowns <= 0 + loss + 0
    BY <2>1, <2>7, <2>8, <2>9 DEF Down
  <2>11. scenario.loss < ShutDowns
    BY <1>2
  <2> QED BY <1>2, <2>10, <2>11, NetTypes
<1> QED BY <1>5, <1>6

(* Once nothing is under way the PC and the device agree on the line, but  *)
(* for the four causes the property names, however often sessions, audio,  *)
(* failures and losses interleave, as long as the network loses fewer      *)
(* commands than LineShutDown repeats.                                     *)
THEOREM BothEndsAgree ==
    ASSUME \A c \in Scenarios : c.loss < ShutDowns
    PROVE  Spec => []LineAgrees
<1>1. Init => Sending /\ Commands
  BY CommandsInit
<1>2. Base /\ Sending /\ Commands /\ [Next]_vars => Sending' /\ Commands'
  BY CommandsKept
<1>3. Base /\ Sending /\ Commands => LineAgrees
  BY SettledAgrees
<1> QED BY <1>1, <1>2, <1>3, BaseInvariant, PTL DEF Spec

-----------------------------------------------------------------------------
(* The wave header.  Unless threads of two sessions take from m_queue_rec, *)
(* the queue is empty when DataAvailable is called first, and until the    *)
(* sending thread has read the first block nobody else moves the head: its *)
(* three calls of Enqueue find room without a Dequeue.                     *)
Recorder == thread["rec"][Producer]
Sender == thread["rec"][session]
Reading == {"none", "test", "count", "check", "data", "len"}
Taking == {"clear", "clearLen", "head", "headStore", "size", "sizeStore", "use"}
Plain == Followed("rec") /\ "rec" \notin ghost.overlap

(* The queue of the running call: who takes from it, and what DataAvailable*)
(* still has to enqueue.                                                   *)
Solo ==
    /\ "rec" \notin ghost.overlap =>
          \A s \in Sessions : thread["rec"][s].pc \in InLoop => s = session
    /\ ~Followed("rec") => \A s \in Sessions : thread["rec"][s].pc \in InLoop =>
                              thread["rec"][s].pc = "test"
    /\ ui.pc # "enqueue" => Recorder.pc = "none"
    /\ ui.pc = "enqueue" /\ ghost.callbacks = 1 =>
          ui.todo \in {<<Header(session), Half(session), Half(session)>>,
                       <<Half(session), Half(session)>>, <<Half(session)>>}

(* Clear has emptied it.                                                   *)
Zeroed ==
    Plain /\ ghost.callbacks = 0 /\ session > 0 =>
        LET Q == queue["rec"]
        IN /\ ui.clears = "rec" /\ ui.pc \in {"tail", "size"} => Q.head = 0
           /\ ui.clears = "rec" /\ ui.pc = "size" => Q.tail = 0
           /\ ui.pc \notin Clearing => Q.head = 0 /\ Q.tail = 0 /\ Q.size = 0

(* The producer in its call d + 1 of Enqueue.                              *)
Filling(d) ==
    LET Q == queue["rec"]
    IN /\ Recorder.pc \in InEnqueue \cup {"count", "done"}
       /\ Recorder.pc \in {"count", "enqueue", "write", "writeLen", "tail"} =>
             Q.tail = d /\ Q.size = d
       /\ Recorder.pc \in {"grow", "growStore"} => Q.tail = Succ(d) /\ Q.size = d
       /\ Recorder.pc = "done" => Q.tail = Succ(d) /\ Q.size = d + 1
       /\ Recorder.pc \in Writing \cup {"growStore"} => Recorder.size = d
       /\ Recorder.pc \in {"writeLen", "tail"} => Recorder.index = d
       /\ d = 0 => Recorder.data = Header(session) /\ Recorder.len = TRUE

(* The header is in slot 0, its two words one after the other.             *)
InSlot(d) ==
    LET Q == queue["rec"]
    IN /\ d > 0 \/ Recorder.pc \notin {"count", "enqueue", "write"} =>
             Q.array[0].data = Header(session)
       /\ d > 0 \/ Recorder.pc \notin {"count", "enqueue", "write", "writeLen"} =>
             Q.array[0].len = TRUE

(* Until the sending thread has read the header.                           *)
Fresh ==
    Plain /\ ghost.callbacks = 1 /\ ghost.sent < session /\ Sender.pc \in Reading =>
        /\ queue["rec"].head = 0
        /\ ui.pc = "enqueue" => Filling(3 - Len(ui.todo)) /\ InSlot(3 - Len(ui.todo))
        /\ ui.pc # "enqueue" => InSlot(3)
        /\ Sender.pc = "len" => Sender.data = Header(session) /\ Sender.index = 0

(* From then on, until it sends it.                                        *)
Taken ==
    Plain /\ ghost.callbacks = 1 /\ ghost.sent < session /\ Sender.pc \in Taking =>
        Sender.data = Header(session) /\ Sender.len = TRUE

Recording == Solo /\ Zeroed /\ Fresh /\ Taken

(* The recorder and the running session's sending thread have their types. *)
LEMMA RecordTypes ==
    ASSUME Base
    PROVE  /\ "rec" \in Queues /\ Producer \in Threads /\ Recorder \in ThreadType
           /\ queue["rec"] \in QueueType
           /\ \A s \in Sessions : thread["rec"][s] \in ThreadType
           /\ session \in Sessions <=> session > 0
           /\ ghost.sent \in Nat
<1>1. "rec" \in Queues /\ Producer \in Threads /\ QueueTypes /\ \A s \in Sessions : s \in Threads
  BY NetTypes DEF Base, Typed, Queues, Threads
<1>2. session \in Sessions <=> session > 0
  BY NetTypes DEF Sessions
<1>3. ghost.sent \in Nat
  BY NetTypes DEF Base, Typed, GhostType
<1> QED BY <1>1, <1>2, <1>3 DEF QueueTypes, Recorder

(* Before the first callback the running session has no thread in a loop.  *)
LEMMA BeforeRecording ==
    ASSUME Base, Sending
    PROVE  /\ ghost.callbacks = 0 => ~ghost.recorded /\ ui.pc # "enqueue"
           /\ ghost.callbacks = 0 /\ session \in Sessions => Sender.pc = "none"
<1>1. ghost.callbacks = 0 => ~ghost.recorded /\ ui.pc # "enqueue"
  BY NetTypes DEF Base, Control, Sending
<1> QED BY <1>1 DEF Sending, Sender

(* The steps that leave m_queue_rec, its threads and the clearing alone.   *)
Apart ==
    /\ UNCHANGED <<session, scenario>> /\ ui'.todo = ui.todo
    /\ queue'["rec"] = queue["rec"] /\ thread'["rec"] = thread["rec"]
    /\ ghost'.overlap = ghost.overlap /\ ghost'.callbacks = ghost.callbacks
    /\ ghost'.sent = ghost.sent
    /\ \/ ui' = ui
       \/ /\ {ui.pc, ui'.pc} \cap Clearing = {}
          /\ ui.pc # "enqueue" /\ ui'.pc # "enqueue"

(* They keep the invariant.                                                *)
LEMMA RecordingApart ==
    ASSUME Recording, Apart
    PROVE  Recording'
<1>1. /\ UNCHANGED <<session, scenario>> /\ Recorder' = Recorder /\ Sender' = Sender
      /\ (Plain' <=> Plain) /\ ghost'.overlap = ghost.overlap
      /\ ghost'.callbacks = ghost.callbacks /\ ghost'.sent = ghost.sent
      /\ queue'["rec"] = queue["rec"] /\ (Followed("rec")' <=> Followed("rec"))
      /\ ui'.todo = ui.todo /\ (ui'.pc = "enqueue" <=> ui.pc = "enqueue")
  BY DEF Apart, Recorder, Sender, Plain, Followed
<1>2. Solo'
  BY <1>1 DEF Recording, Solo, Apart
<1>3. Zeroed'
  <2>1. ui' = ui \/ (ui.pc \notin Clearing /\ ui'.pc \notin Clearing)
    BY DEF Apart
  <2>2. CASE ui' = ui
    BY <1>1, <2>2 DEF Recording, Zeroed
  <2>3. CASE ui.pc \notin Clearing /\ ui'.pc \notin Clearing
    BY <1>1, <2>3 DEF Recording, Zeroed, Clearing
  <2> QED BY <2>1, <2>2, <2>3
<1>4. \A d \in {3, 3 - Len(ui.todo)} : (Filling(d)' <=> Filling(d)) /\ (InSlot(d)' <=> InSlot(d))
  BY <1>1 DEF Filling, InSlot
<1>5. Fresh'
  BY <1>1, <1>4 DEF Recording, Fresh
<1>6. Taken'
  BY <1>1 DEF Recording, Taken
<1> QED BY <1>2, <1>3, <1>5, <1>6 DEF Recording

(* The steps of the UI thread, the device and the network of this kind.    *)
LEMMA ApartUi ==
    ASSUME Base,
           \/ UNCHANGED vars
           \/ LineEstablish \/ StartPlay \/ StartRecording \/ StopRecording \/ ClickShutDown
           \/ RecorderFails \/ OnRecordingStopped \/ ReceiveFrom \/ SystemThrows
           \/ DeviceStep
    PROVE  Apart
<1>1. ui \in UiType /\ ghost \in GhostType /\ QueueTypes
  BY DEF Base, Typed
<1>2. /\ ghost'.overlap = ghost.overlap /\ ghost'.callbacks = ghost.callbacks
      /\ ghost'.sent = ghost.sent /\ UNCHANGED <<session, scenario, queue>>
  BY <1>1 DEF vars, LineEstablish, StartPlay, StartRecording, StopRecording, ClickShutDown,
     RecorderFails, OnRecordingStopped, ReceiveFrom, SystemThrows, DeviceStep, DeviceReceive,
     DeviceSend, NetLose, pcVars, bufferVars, GhostType
<1>3. thread'["rec"] = thread["rec"]
  BY <1>1 DEF vars, LineEstablish, StartPlay, StartRecording, StopRecording, ClickShutDown,
     RecorderFails, OnRecordingStopped, ReceiveFrom, SystemThrows, DeviceStep, DeviceReceive,
     DeviceSend, NetLose, pcVars, bufferVars, Go, Becomes, QueueTypes, Queues
<1>4. /\ ui'.todo = ui.todo
      /\ \/ ui' = ui
         \/ /\ ui.pc \in {"establish", "play", "record", "stop", "idle"}
            /\ ui'.pc \in {"establish", "play", "record", "stop", "idle"}
  <2>1. CASE LineEstablish \/ StartPlay \/ StartRecording \/ StopRecording
    BY <1>1, <2>1 DEF LineEstablish, StartPlay, StartRecording, StopRecording, Ui, UiGo, UiType
  <2>2. CASE ClickShutDown
    BY <1>1, <2>2 DEF ClickShutDown, Ui, UiType
  <2>3. CASE \/ UNCHANGED vars \/ RecorderFails \/ OnRecordingStopped \/ ReceiveFrom
             \/ SystemThrows \/ DeviceStep
    BY <2>3 DEF vars, RecorderFails, OnRecordingStopped, ReceiveFrom, SystemThrows, DeviceStep,
       DeviceReceive, DeviceSend, NetLose, pcVars
  <2> QED BY <2>1, <2>2, <2>3
<1> QED BY <1>2, <1>3, <1>4 DEF Apart, Clearing

(* The threads that play.                                                  *)
LEMMA ApartThread ==
    ASSUME Base,
           \/ \E t \in Threads : QueueStep("dgram", t) /\ OutsideUnchanged /\ scenario' = scenario
           \/ \E s \in Sessions : TestFlag("dgram", s) \/ Use("dgram", s)
    PROVE  Apart
<1>1. QueueTypes /\ "dgram" \in Queues /\ "rec" \in Queues /\ \A s \in Sessions : s \in Threads
  BY DEF Base, Typed, Queues, Threads
<1>2. /\ thread' \in [Queues -> [Threads -> ThreadType]]
      /\ thread' = thread \/ \E t \in Threads : Others("dgram", t)
      /\ queue'["rec"] = queue["rec"] /\ UNCHANGED <<session, scenario, ui, ghost>>
  <2>1. ASSUME NEW t \in Threads, QueueStep("dgram", t), OutsideUnchanged, scenario' = scenario
        PROVE  <1>2
    <3>1. Kept("dgram", t)
      BY <1>1, <2>1, QueueStepKept DEF Base, Typed, Room
    <3> QED BY <1>1, <2>1, <3>1 DEF Kept, OtherQueues, OutsideUnchanged
  <2>2. ASSUME NEW s \in Sessions, TestFlag("dgram", s)
        PROVE  <1>2
    BY <1>1, <2>2, TestFlagEffect DEF TestFlag, ThreadUnchanged
  <2>3. ASSUME NEW s \in Sessions, Use("dgram", s)
        PROVE  <1>2
    BY <1>1, <2>3, UseEffect DEF Use, ThreadUnchanged
  <2> QED BY <2>1, <2>2, <2>3
<1>3. thread'["rec"] = thread["rec"]
  BY <1>1, <1>2 DEF QueueTypes, Others
<1> QED BY <1>2, <1>3 DEF Apart

(* A new session.  A thread of the one before that still sends is          *)
(* remembered as an overlap.                                               *)
LEMMA RecordingClickStart ==
    ASSUME Base, Sending, Recording, ClickStart
    PROVE  Recording'
<1>1. /\ ui.pc = "idle" /\ session' = session + 1 /\ UNCHANGED <<queue, thread, scenario>>
      /\ ui'.pc = "array" /\ ghost'.callbacks = 0
      /\ ghost'.overlap = ghost.overlap \cup {q \in Queues : Running(q) # {}}
  BY DEF ClickStart, Ui, bufferVars, Base, Typed, UiType, GhostType
<1>2. Solo'
  <2>1. Recorder'.pc = "none"
    BY <1>1 DEF Recording, Solo, Recorder
  <2>2. ASSUME "rec" \notin ghost'.overlap, NEW s \in Sessions
        PROVE  thread["rec"][s].pc \notin InLoop
    BY <1>1, <2>2 DEF Running, Queues
  <2>3. Followed("rec")' <=> Followed("rec")
    BY <1>1 DEF Followed
  <2> QED BY <1>1, <2>1, <2>2, <2>3 DEF Recording, Solo
<1>3. Zeroed' /\ Fresh' /\ Taken'
  BY <1>1 DEF Zeroed, Fresh, Taken, Clearing
<1> QED BY <1>2, <1>3 DEF Recording

(* m_queue_rec.Clear(): field by field it becomes the empty queue.         *)
LEMMA RecordingStartClear ==
    ASSUME Base, Sending, Recording, StartClear
    PROVE  Recording'
<1> DEFINE Q == queue["rec"]
<1>1. /\ ui \in UiType /\ ui.pc \in Clearing /\ Q \in QueueType /\ QueueTypes /\ ui.clears \in Queues
      /\ UNCHANGED <<session, scenario, thread, ghost>>
  BY DEF StartClear, Ui, Clearing, ClearArray, ClearField, bufferVars, Base, Typed, UiType,
     QueueTypes, Queues
<1>2. ghost.callbacks = 0 /\ session > 0
  BY <1>1, NetTypes DEF Base, Control, Starting
<1>3. ui'.pc \in Clearing \cup {"establish"}
  <2>1. ui' = AfterClear \/ \E pc \in Clearing : ui' = [ui EXCEPT !.pc = pc]
    BY DEF StartClear, UiGo, Clearing
  <2> QED BY <1>1, <2>1 DEF AfterClear, UiType, Clearing
<1>4. Solo'
  <2>1. ui.pc # "enqueue" /\ ui'.pc # "enqueue"
    BY <1>1, <1>3 DEF Clearing
  <2> QED BY <1>1, <2>1 DEF Recording, Solo, Recorder, Followed
<1>5. Zeroed'
  <2> SUFFICES ASSUME Plain
               PROVE  /\ ui'.clears = "rec" /\ ui'.pc \in {"tail", "size"} => queue'["rec"].head = 0
                      /\ ui'.clears = "rec" /\ ui'.pc = "size" => queue'["rec"].tail = 0
                      /\ ui'.pc \notin Clearing => /\ queue'["rec"].head = 0
                                                   /\ queue'["rec"].tail = 0
                                                   /\ queue'["rec"].size = 0
    BY <1>1 DEF Zeroed, Plain, Followed
  <2>0. "rec" \in scenario.queues
    BY DEF Plain, Followed
  <2>1. /\ ui.clears = "rec" /\ ui.pc \in {"tail", "size"} => Q.head = 0
        /\ ui.clears = "rec" /\ ui.pc = "size" => Q.tail = 0
    BY <1>2 DEF Recording, Zeroed
  <2>2. CASE Ui("array") /\ ~Followed(ui.clears) /\ ui' = AfterClear
    <3>1. ui.clears # "rec"
      BY <2>0, <2>2 DEF Followed
    <3>2. ui'.pc = "array"
      BY <1>1, <2>2, <3>1 DEF AfterClear, UiType, Queues
    <3> QED BY <3>2 DEF Clearing
  <2>3. CASE Ui("array") /\ UiGo("head")
    <3>1. ui'.pc = "head"
      BY <1>1, <2>3 DEF UiGo, UiType
    <3> QED BY <3>1 DEF Clearing
  <2>4. CASE Ui("head") /\ UiGo("tail") /\ ClearField(ui.clears, [queue[ui.clears] EXCEPT !.head = 0])
    <3>1. ui'.pc = "tail" /\ ui'.clears = ui.clears
      BY <1>1, <2>4 DEF UiGo, UiType
    <3>2. ui.clears = "rec" => queue'["rec"].head = 0
      BY <1>1, <2>4 DEF ClearField, Store, QueueTypes, QueueType
    <3> QED BY <3>1, <3>2 DEF Clearing
  <2>5. CASE Ui("tail") /\ UiGo("size") /\ ClearField(ui.clears, [queue[ui.clears] EXCEPT !.tail = 0])
    <3>1. ui'.pc = "size" /\ ui'.clears = ui.clears
      BY <1>1, <2>5 DEF UiGo, UiType
    <3>2. ui.clears = "rec" => queue'["rec"].head = 0 /\ queue'["rec"].tail = 0
      BY <1>1, <2>1, <2>5 DEF Ui, ClearField, Store, QueueTypes, QueueType
    <3> QED BY <3>1, <3>2 DEF Clearing
  <2>6. CASE Ui("size") /\ ui' = AfterClear /\ ClearField(ui.clears, [queue[ui.clears] EXCEPT !.size = 0])
    <3>1. CASE ui.clears = "dgram"
      <4>1. ui'.pc = "array"
        BY <1>1, <2>6, <3>1 DEF AfterClear, UiType
      <4> QED BY <4>1 DEF Clearing
    <3>2. CASE ui.clears = "rec"
      <4>1. queue'["rec"].head = 0 /\ queue'["rec"].tail = 0 /\ queue'["rec"].size = 0
        BY <1>1, <2>1, <2>6, <3>2 DEF Ui, ClearField, Store, QueueTypes, QueueType
      <4> QED BY <4>1
    <3> QED BY <1>1, <3>1, <3>2 DEF Queues
  <2> QED BY <2>2, <2>3, <2>4, <2>5, <2>6 DEF StartClear
<1>6. Fresh' /\ Taken'
  BY <1>1, <1>2 DEF Fresh, Taken
<1> QED BY <1>4, <1>5, <1>6 DEF Recording

(* The first callback finds the queue empty and begins with the header.    *)
LEMMA RecordingDataAvailable ==
    ASSUME Base, Sending, Recording, DataAvailable
    PROVE  Recording'
<1>1. /\ UNCHANGED <<session, scenario, queue>> /\ session \in Sessions
      /\ ui.pc \in {"idle", "stop"} /\ ui'.pc = "enqueue" /\ ui'.todo = Callback
      /\ Others("rec", Producer) /\ Recorder' = Call(Head(Callback))
      /\ ghost'.callbacks = ghost.callbacks + 1 /\ ghost.callbacks \in Nat
      /\ ghost'.overlap = ghost.overlap /\ ghost'.sent = ghost.sent
  BY DataAvailableEffect, NetTypes DEF DataAvailable, Base, Typed, GhostType, Recorder
<1>2. \A s \in Sessions : thread'["rec"][s] = thread["rec"][s]
  BY <1>1, NetTypes DEF Others, Queues
<1>3. ghost'.callbacks = 1 => Callback = <<Header(session), Half(session), Half(session)>>
  <2> SUFFICES ASSUME ghost'.callbacks = 1 PROVE ~lineSnd
    BY DEF Callback
  <2>1. ghost.callbacks = 0 /\ waveIn = "recording"
    BY <1>1, DataAvailableEffect
  <2> QED BY <2>1 DEF Base, Control
<1>4. Solo'
  BY <1>1, <1>2, <1>3 DEF Recording, Solo, Followed
<1>5. Zeroed'
  BY <1>1 DEF Zeroed
<1>6. ASSUME Plain', ghost'.callbacks = 1
      PROVE  /\ queue'["rec"].head = 0 /\ Filling(0)' /\ InSlot(0)' /\ Len(ui'.todo) = 3
             /\ Sender'.pc = "none"
  <2>1. ghost.callbacks = 0 /\ Plain /\ ui.pc \notin Clearing /\ session > 0
    BY <1>1, <1>6, NetTypes DEF Plain, Followed, Clearing
  <2>2. queue["rec"].head = 0 /\ queue["rec"].tail = 0 /\ queue["rec"].size = 0
    BY <2>1 DEF Recording, Zeroed
  <2>3. Head(Callback) = Header(session) /\ Len(Callback) = 3
    BY <1>3, <1>6
  <2>4. /\ Recorder'.pc = "count" /\ Recorder'.data = Header(session)
        /\ Recorder'.len = (Header(session) # Nothing)
    BY <1>1, <2>3, CallbackTyped, CallTyped
  <2>5. Header(session) # Nothing
    BY DEF Header, Nothing
  <2>6. Sender'.pc = "none"
    BY <1>1, <1>2, <2>1, BeforeRecording DEF Sender
  <2>7. Filling(0)'
    BY <1>1, <2>2, <2>4, <2>5 DEF Filling, Writing, InEnqueue
  <2> QED BY <1>1, <2>2, <2>3, <2>4, <2>6, <2>7 DEF InSlot
<1>7. Fresh' /\ Taken'
  <2>1. Plain' /\ ghost'.callbacks = 1 => 3 - Len(ui'.todo) = 0
    BY <1>6
  <2> QED BY <1>1, <1>6, <2>1 DEF Fresh, Taken, Taking
<1> QED BY <1>4, <1>5, <1>7 DEF Recording

(* What Fresh says of the producer's call, and which call it is.           *)
LEMMA FreshCall ==
    ASSUME Base, Recording, Plain, ghost.callbacks = 1, ghost.sent < session,
           Sender.pc \in Reading, ui.pc = "enqueue"
    PROVE  \E d \in 0..2 :
              /\ Len(ui.todo) = 3 - d /\ Filling(d) /\ InSlot(d) /\ queue["rec"].head = 0
              /\ Head(ui.todo) = Header(session) <=> d = 0
<1>1. Header(session) # Half(session)
  BY DEF Header, Half
<1>2. ui.todo \in {<<Header(session), Half(session), Half(session)>>,
                   <<Half(session), Half(session)>>, <<Half(session)>>}
  BY DEF Recording, Solo
<1>3. \E d \in 0..2 : Len(ui.todo) = 3 - d /\ (Head(ui.todo) = Header(session) <=> d = 0)
  <2>1. CASE ui.todo = <<Header(session), Half(session), Half(session)>>
    <3>1. Len(ui.todo) = 3 - 0 /\ Head(ui.todo) = Header(session)
      BY <2>1
    <3> QED BY <3>1
  <2>2. CASE ui.todo = <<Half(session), Half(session)>>
    <3>1. Len(ui.todo) = 3 - 1 /\ Head(ui.todo) # Header(session)
      BY <1>1, <2>2
    <3> QED BY <3>1
  <2>3. CASE ui.todo = <<Half(session)>>
    <3>1. Len(ui.todo) = 3 - 2 /\ Head(ui.todo) # Header(session)
      BY <1>1, <2>3
    <3> QED BY <3>1
  <2> QED BY <1>2, <2>1, <2>2, <2>3
<1>4. PICK d \in 0..2 : Len(ui.todo) = 3 - d /\ (Head(ui.todo) = Header(session) <=> d = 0)
  BY <1>3
<1>5. 3 - Len(ui.todo) = d
  BY <1>4
<1>6. queue["rec"].head = 0 /\ Filling(3 - Len(ui.todo)) /\ InSlot(3 - Len(ui.todo))
  BY DEF Recording, Fresh
<1>7. Filling(d) /\ InSlot(d)
  BY <1>5, <1>6
<1> QED BY <1>4, <1>6, <1>7

(* Fresh after a step, from the number d of calls that have returned.      *)
FreshStep(d) ==
    Plain' /\ ghost'.callbacks = 1 /\ ghost'.sent < session' /\ Sender'.pc \in Reading =>
        /\ queue'["rec"].head = 0
        /\ ui'.pc = "enqueue" => Len(ui'.todo) = 3 - d /\ Filling(d)' /\ InSlot(d)'
        /\ ui'.pc # "enqueue" => InSlot(3)'
        /\ Sender'.pc = "len" => Sender'.data = Header(session') /\ Sender'.index = 0

LEMMA FreshNext ==
    ASSUME NEW d \in 0..3, FreshStep(d)
    PROVE  Fresh'
<1> SUFFICES ASSUME Plain', ghost'.callbacks = 1, ghost'.sent < session', Sender'.pc \in Reading
             PROVE  /\ queue'["rec"].head = 0
                    /\ ui'.pc = "enqueue" =>
                          Filling(3 - Len(ui.todo))' /\ InSlot(3 - Len(ui.todo))'
                    /\ ui'.pc # "enqueue" => InSlot(3)'
                    /\ Sender'.pc = "len" => Sender'.data = Header(session') /\ Sender'.index = 0
  BY DEF Fresh
<1>1. ASSUME ui'.pc = "enqueue"
      PROVE  Filling(3 - Len(ui.todo))' /\ InSlot(3 - Len(ui.todo))'
  <2>1. 3 - Len(ui'.todo) = d
    BY <1>1 DEF FreshStep
  <2>2. Filling(d)' /\ InSlot(d)'
    BY <1>1 DEF FreshStep
  <2>3. Filling(3 - Len(ui.todo))'
    BY <2>1, <2>2 DEF Filling
  <2>4. InSlot(3 - Len(ui.todo))'
    BY <2>1, <2>2 DEF InSlot
  <2> QED BY <2>3, <2>4
<1> QED BY <1>1 DEF FreshStep

(* The producer's call of Enqueue returns, and the next one begins.        *)
LEMMA RecordingEnqueued ==
    ASSUME Base, Sending, Recording, Enqueued, Blocks >= 3
    PROVE  Recording'
<1> DEFINE starts == Head(ui.todo) = Header(session)
           left == Tail(ui.todo)
<1>1. /\ UNCHANGED <<session, scenario, queue>> /\ session \in Sessions /\ session # Producer
      /\ ui.pc = "enqueue" /\ ui'.todo = left /\ Recorder.pc = "done"
      /\ ui'.pc = IF left # <<>> THEN "enqueue" ELSE IF ui.stopping THEN "stop" ELSE "idle"
      /\ Recorder' = IF left = <<>> THEN NoThread ELSE Call(Head(left))
      /\ Sender' = IF starts THEN [Sender EXCEPT !.pc = "test"] ELSE Sender
      /\ Sender \in ThreadType
      /\ \A s \in Sessions : s # session => thread'["rec"][s] = thread["rec"][s]
  BY EnqueuedEffect, NetTypes, RecordTypes DEF Enqueued, Recorder, Sender, Queues
<1>2. /\ ghost'.callbacks = ghost.callbacks /\ ghost'.sent = ghost.sent
      /\ starts => ghost'.overlap = ghost.overlap \cup {q \in {"rec"} : Running(q) # {}}
      /\ ~starts => ghost'.overlap = ghost.overlap
  <2>1. ghost \in GhostType
    BY DEF Base, Typed
  <2>2. CASE starts
    <3>1. ghost' = [ghost EXCEPT !.recorded = TRUE,
                       !.overlap = @ \cup {q \in {"rec"} : Running(q) # {}}]
      BY <2>2, EnqueuedEffect
    <3> QED BY <2>1, <2>2, <3>1 DEF GhostType
  <2>3. CASE ~starts
    BY <2>3, EnqueuedEffect
  <2> QED BY <2>2, <2>3
<1>3. starts => Sender.pc = "none" /\ Sender'.pc = "test"
  <2> SUFFICES ASSUME starts PROVE Sender.pc = "none" /\ Sender'.pc = "test"
    OBVIOUS
  <2>1. 1 \in 1..Len(ui.todo) /\ ui.todo[1] = Header(session)
    BY EnqueuedEffect, EmptySeq, HeadTailProperties DEF Base, Typed, UiType
  <2>2. ~ghost.recorded
    BY <2>1 DEF Sending
  <2>3. Sender.pc = "none"
    BY <1>1, <2>2 DEF Sending, Sender
  <2> QED BY <1>1, <2>3 DEF ThreadType
<1>4. ghost'.callbacks # 0
  BY <1>1, <1>2, NetTypes DEF Base, Control
<1>5. left # <<>> <=> ui'.pc = "enqueue"
  BY <1>1
<1>6. ghost.callbacks = 1 =>
         \/ ui.todo = <<Header(session), Half(session), Half(session)>>
            /\ left = <<Half(session), Half(session)>>
         \/ ui.todo = <<Half(session), Half(session)>> /\ left = <<Half(session)>>
         \/ ui.todo = <<Half(session)>> /\ left = <<>>
  <2>1. ASSUME ghost.callbacks = 1
        PROVE  \/ ui.todo = <<Header(session), Half(session), Half(session)>>
               \/ ui.todo = <<Half(session), Half(session)>> \/ ui.todo = <<Half(session)>>
    BY <1>1, <2>1 DEF Recording, Solo
  <2>2. CASE ui.todo = <<Header(session), Half(session), Half(session)>>
    <3>1. left = <<Half(session), Half(session)>>
      BY <2>2
    <3> QED BY <2>2, <3>1
  <2>3. CASE ui.todo = <<Half(session), Half(session)>>
    <3>1. left = <<Half(session)>>
      BY <2>3
    <3> QED BY <2>3, <3>1
  <2>4. CASE ui.todo = <<Half(session)>>
    <3>1. left = <<>>
      BY <2>4
    <3> QED BY <2>4, <3>1
  <2> QED BY <2>1, <2>2, <2>3, <2>4
<1>7. Plain' => Plain
  BY <1>1, <1>2 DEF Plain, Followed
<1>8. Solo'
  <2>1. ASSUME "rec" \notin ghost'.overlap, NEW s \in Sessions, s # session
        PROVE  thread'["rec"][s].pc \notin InLoop
    <3>1. "rec" \notin ghost.overlap
      BY <1>2, <2>1
    <3> QED BY <1>1, <2>1, <3>1 DEF Recording, Solo
  <2>2. ASSUME ~Followed("rec"), NEW s \in Sessions, thread'["rec"][s].pc \in InLoop
        PROVE  thread'["rec"][s].pc = "test"
    <3>1. CASE s = session /\ starts
      BY <1>1, <1>3, <3>1 DEF Sender
    <3>2. CASE ~(s = session /\ starts)
      <4>1. thread'["rec"][s] = thread["rec"][s]
        BY <1>1, <3>2 DEF Sender
      <4> QED BY <2>2, <4>1 DEF Recording, Solo
    <3> QED BY <3>1, <3>2
  <2>3. ui'.pc # "enqueue" => Recorder'.pc = "none"
    BY <1>1, <1>5, CallTyped DEF NoThread
  <2>4. ui'.pc = "enqueue" /\ ghost'.callbacks = 1 =>
          ui'.todo \in {<<Header(session), Half(session), Half(session)>>,
                        <<Half(session), Half(session)>>, <<Half(session)>>}
    BY <1>1, <1>2, <1>5, <1>6
  <2>5. Followed("rec")' <=> Followed("rec")
    BY <1>1 DEF Followed
  <2> QED BY <1>1, <2>1, <2>2, <2>3, <2>4, <2>5 DEF Solo
<1>9. Zeroed'
  BY <1>4 DEF Zeroed
<1>10. Fresh'
  <2> SUFFICES ASSUME Plain', ghost'.callbacks = 1, ghost'.sent < session', Sender'.pc \in Reading
               PROVE  Fresh'
    BY DEF Fresh
  <2>1. Plain /\ ghost.callbacks = 1 /\ ghost.sent < session
    BY <1>1, <1>2, <1>7
  <2>2. Sender.pc \in Reading
    BY <1>1, <1>3 DEF Reading
  <2>3. PICK d \in 0..2 : /\ Len(ui.todo) = 3 - d /\ Filling(d) /\ InSlot(d)
                          /\ queue["rec"].head = 0
    BY <1>1, <2>1, <2>2, FreshCall
  <2>4. left # <<>> => /\ d \in 0..1 /\ Len(left) = 3 - (d + 1) /\ Head(left) = Half(session)
    <3>1. ASSUME ui.todo = <<Header(session), Half(session), Half(session)>>,
                 left = <<Half(session), Half(session)>>
          PROVE  <2>4
      <4>1. Len(ui.todo) = 3 /\ Len(left) = 2 /\ Head(left) = Half(session)
        BY <3>1
      <4> QED BY <2>3, <4>1
    <3>2. ASSUME ui.todo = <<Half(session), Half(session)>>, left = <<Half(session)>>
          PROVE  <2>4
      <4>1. Len(ui.todo) = 2 /\ Len(left) = 1 /\ Head(left) = Half(session)
        BY <3>2
      <4> QED BY <2>3, <4>1
    <3> QED BY <1>6, <2>1, <3>1, <3>2
  <2>6. queue["rec"].array[0].data = Header(session) /\ queue["rec"].array[0].len = TRUE
    BY <1>1, <2>3 DEF InSlot
  <2>7. InSlot(d + 1)' /\ InSlot(3)'
    BY <1>1, <2>6 DEF InSlot
  <2>8. ui'.pc = "enqueue" => Len(ui'.todo) = 3 - (d + 1) /\ Filling(d + 1)'
    <3> SUFFICES ASSUME left # <<>> PROVE Len(ui'.todo) = 3 - (d + 1) /\ Filling(d + 1)'
      BY <1>5
    <3>1. Recorder'.pc = "count"
      <4>1. Half(session) \in BlockType
        BY <1>1 DEF BlockType, Half
      <4> QED BY <1>1, <2>1, <2>4, <4>1, CallTyped
    <3>2. queue["rec"].tail = Succ(d) /\ queue["rec"].size = d + 1
      BY <1>1, <2>3 DEF Filling
    <3>3. Succ(d) = d + 1 /\ d + 1 # 0
      <4>1. d \in 0..1
        BY <2>4
      <4>2. (d + 1) % Blocks = d + 1
        BY <4>1, Bounds
      <4> QED BY <4>1, <4>2 DEF Succ
    <3>4. queue'["rec"].tail = d + 1 /\ queue'["rec"].size = d + 1
      BY <1>1, <3>2, <3>3
    <3>5. Filling(d + 1)'
      BY <3>1, <3>3, <3>4 DEF Filling, Writing, InEnqueue
    <3> QED BY <1>1, <2>4, <3>5
  <2>9. Sender'.pc = "len" => Sender'.data = Header(session') /\ Sender'.index = 0
    <3>1. Sender'.pc = "len" => Sender' = Sender
      BY <1>1, <1>3
    <3> QED BY <1>1, <2>1, <2>2, <3>1 DEF Recording, Fresh
  <2>10. queue'["rec"].head = 0
    BY <1>1, <2>3
  <2>11. d + 1 \in 0..3 /\ FreshStep(d + 1)
    BY <2>7, <2>8, <2>9, <2>10 DEF FreshStep
  <2> QED BY <2>11, FreshNext
<1>11. Taken'
  <2>1. Sender'.pc \in Taking => Sender' = Sender
    BY <1>1, <1>3 DEF Taking
  <2> QED BY <1>1, <1>2, <1>7, <2>1 DEF Recording, Taken
<1> QED BY <1>8, <1>9, <1>10, <1>11 DEF Recording

(* A step of the producer within its call.  It finds the queue with room:  *)
(* d elements, of which the first is the header.                           *)
LEMMA FillingStep ==
    ASSUME Base, NEW d \in 0..2, Filling(d), InSlot(d), Plain, Blocks >= 3, Enqueue("rec"),
           session' = session
    PROVE  Filling(d)' /\ InSlot(d)' /\ queue'["rec"].head = queue["rec"].head
<1> DEFINE me == Recorder  Q == queue["rec"]
<1>1. /\ me \in ThreadType /\ Q \in QueueType /\ Q.array \in [0..(Blocks - 1) -> SlotType]
      /\ 0 \in 0..(Blocks - 1) /\ d \in 0..(Blocks - 1) /\ d # Blocks
  BY RecordTypes, Bounds DEF QueueType
<1>2. \A v : Becomes("rec", Producer, v) => Recorder' = v
  BY RecordTypes DEF Becomes, Recorder, Base, Typed, QueueTypes
<1>3. \A w : Store("rec", w) => queue'["rec"] = w
  BY RecordTypes DEF Store, Base, Typed, QueueTypes
<1>4. /\ me.pc \in {"count", "enqueue", "write", "writeLen", "tail"} => Q.tail = d /\ Q.size = d
      /\ me.pc \in {"grow", "growStore"} => Q.tail = Succ(d) /\ Q.size = d
      /\ me.pc \in Writing \cup {"growStore"} => me.size = d
      /\ me.pc \in {"writeLen", "tail"} => me.index = d
      /\ d = 0 => me.data = Header(session) /\ me.len = TRUE
  BY DEF Filling
<1>5. /\ d > 0 \/ me.pc \notin {"count", "enqueue", "write"} => Q.array[0].data = Header(session)
      /\ d > 0 \/ me.pc \notin {"count", "enqueue", "write", "writeLen"} => Q.array[0].len = TRUE
  BY DEF InSlot
<1>6. "rec" \in scenario.queues
  BY DEF Plain, Followed
<1>7. thread["rec"][Producer] = me
  BY DEF Recorder
<1> HIDE DEF me
<1>8. CASE EnqueueCount("rec")
  <2>1. me.pc = "count" /\ Recorder' = [me EXCEPT !.pc = "enqueue"] /\ queue' = queue
    BY <1>1, <1>2, <1>4, <1>6, <1>7, <1>8 DEF EnqueueCount, Full, Followed, At, Go
  <2>2. /\ Recorder'.pc = "enqueue" /\ Recorder'.data = me.data /\ Recorder'.len = me.len
    BY <1>1, <2>1 DEF ThreadType
  <2> QED BY <1>4, <1>5, <2>1, <2>2 DEF Filling, InSlot, Writing, InEnqueue
<1>9. CASE EnqueueCheck("rec")
  <2>1. me.pc = "enqueue" /\ queue' = queue
        /\ Recorder' = [me EXCEPT !.pc = "write", !.size = Q.size]
    BY <1>1, <1>2, <1>4, <1>7, <1>9 DEF EnqueueCheck, At
  <2>2. /\ Recorder'.pc = "write" /\ Recorder'.data = me.data /\ Recorder'.len = me.len
        /\ Recorder'.size = d
    BY <1>1, <1>4, <2>1 DEF ThreadType
  <2> QED BY <1>4, <1>5, <2>1, <2>2 DEF Filling, InSlot, Writing, InEnqueue
<1>10. CASE EnqueueData("rec")
  <2>1. me.pc = "write" /\ queue'["rec"] = [Q EXCEPT !.array[Q.tail].data = me.data]
        /\ Recorder' = [me EXCEPT !.pc = "writeLen", !.index = Q.tail]
    BY <1>2, <1>3, <1>7, <1>10 DEF EnqueueData, At
  <2>2. /\ Recorder'.pc = "writeLen" /\ Recorder'.data = me.data /\ Recorder'.len = me.len
        /\ Recorder'.size = d /\ Recorder'.index = d
    BY <1>1, <1>4, <2>1 DEF ThreadType, Writing
  <2>3. /\ queue'["rec"].tail = d /\ queue'["rec"].size = d /\ queue'["rec"].head = Q.head
    BY <1>1, <1>4, <2>1 DEF QueueType
  <2>4. /\ queue'["rec"].array[0].data = IF d = 0 THEN me.data ELSE Q.array[0].data
        /\ queue'["rec"].array[0].len = Q.array[0].len
    <3>1. queue'["rec"].array = [Q.array EXCEPT ![d].data = me.data]
      BY <1>1, <1>4, <2>1 DEF QueueType
    <3>2. Q.array[d] \in SlotType /\ Q.array[0] \in SlotType
      BY <1>1
    <3> QED BY <1>1, <3>1, <3>2 DEF SlotType
  <2> QED BY <1>4, <1>5, <2>1, <2>2, <2>3, <2>4 DEF Filling, InSlot, Writing, InEnqueue
<1>11. CASE EnqueueLen("rec")
  <2>1. me.pc = "writeLen" /\ queue'["rec"] = [Q EXCEPT !.array[me.index].len = me.len]
        /\ Recorder' = [me EXCEPT !.pc = "tail"]
    BY <1>2, <1>3, <1>7, <1>11 DEF EnqueueLen, At, Go
  <2>2. /\ Recorder'.pc = "tail" /\ Recorder'.data = me.data /\ Recorder'.len = me.len
        /\ Recorder'.size = d /\ Recorder'.index = d
    BY <1>1, <1>4, <2>1 DEF ThreadType, Writing
  <2>3. /\ queue'["rec"].tail = d /\ queue'["rec"].size = d /\ queue'["rec"].head = Q.head
    BY <1>1, <1>4, <2>1 DEF QueueType
  <2>4. /\ queue'["rec"].array[0].data = Q.array[0].data
        /\ queue'["rec"].array[0].len = IF d = 0 THEN me.len ELSE Q.array[0].len
    <3>1. queue'["rec"].array = [Q.array EXCEPT ![d].len = me.len]
      BY <1>1, <1>4, <2>1 DEF QueueType
    <3>2. Q.array[d] \in SlotType /\ Q.array[0] \in SlotType
      BY <1>1
    <3>3. CASE d = 0
      <4>1. queue'["rec"].array[0] = [Q.array[0] EXCEPT !.len = me.len]
        BY <1>1, <3>1, <3>3
      <4> QED BY <3>2, <3>3, <4>1 DEF SlotType
    <3>4. CASE d # 0
      <4>1. queue'["rec"].array[0] = Q.array[0]
        BY <1>1, <3>1, <3>4
      <4> QED BY <3>4, <4>1
    <3> QED BY <3>3, <3>4
  <2> QED BY <1>4, <1>5, <2>1, <2>2, <2>3, <2>4 DEF Filling, InSlot, Writing, InEnqueue
<1>12. CASE EnqueueTail("rec")
  <2>1. PICK i \in {me.index, Q.tail} : Store("rec", [Q EXCEPT !.tail = Succ(i)])
    BY <1>7, <1>12 DEF EnqueueTail
  <2>2. me.pc = "tail" /\ Recorder' = [me EXCEPT !.pc = "grow", !.index = 0]
        /\ queue'["rec"] = [Q EXCEPT !.tail = Succ(i)]
    BY <1>2, <1>3, <1>7, <1>12, <2>1 DEF EnqueueTail, At
  <2>3. /\ Recorder'.pc = "grow" /\ Recorder'.data = me.data /\ Recorder'.len = me.len
        /\ Recorder'.size = d
    BY <1>1, <1>4, <2>2 DEF ThreadType, Writing
  <2>4. /\ queue'["rec"].tail = Succ(d) /\ queue'["rec"].size = d /\ queue'["rec"].head = Q.head
        /\ queue'["rec"].array = Q.array
    BY <1>1, <1>4, <2>1, <2>2 DEF QueueType
  <2> QED BY <1>4, <1>5, <2>2, <2>3, <2>4 DEF Filling, InSlot, Writing, InEnqueue
<1>13. CASE EnqueueSize("rec")
  <2>1. PICK n \in {me.size, Q.size} :
           Becomes("rec", Producer, [me EXCEPT !.pc = "growStore", !.size = n])
    BY <1>7, <1>13 DEF EnqueueSize
  <2>2. me.pc = "grow" /\ Recorder' = [me EXCEPT !.pc = "growStore", !.size = n] /\ queue' = queue
    BY <1>2, <1>7, <1>13, <2>1 DEF EnqueueSize, At
  <2>3. /\ Recorder'.pc = "growStore" /\ Recorder'.data = me.data /\ Recorder'.len = me.len
        /\ Recorder'.size = d
    BY <1>1, <1>4, <2>1, <2>2 DEF ThreadType, Writing
  <2> QED BY <1>4, <1>5, <2>2, <2>3 DEF Filling, InSlot, Writing, InEnqueue
<1>14. CASE EnqueueSizeStore("rec")
  <2>1. me.pc = "growStore" /\ queue'["rec"] = [Q EXCEPT !.size = me.size + 1]
        /\ Recorder' = [me EXCEPT !.pc = "done", !.size = 0]
    BY <1>2, <1>3, <1>7, <1>14 DEF EnqueueSizeStore, At
  <2>2. /\ Recorder'.pc = "done" /\ Recorder'.data = me.data /\ Recorder'.len = me.len
    BY <1>1, <2>1 DEF ThreadType
  <2>3. /\ queue'["rec"].tail = Succ(d) /\ queue'["rec"].size = d + 1
        /\ queue'["rec"].head = Q.head /\ queue'["rec"].array = Q.array
    BY <1>1, <1>4, <2>1 DEF QueueType
  <2> QED BY <1>4, <1>5, <2>1, <2>2, <2>3 DEF Filling, InSlot, Writing, InEnqueue
<1> QED BY <1>8, <1>9, <1>10, <1>11, <1>12, <1>13, <1>14 DEF Enqueue

(* The producer of m_queue_rec.                                            *)
LEMMA RecordingProducer ==
    ASSUME Base, Sending, Recording, Blocks >= 3, QueueStep("rec", Producer), OutsideUnchanged,
           scenario' = scenario
    PROVE  Recording'
<1>1. Kept("rec", Producer)
  BY QueueStepKept, RecordTypes DEF Base, Typed, Room
<1>2. /\ UNCHANGED <<session, ui, ghost, scenario>> /\ (Plain' <=> Plain)
      /\ (Followed("rec")' <=> Followed("rec"))
  BY DEF OutsideUnchanged, Plain, Followed
<1>3. \A s \in Sessions : s # Producer /\ s \in Threads
  BY Bounds DEF Sessions, Threads, Producer
<1>4. \A s \in Sessions : thread'["rec"][s] = thread["rec"][s]
  BY <1>1, <1>3, RecordTypes DEF Kept, Others
<1>5. ui.pc = "enqueue" /\ ghost.callbacks # 0 /\ session \in Sessions
  <2>1. Recorder.pc # "none"
    BY <1>1 DEF Kept, InQueue, InLoop, InDequeue, InEnqueue, Recorder
  <2>2. ui.pc = "enqueue" /\ ghost.callbacks # 0
    BY <2>1, BeforeRecording DEF Recording, Solo
  <2> QED BY <2>2, RecordTypes, NetTypes DEF Base, Control
<1>6. Sender' = Sender
  BY <1>2, <1>4, <1>5 DEF Sender
<1>7. Solo'
  BY <1>2, <1>4, <1>5 DEF Recording, Solo
<1>8. Zeroed' /\ Taken'
  BY <1>2, <1>5, <1>6 DEF Recording, Zeroed, Taken
<1>9. Fresh'
  <2> SUFFICES ASSUME Plain', ghost'.callbacks = 1, ghost'.sent < session', Sender'.pc \in Reading
               PROVE  Fresh'
    BY DEF Fresh
  <2>1. PICK d \in 0..2 : /\ Len(ui.todo) = 3 - d /\ Filling(d) /\ InSlot(d)
                          /\ queue["rec"].head = 0
    BY <1>2, <1>5, <1>6, FreshCall
  <2>2. Enqueue("rec")
    <3>1. Recorder.pc \in InEnqueue \cup {"count", "done"}
      BY <2>1 DEF Filling
    <3>2. ~Dequeue("rec", Producer)
      BY <3>1 DEF Dequeue, DequeueCheck, DequeueData, DequeueLen, DequeueClear, DequeueClearLen,
         DequeueHead, DequeueHeadStore, DequeueSize, DequeueSizeStore, At, InEnqueue, Recorder
    <3> QED BY <3>2 DEF QueueStep
  <2>3. Filling(d)' /\ InSlot(d)' /\ queue'["rec"].head = 0
    BY <1>2, <2>1, <2>2, FillingStep
  <2>4. Sender.pc = "len" => Sender.data = Header(session) /\ Sender.index = 0
    BY <1>2, <1>6 DEF Recording, Fresh
  <2>5. FreshStep(d)
    BY <1>2, <1>5, <1>6, <2>1, <2>3, <2>4 DEF FreshStep
  <2> QED BY <2>1, <2>5, FreshNext
<1> QED BY <1>7, <1>8, <1>9 DEF Recording

(* A step of Queue<T>.Dequeue by the sending thread before it has read the *)
(* header's second word: nothing is stored, and it reads slot 0.           *)
LEMMA ReadingStep ==
    ASSUME Base, NEW s \in Sessions, DequeueCount("rec", s) \/ Dequeue("rec", s),
           thread["rec"][s].pc \in Reading, queue["rec"].head = 0,
           queue["rec"].array[0] = [data |-> Header(s), len |-> TRUE],
           thread["rec"][s].pc = "len" => /\ thread["rec"][s].data = Header(s)
                                          /\ thread["rec"][s].index = 0
    PROVE  /\ queue' = queue
           /\ thread'["rec"][s].pc \in Reading \cup {"clear"}
           /\ thread'["rec"][s].pc = "len" => /\ thread'["rec"][s].data = Header(s)
                                              /\ thread'["rec"][s].index = 0
           /\ thread'["rec"][s].pc = "clear" => /\ thread'["rec"][s].data = Header(s)
                                                /\ thread'["rec"][s].len = TRUE
<1> DEFINE me == thread["rec"][s]  Q == queue["rec"]
<1>1. me \in ThreadType /\ s \in Threads /\ s # Producer
  BY RecordTypes, Bounds DEF Sessions, Threads, Producer
<1>2. \A v : Becomes("rec", s, v) => thread'["rec"][s] = v
  BY <1>1, RecordTypes DEF Becomes, Base, Typed, QueueTypes
<1>3. CASE DequeueCount("rec", s)
  <2>1. /\ queue' = queue
        /\ \/ thread'["rec"][s] = [me EXCEPT !.pc = "test"]
           \/ thread'["rec"][s] = [me EXCEPT !.pc = "check"]
    BY <1>2, <1>3 DEF DequeueCount, Go
  <2>2. thread'["rec"][s].pc \in {"test", "check"}
    BY <1>1, <2>1 DEF ThreadType
  <2> QED BY <2>1, <2>2 DEF Reading
<1>4. CASE DequeueCheck("rec", s)
  <2>1. /\ queue' = queue /\ me.pc = "check"
        /\ \/ thread' = thread
           \/ thread'["rec"][s] = [me EXCEPT !.pc = "data", !.size = Q.size]
    BY <1>2, <1>4 DEF DequeueCheck, At
  <2>2. thread'["rec"][s].pc \in {"check", "data"}
    BY <1>1, <2>1 DEF ThreadType
  <2> QED BY <2>1, <2>2 DEF Reading
<1>5. CASE DequeueData("rec", s)
  <2>1. /\ queue' = queue
        /\ thread'["rec"][s] = [me EXCEPT !.pc = "len", !.index = Q.head,
                                          !.data = Q.array[Q.head].data]
    BY <1>1, <1>2, <1>5 DEF DequeueData
  <2>2. /\ thread'["rec"][s].pc = "len" /\ thread'["rec"][s].index = 0
        /\ thread'["rec"][s].data = Header(s)
    BY <1>1, <2>1 DEF ThreadType
  <2> QED BY <2>1, <2>2 DEF Reading
<1>6. CASE DequeueLen("rec", s)
  <2>1. /\ queue' = queue /\ me.pc = "len"
        /\ thread'["rec"][s] = [me EXCEPT !.pc = "clear", !.len = Q.array[me.index].len]
    BY <1>2, <1>6 DEF DequeueLen, At
  <2>2. me.data = Header(s) /\ me.index = 0
    BY <2>1
  <2>3. /\ thread'["rec"][s].pc = "clear" /\ thread'["rec"][s].data = Header(s)
        /\ thread'["rec"][s].len = TRUE
    BY <1>1, <2>1, <2>2 DEF ThreadType
  <2> QED BY <2>1, <2>3 DEF Reading
<1>7. ~(\/ DequeueClear("rec", s) \/ DequeueClearLen("rec", s) \/ DequeueHead("rec", s)
        \/ DequeueHeadStore("rec", s) \/ DequeueSize("rec", s) \/ DequeueSizeStore("rec", s))
  BY DEF DequeueClear, DequeueClearLen, DequeueHead, DequeueHeadStore, DequeueSize,
     DequeueSizeStore, At, Reading
<1> QED BY <1>3, <1>4, <1>5, <1>6, <1>7 DEF Dequeue

(* The rest of its Dequeue: it keeps what it has read.                     *)
LEMMA TakingStep ==
    ASSUME Base, NEW s \in Sessions, DequeueCount("rec", s) \/ Dequeue("rec", s),
           thread["rec"][s].pc \in Taking,
           thread["rec"][s].data = Header(s), thread["rec"][s].len = TRUE
    PROVE  /\ thread'["rec"][s].pc \in Taking
           /\ thread'["rec"][s].data = Header(s) /\ thread'["rec"][s].len = TRUE
<1> DEFINE me == thread["rec"][s]  Q == queue["rec"]
<1>1. me \in ThreadType /\ s \in Threads /\ s # Producer
  BY RecordTypes, Bounds DEF Sessions, Threads, Producer
<1>2. \A v : Becomes("rec", s, v) => thread'["rec"][s] = v
  BY <1>1, RecordTypes DEF Becomes, Base, Typed, QueueTypes
<1>3. ~(\/ DequeueCount("rec", s) \/ DequeueCheck("rec", s) \/ DequeueData("rec", s)
        \/ DequeueLen("rec", s))
  BY DEF DequeueCount, DequeueCheck, DequeueData, DequeueLen, At, Taking
<1> HIDE DEF me
<1>4. CASE DequeueClear("rec", s)
  <2>1. \E i : thread'["rec"][s] = [me EXCEPT !.pc = "clearLen", !.index = i]
    BY <1>2, <1>4 DEF DequeueClear, me
  <2> QED BY <1>1, <2>1 DEF ThreadType, Taking, me
<1>5. CASE DequeueClearLen("rec", s)
  <2>1. thread'["rec"][s] = [me EXCEPT !.pc = "head"]
    BY <1>2, <1>5 DEF DequeueClearLen, Go, me
  <2> QED BY <1>1, <2>1 DEF ThreadType, Taking, me
<1>6. CASE DequeueHead("rec", s)
  <2>1. \E i : thread'["rec"][s] = [me EXCEPT !.pc = "headStore", !.index = i]
    BY <1>2, <1>6 DEF DequeueHead, me
  <2> QED BY <1>1, <2>1 DEF ThreadType, Taking, me
<1>7. CASE DequeueHeadStore("rec", s)
  <2>1. thread'["rec"][s] = [me EXCEPT !.pc = "size", !.index = 0]
    BY <1>2, <1>7 DEF DequeueHeadStore, me
  <2> QED BY <1>1, <2>1 DEF ThreadType, Taking, me
<1>8. CASE DequeueSize("rec", s)
  <2>1. \E n : thread'["rec"][s] = [me EXCEPT !.pc = "sizeStore", !.size = n]
    BY <1>2, <1>8 DEF DequeueSize, me
  <2> QED BY <1>1, <2>1 DEF ThreadType, Taking, me
<1>9. CASE DequeueSizeStore("rec", s)
  <2>1. thread'["rec"][s] = [me EXCEPT !.size = 0, !.data = me.data, !.pc = "use"]
    BY <1>1, <1>2, <1>9 DEF DequeueSizeStore, me
  <2> QED BY <1>1, <2>1 DEF ThreadType, Taking, me
<1> QED BY <1>3, <1>4, <1>5, <1>6, <1>7, <1>8, <1>9 DEF Dequeue

(* A thread that sends the blocks of m_queue_rec.                          *)
LEMMA RecordingConsumer ==
    ASSUME Base, Sending, Recording, NEW s \in Sessions, QueueStep("rec", s), OutsideUnchanged,
           scenario' = scenario
    PROVE  Recording'
<1>1. /\ s # Producer /\ s \in Threads /\ Producer \in Threads
      /\ \A r \in Sessions : r \in Threads
  BY Bounds DEF Sessions, Threads, Producer
<1>2. DequeueCount("rec", s) \/ Dequeue("rec", s)
  BY <1>1 DEF QueueStep
<1>3. /\ Kept("rec", s) /\ thread["rec"][s].pc \in InLoop /\ thread'["rec"][s].pc \in InLoop
  BY <1>1, QueueStepKept, RecordTypes DEF Base, Typed, Room, Kept, InQueue
<1>4. /\ UNCHANGED <<session, ui, ghost, scenario>> /\ (Plain' <=> Plain)
      /\ (Followed("rec")' <=> Followed("rec"))
  BY DEF OutsideUnchanged, Plain, Followed
<1>5. /\ Recorder' = Recorder
      /\ \A r \in Sessions : r # s => thread'["rec"][r] = thread["rec"][r]
  BY <1>1, <1>3, RecordTypes DEF Kept, Others, Recorder
<1>6. thread["rec"][s].pc # "test"
  BY <1>2 DEF DequeueCount, Dequeue, DequeueCheck, DequeueData, DequeueLen, DequeueClear,
     DequeueClearLen, DequeueHead, DequeueHeadStore, DequeueSize, DequeueSizeStore, At
<1>7. Followed("rec") /\ ("rec" \notin ghost.overlap => s = session)
  BY <1>3, <1>6 DEF Recording, Solo
<1>8. Solo'
  BY <1>3, <1>4, <1>5, <1>7 DEF Recording, Solo
<1>9. Plain => /\ s = session /\ Sender = thread["rec"][s] /\ Sender' = thread'["rec"][s]
               /\ session \in Sessions /\ ghost.recorded
  <2> SUFFICES ASSUME Plain PROVE <1>9!2
    OBVIOUS
  <2>1. s = session
    BY <1>7 DEF Plain
  <2>2. ghost.recorded
    BY <1>3, <2>1 DEF Sending, InLoop, InDequeue
  <2> QED BY <1>4, <2>1, <2>2 DEF Sender
<1>10. Zeroed'
  <2>1. Plain => ghost.callbacks # 0
    BY <1>9, BeforeRecording
  <2> QED BY <1>4, <2>1 DEF Zeroed
<1>11. ASSUME Plain, ghost.callbacks = 1, ghost.sent < session, Sender.pc \in Reading
       PROVE  /\ queue["rec"].head = 0
              /\ queue["rec"].array[0] = [data |-> Header(session), len |-> TRUE]
              /\ Sender.pc = "len" => Sender.data = Header(session) /\ Sender.index = 0
  <2>1. queue["rec"].head = 0 /\ (ui.pc # "enqueue" => InSlot(3))
        /\ (Sender.pc = "len" => Sender.data = Header(session) /\ Sender.index = 0)
    BY <1>11 DEF Recording, Fresh
  <2>2. \E d \in 1..3 : InSlot(d)
    <3>1. CASE ui.pc # "enqueue"
      BY <2>1, <3>1
    <3>2. CASE ui.pc = "enqueue"
      <4>1. PICK d \in 0..2 : InSlot(d) /\ (Head(ui.todo) = Header(session) <=> d = 0)
        BY <1>11, <3>2, FreshCall
      <4>2. ui.todo # <<>> /\ ui.todo \in Seq(BlockType)
        BY <3>2 DEF Base, Typed, UiType, Room
      <4>3. 1 \in 1..Len(ui.todo) /\ Head(ui.todo) = ui.todo[1]
        BY <4>2, EmptySeq, HeadTailProperties
      <4>4. Head(ui.todo) # Header(session)
        BY <1>9, <1>11, <4>3 DEF Sending
      <4>5. d \in 1..3
        BY <4>1, <4>4
      <4> QED BY <4>1, <4>5
    <3> QED BY <3>1, <3>2
  <2>3. queue["rec"].array[0].data = Header(session) /\ queue["rec"].array[0].len = TRUE
    BY <2>2 DEF InSlot
  <2>4. queue["rec"].array[0] \in SlotType
    BY RecordTypes, Bounds DEF QueueType
  <2> QED BY <2>1, <2>3, <2>4 DEF SlotType
<1>12. ASSUME Plain, ghost.callbacks = 1, ghost.sent < session, Sender.pc \in Reading
       PROVE  /\ queue' = queue
              /\ Sender'.pc \in Reading \cup {"clear"}
              /\ Sender'.pc = "len" => Sender'.data = Header(session) /\ Sender'.index = 0
              /\ Sender'.pc = "clear" => Sender'.data = Header(session) /\ Sender'.len = TRUE
  BY <1>2, <1>9, <1>11, <1>12, ReadingStep
<1>13. ASSUME Plain, ghost.callbacks = 1, ghost.sent < session, Sender.pc \notin Reading
       PROVE  /\ Sender'.pc \notin Reading
              /\ Sender'.data = Header(session) /\ Sender'.len = TRUE
  <2>1. Sender.pc \in Taking
    BY <1>3, <1>9, <1>13 DEF Reading, Taking, InLoop, InDequeue
  <2>2. Sender.data = Header(session) /\ Sender.len = TRUE
    BY <1>13, <2>1 DEF Recording, Taken
  <2>3. Sender'.pc \in Taking /\ Sender'.data = Header(session) /\ Sender'.len = TRUE
    BY <1>2, <1>9, <1>13, <2>1, <2>2, TakingStep
  <2> QED BY <2>3 DEF Taking, Reading
<1>14. Fresh'
  <2> SUFFICES ASSUME Plain', ghost'.callbacks = 1, ghost'.sent < session', Sender'.pc \in Reading
               PROVE  Fresh'
    BY DEF Fresh
  <2>1. Plain /\ ghost.callbacks = 1 /\ ghost.sent < session
    BY <1>4
  <2>2. Sender.pc \in Reading
    BY <1>13, <2>1
  <2>3. queue' = queue /\ (Sender'.pc = "len" => Sender'.data = Header(session) /\ Sender'.index = 0)
    BY <1>12, <2>1, <2>2
  <2>4. /\ queue["rec"].head = 0 /\ (ui.pc # "enqueue" => InSlot(3))
        /\ ui.pc = "enqueue" => \E d \in 0..3 : Len(ui.todo) = 3 - d /\ Filling(d) /\ InSlot(d)
    BY <2>1, <2>2, FreshCall DEF Recording, Fresh
  <2>5. \A d \in 0..3 : (Filling(d) => Filling(d)') /\ (InSlot(d) => InSlot(d)')
    BY <1>4, <1>5, <2>3 DEF Filling, InSlot
  <2>6. \E d \in 0..3 : FreshStep(d)
    <3>1. CASE ui.pc = "enqueue"
      <4>1. PICK d \in 0..3 : Len(ui.todo) = 3 - d /\ Filling(d) /\ InSlot(d)
        BY <2>4, <3>1
      <4> QED BY <1>4, <2>3, <2>4, <2>5, <3>1, <4>1 DEF FreshStep
    <3>2. CASE ui.pc # "enqueue"
      <4>1. FreshStep(3)
        BY <1>4, <2>3, <2>4, <2>5, <3>2 DEF FreshStep
      <4> QED BY <4>1
    <3> QED BY <3>1, <3>2
  <2> QED BY <2>6, FreshNext
<1>15. Taken'
  <2> SUFFICES ASSUME Plain', ghost'.callbacks = 1, ghost'.sent < session', Sender'.pc \in Taking
               PROVE  Sender'.data = Header(session) /\ Sender'.len = TRUE
    BY <1>4 DEF Taken
  <2>1. Plain /\ ghost.callbacks = 1 /\ ghost.sent < session
    BY <1>4
  <2>2. Sender'.pc \notin Reading
    BY DEF Taking, Reading
  <2> QED BY <1>12, <1>13, <2>1, <2>2
<1> QED BY <1>8, <1>10, <1>14, <1>15 DEF Recording

(* A sending thread outside its Dequeue: the test of the flag, the use of  *)
(* a block and the shut-downs.                                             *)
LEMMA RecordingThread ==
    ASSUME Base, Sending, Recording, NEW s \in Sessions, Others("rec", s),
           UNCHANGED <<scenario, queue, session, ui>>,
           ghost'.overlap = ghost.overlap, ghost'.callbacks = ghost.callbacks,
           thread["rec"][s].pc \in {"test", "use", "shut"},
           thread'["rec"][s].pc \in {"test", "count", "shut", "end"},
           thread["rec"][s].pc = "shut" => thread'["rec"][s].pc \in {"shut", "end"},
           ~Followed("rec") => thread'["rec"][s].pc # "count",
           ghost'.sent = IF thread["rec"][s].pc = "use" THEN s ELSE ghost.sent
    PROVE  Recording'
<1>1. /\ s # Producer /\ s \in Threads /\ Producer \in Threads
      /\ \A r \in Sessions : r \in Threads
  BY Bounds DEF Sessions, Threads, Producer
<1>2. /\ Recorder' = Recorder /\ (Plain' <=> Plain) /\ (Followed("rec")' <=> Followed("rec"))
      /\ \A r \in Sessions : r # s => thread'["rec"][r] = thread["rec"][r]
  BY <1>1, RecordTypes DEF Others, Recorder, Plain, Followed
<1>3. thread'["rec"][s].pc \in InLoop => thread["rec"][s].pc \in InLoop
  BY DEF InLoop, InDequeue
<1>4. Solo'
  <2>1. ~Followed("rec") /\ thread'["rec"][s].pc \in InLoop => thread'["rec"][s].pc = "test"
    BY DEF InLoop, InDequeue
  <2> QED BY <1>2, <1>3, <2>1 DEF Recording, Solo
<1>5. Zeroed'
  BY <1>2 DEF Recording, Zeroed
<1>6. ASSUME Plain', ghost'.callbacks = 1, ghost'.sent < session', Sender'.pc \in Reading \cup Taking
      PROVE  /\ Plain /\ ghost.callbacks = 1 /\ ghost.sent < session
             /\ \/ Sender' = Sender
                \/ Sender.pc \in Reading /\ Sender'.pc \in {"test", "count"}
  <2>1. Plain
    BY <1>2, <1>6
  <2>2. CASE s # session
    <3>1. thread["rec"][s].pc # "use"
      BY <2>1, <2>2 DEF Recording, Solo, Plain, InLoop
    <3>2. ghost.callbacks = 1 /\ ghost.sent < session
      BY <1>6, <3>1
    <3>3. Sender' = Sender
      <4>1. session \in Sessions
        <5>1. ghost.callbacks # 0
          BY <1>6
        <5>2. session > 0
          BY <1>6, NetTypes, RecordTypes
        <5> QED BY <5>2, RecordTypes
      <4> QED BY <1>2, <2>2, <4>1 DEF Sender
    <3> QED BY <2>1, <3>2, <3>3
  <2>3. CASE s = session
    <3>1. thread["rec"][s].pc # "use" /\ session \in Nat
      BY <1>6, <2>3, NetTypes
    <3>2. Sender'.pc = thread'["rec"][s].pc /\ Sender.pc = thread["rec"][s].pc
      BY <2>3 DEF Sender
    <3>3. Sender'.pc \in {"test", "count"} /\ Sender.pc = "test"
      BY <1>6, <3>1, <3>2 DEF Reading, Taking
    <3> QED BY <1>6, <2>1, <3>1, <3>3 DEF Reading
  <2> QED BY <2>2, <2>3
<1>7. Fresh'
  <2> SUFFICES ASSUME Plain', ghost'.callbacks = 1, ghost'.sent < session', Sender'.pc \in Reading
               PROVE  Fresh'
    BY DEF Fresh
  <2>1. Plain /\ ghost.callbacks = 1 /\ ghost.sent < session /\ Sender.pc \in Reading
    BY <1>6
  <2>2. Sender'.pc = "len" => Sender'.data = Header(session) /\ Sender'.index = 0
    BY <1>6, <2>1 DEF Recording, Fresh
  <2>3. /\ queue["rec"].head = 0 /\ (ui.pc # "enqueue" => InSlot(3))
        /\ ui.pc = "enqueue" => \E d \in 0..3 : Len(ui.todo) = 3 - d /\ Filling(d) /\ InSlot(d)
    BY <2>1, FreshCall DEF Recording, Fresh
  <2>4. \A d \in 0..3 : (Filling(d) => Filling(d)') /\ (InSlot(d) => InSlot(d)')
    BY <1>2 DEF Filling, InSlot
  <2>5. \E d \in 0..3 : FreshStep(d)
    <3>1. CASE ui.pc = "enqueue"
      <4>1. PICK d \in 0..3 : Len(ui.todo) = 3 - d /\ Filling(d) /\ InSlot(d)
        BY <2>3, <3>1
      <4> QED BY <2>2, <2>3, <2>4, <3>1, <4>1 DEF FreshStep
    <3>2. CASE ui.pc # "enqueue"
      <4>1. FreshStep(3)
        BY <2>2, <2>3, <2>4, <3>2 DEF FreshStep
      <4> QED BY <4>1
    <3> QED BY <3>1, <3>2
  <2> QED BY <2>5, FreshNext
<1>8. Taken'
  <2> SUFFICES ASSUME Plain', ghost'.callbacks = 1, ghost'.sent < session', Sender'.pc \in Taking
               PROVE  Sender'.data = Header(session) /\ Sender'.len = TRUE
    BY DEF Taken
  <2>1. Sender' = Sender /\ Plain /\ ghost.callbacks = 1 /\ ghost.sent < session
    BY <1>6 DEF Taking
  <2> QED BY <2>1 DEF Recording, Taken
<1> QED BY <1>4, <1>5, <1>7, <1>8 DEF Recording

(* The three of them.                                                      *)
LEMMA RecordingLoop ==
    ASSUME Base, Sending, Recording, NEW s \in Sessions,
           TestFlag("rec", s) \/ Use("rec", s) \/ LineShutDown(s)
    PROVE  Recording'
<1>1. "rec" \in Queues /\ UNCHANGED <<scenario, queue, session, ui>>
  BY RecordTypes DEF TestFlag, Use, LineShutDown, ThreadUnchanged
<1>2. CASE TestFlag("rec", s)
  <2>1. /\ thread["rec"][s].pc = "test" /\ Others("rec", s) /\ ghost' = ghost
        /\ thread'["rec"][s].pc \in {"test", "count", "shut"}
        /\ ~Followed("rec") => thread'["rec"][s].pc # "count"
    BY <1>1, <1>2, TestFlagEffect DEF TestFlag
  <2> QED BY <1>1, <2>1, RecordingThread
<1>3. CASE Use("rec", s)
  <2>1. CASE crash' = "argument" /\ thread' = thread /\ ghost' = ghost
    <3>1. Apart
      BY <1>1, <2>1 DEF Apart
    <3> QED BY <3>1, RecordingApart
  <2>2. CASE /\ Others("rec", s) /\ thread'["rec"][s].pc = "test"
             /\ ghost' = [ghost EXCEPT !.sent = s]
    <3>1. thread["rec"][s].pc = "use" /\ ghost \in GhostType
      BY <1>1, <1>3, UseEffect DEF Base, Typed
    <3>2. /\ ghost'.sent = s /\ ghost'.overlap = ghost.overlap
          /\ ghost'.callbacks = ghost.callbacks
      BY <2>2, <3>1 DEF GhostType
    <3> QED BY <1>1, <2>2, <3>1, <3>2, RecordingThread
  <2> QED BY <1>1, <1>3, <2>1, <2>2, UseEffect
<1>4. CASE LineShutDown(s)
  <2>1. /\ thread["rec"][s].pc = "shut" /\ Others("rec", s) /\ ghost' = ghost
        /\ thread'["rec"][s].pc \in {"shut", "end"}
    BY <1>4, LineShutDownEffect DEF LineShutDown
  <2> QED BY <1>1, <2>1, RecordingThread
<1> QED BY <1>2, <1>3, <1>4

(* Every step keeps it.                                                    *)
LEMMA RecordingKept ==
    ASSUME Blocks >= 3, Base, Sending, Recording, [Next]_vars
    PROVE  Recording'
<1>1. CASE \/ UNCHANGED vars
           \/ LineEstablish \/ StartPlay \/ StartRecording \/ StopRecording \/ ClickShutDown
           \/ RecorderFails \/ OnRecordingStopped \/ ReceiveFrom \/ SystemThrows
           \/ DeviceStep
  BY <1>1, ApartUi, RecordingApart
<1>2. CASE ClickStart \/ StartClear \/ DataAvailable \/ Enqueued
  BY <1>2, RecordingClickStart, RecordingStartClear, RecordingDataAvailable, RecordingEnqueued
<1>3. ASSUME NEW s \in Sessions, LineShutDown(s)
      PROVE  Recording'
  BY <1>3, RecordingLoop
<1>4. ASSUME NEW q \in Queues, NEW s \in Sessions, TestFlag(q, s) \/ Use(q, s)
      PROVE  Recording'
  <2>1. CASE q = "dgram"
    BY <1>4, <2>1, ApartThread, RecordingApart
  <2>2. CASE q = "rec"
    BY <1>4, <2>2, RecordingLoop
  <2> QED BY <2>1, <2>2 DEF Queues
<1>5. ASSUME NEW q \in Queues, NEW t \in Threads, QueueStep(q, t), OutsideUnchanged,
             scenario' = scenario
      PROVE  Recording'
  <2>1. CASE q = "dgram"
    BY <1>5, <2>1, ApartThread, RecordingApart
  <2>2. CASE q = "rec" /\ t = Producer
    BY <1>5, <2>2, RecordingProducer
  <2>3. CASE q = "rec" /\ t \in Sessions
    BY <1>5, <2>3, RecordingConsumer
  <2> QED BY <2>1, <2>2, <2>3 DEF Queues, Threads
<1>6. CASE PcSteps
  BY <1>1, <1>2, <1>3, <1>4, <1>5, <1>6 DEF PcSteps
<1> QED BY <1>1, <1>6, StepGroups

(* At first nothing records.                                               *)
LEMMA RecordingInit ==
    ASSUME Init
    PROVE  Recording
<1>1. /\ ui.pc = "idle" /\ ghost.callbacks = 0 /\ session = 0
      /\ \A t \in Threads : thread["rec"][t].pc = "none"
  BY DEF Init, PcInit, BufferInit, NoThread, Queues
<1>2. Recorder.pc = "none" /\ \A s \in Sessions : thread["rec"][s].pc \notin InLoop
  BY <1>1 DEF Recorder, Threads, InLoop, InDequeue
<1> QED BY <1>1, <1>2 DEF Recording, Solo, Zeroed, Fresh, Taken

(* In a queue of three blocks or more, the first block that ThreadDoRec    *)
(* sends of a recording is its wave header, unless a second callback came  *)
(* before or a thread of an older recording still takes: the producer does *)
(* not drop in the first callback, and the thread reads slot 0 only after  *)
(* both words of the header are in it.                                     *)
THEOREM HeaderGoesFirst ==
    ASSUME Blocks >= 3
    PROVE  Spec => HeaderFirst
<1> DEFINE First(s) == Use("rec", s) /\ "rec" \notin ghost.overlap /\ ghost.sent < s
                          => thread["rec"][s].data = Header(s) \/ ghost.callbacks >= 2
<1>1. Init => Sending /\ Recording
  BY CommandsInit, RecordingInit
<1>2. Init => Commands
  BY CommandsInit
<1>3. Base /\ Sending /\ Commands /\ Recording /\ [Next]_vars
         => Sending' /\ Commands' /\ Recording'
  BY CommandsKept, RecordingKept
<1>4. Base /\ Sending /\ Recording => \A s \in Sessions : First(s)
  <2> SUFFICES ASSUME Base, Sending, Recording, NEW s \in Sessions, Use("rec", s),
                      "rec" \notin ghost.overlap, ghost.sent < s, ~(ghost.callbacks >= 2)
               PROVE  thread["rec"][s].data = Header(s)
    OBVIOUS
  <2>1. thread["rec"][s].pc = "use" /\ thread["rec"][s].pc \in InLoop
    BY DEF Use, At, InLoop
  <2>2. s = session /\ Followed("rec")
    BY <2>1 DEF Recording, Solo
  <2>3. ghost.recorded /\ ghost.callbacks > 0 /\ ghost.callbacks \in Nat
    BY <2>1, <2>2, NetTypes DEF Sending, Base, Typed, GhostType
  <2>4. ghost.callbacks = 1
    BY <2>3
  <2> QED BY <2>1, <2>2, <2>4 DEF Recording, Taken, Plain, Sender, Taking
<1>5. Base /\ Sending /\ Recording /\ [Next]_vars
         => [\A s \in Sessions : First(s)]_vars
  BY <1>4
<1>6. Spec => [](Sending /\ Commands /\ Recording)
  BY <1>1, <1>2, <1>3, BaseInvariant, PTL DEF Spec
<1> QED BY <1>5, <1>6, BaseInvariant, PTL DEF Spec, HeaderFirst

=============================================================================
