---------------------------- MODULE StackProofs ----------------------------
(***************************************************************************)
(* For pools and mailboxes of any size: the pools bound the mailboxes, no  *)
(* cell, netbuf or message is in two places, a socket is created when the  *)
(* kernel's blocks suffice for two, and the heap needs no lock.            *)
(***************************************************************************)
EXTENDS Stack, FiniteSetTheorems, TLAPS

In(s, x) == \E i \in 1..Len(s) : s[i] = x
Distinct(s) == \A i, j \in 1..Len(s) : s[i] = s[j] => i = j

(* Cells, in a form that counts nothing.                                   *)
Cells ==
    /\ Distinct(mbox)
    /\ netcard.pc = "post" <=> netcard.cell # None
    /\ \A c \in InCells :
          /\ In(mbox, c) => c \notin freeIn /\ netcard.cell # c /\ tcpip # c
          /\ c \in freeIn => netcard.cell # c /\ tcpip # c
          /\ netcard.cell = c => tcpip # c
          /\ In(mbox, c) \/ c \in freeIn \/ netcard.cell = c \/ tcpip = c

(* Messages of callers and their answers.                                  *)
Messages ==
    \A a \in Apps :
        /\ In(mbox, a) => tcpip # a /\ sem[a] = 0 /\ pc[a] = "wait"
        /\ tcpip = a => sem[a] = 0 /\ pc[a] = "wait"
        /\ sem[a] = 1 => pc[a] = "wait"
        /\ pc[a] = "wait" => In(mbox, a) \/ tcpip = a \/ sem[a] = 1

(* Netbufs.                                                                *)
Bufs ==
    /\ \A a \in Apps : Distinct(recvmbox[a])
    /\ pc[Server] = "delete" <=> held # None
    /\ \A b \in Netbufs :
          /\ \A a \in Apps : In(recvmbox[a], b) => b \notin freeNetbuf /\ held # b
          /\ In(recvmbox[Server], b) => ~In(recvmbox[Client], b)
          /\ b \in freeNetbuf => held # b
          /\ \/ In(recvmbox[Server], b) \/ In(recvmbox[Client], b)
             \/ b \in freeNetbuf \/ held = b

IInv == TypeOK /\ Cells /\ Messages /\ Bufs

-----------------------------------------------------------------------------
(* Lemmas on sequences.                                                    *)

(* What Append adds, and when it keeps the elements distinct.              *)
LEMMA AppendFacts ==
    ASSUME NEW S, NEW s \in Seq(S), NEW x \in S
    PROVE  /\ Append(s, x) \in Seq(S)
           /\ \A y : In(Append(s, x), y) <=> In(s, y) \/ y = x
           /\ Distinct(s) /\ ~In(s, x) => Distinct(Append(s, x))
<1>1. /\ Append(s, x) \in Seq(S) /\ Len(s) \in Nat /\ Len(Append(s, x)) = Len(s) + 1
      /\ \A i \in 1..Len(s) : Append(s, x)[i] = s[i]
      /\ Append(s, x)[Len(s) + 1] = x
  OBVIOUS
<1>2. 1..(Len(s) + 1) = (1..Len(s)) \cup {Len(s) + 1}
  BY <1>1
<1>3. ASSUME NEW y PROVE In(Append(s, x), y) <=> In(s, y) \/ y = x
  BY <1>1, <1>2 DEF In
<1>4. ASSUME Distinct(s), ~In(s, x) PROVE Distinct(Append(s, x))
  BY <1>1, <1>2, <1>4 DEF In, Distinct
<1> QED BY <1>1, <1>3, <1>4

(* What Tail takes away.                                                   *)
LEMMA TailFacts ==
    ASSUME NEW S, NEW s \in Seq(S), s # <<>>
    PROVE  /\ Tail(s) \in Seq(S) /\ Head(s) \in S
           /\ \A y : In(s, y) <=> In(Tail(s), y) \/ y = Head(s)
           /\ Distinct(s) => Distinct(Tail(s)) /\ ~In(Tail(s), Head(s))
<1>1. /\ Tail(s) \in Seq(S) /\ Head(s) \in S /\ Len(s) \in Nat /\ Len(s) > 0
      /\ Len(Tail(s)) = Len(s) - 1 /\ Head(s) = s[1]
      /\ \A i \in 1..Len(Tail(s)) : Tail(s)[i] = s[i + 1]
  OBVIOUS
<1>2. \A i \in 1..Len(s) : i = 1 \/ i - 1 \in 1..Len(Tail(s))
  BY <1>1
<1>3. \A i \in 1..Len(Tail(s)) : i + 1 \in 1..Len(s) /\ i + 1 # 1
  BY <1>1
<1>4. ASSUME NEW y PROVE In(s, y) <=> In(Tail(s), y) \/ y = Head(s)
  <2>1. ASSUME In(s, y), y # Head(s) PROVE In(Tail(s), y)
    <3>1. PICK i \in 1..Len(s) : s[i] = y
      BY <2>1 DEF In
    <3>2. i - 1 \in 1..Len(Tail(s)) /\ Tail(s)[i - 1] = y
      BY <1>1, <1>2, <2>1, <3>1
    <3> QED BY <3>2 DEF In
  <2>2. ASSUME In(Tail(s), y) PROVE In(s, y)
    BY <1>1, <1>3, <2>2 DEF In
  <2>3. ASSUME y = Head(s) PROVE In(s, y)
    BY <1>1, <2>3 DEF In
  <2> QED BY <2>1, <2>2, <2>3
<1>5. ASSUME Distinct(s) PROVE Distinct(Tail(s)) /\ ~In(Tail(s), Head(s))
  <2>1. ASSUME NEW i \in 1..Len(Tail(s)), NEW j \in 1..Len(Tail(s)), Tail(s)[i] = Tail(s)[j]
        PROVE  i = j
    <3>1. i + 1 = j + 1
      BY <1>1, <1>3, <1>5, <2>1 DEF Distinct
    <3> QED BY <3>1
  <2>2. ASSUME NEW i \in 1..Len(Tail(s)), Tail(s)[i] = Head(s) PROVE FALSE
    <3>1. i + 1 = 1
      BY <1>1, <1>3, <1>5, <2>2 DEF Distinct
    <3> QED BY <3>1
  <2> QED BY <2>1, <2>2 DEF Distinct, In
<1> QED BY <1>1, <1>4, <1>5

(* A sequence without repetition is no longer than the set it is over.     *)
LEMMA DistinctBounded ==
    ASSUME NEW S, IsFiniteSet(S), NEW s \in Seq(S), Distinct(s)
    PROVE  Len(s) <= Cardinality(S)
<1>1. Len(s) \in Nat /\ s \in [1..Len(s) -> S]
  BY SMTT(20)
<1>2. IsFiniteSet(1..Len(s)) /\ Cardinality(1..Len(s)) = Len(s)
  BY <1>1, FS_Interval
<1>3. Cardinality(S) \in Nat
  BY FS_CardinalityType
<1>4. CASE Cardinality(S) < Len(s)
  <2>1. \E i, j \in 1..Len(s) : i # j /\ s[i] = s[j]
    BY <1>1, <1>2, <1>4, FS_PigeonHole
  <2> QED BY <2>1 DEF Distinct
<1> QED BY <1>1, <1>3, <1>4

(* Counting the places of an element in a sequence without repetition.     *)
LEMMA CountDistinct ==
    ASSUME NEW S, NEW s \in Seq(S), Distinct(s), NEW x
    PROVE  Count(s, x) = One(In(s, x))
<1> DEFINE P == {i \in 1..Len(s) : s[i] = x}
<1>1. CASE In(s, x)
  <2>1. PICK i \in 1..Len(s) : s[i] = x
    BY <1>1 DEF In
  <2>2. P = {i}
    BY <2>1 DEF Distinct
  <2>3. Cardinality(P) = 1
    BY <2>2, FS_Singleton
  <2> QED BY <1>1, <2>3 DEF Count, One
<1>2. CASE ~In(s, x)
  <2>1. P = {}
    BY <1>2 DEF In
  <2>2. Cardinality(P) = 0
    BY <2>1, FS_EmptySet
  <2> QED BY <1>2, <2>2 DEF Count, One
<1> QED BY <1>1, <1>2

-----------------------------------------------------------------------------
(* The invariant gives what was to be shown of one state.                  *)

(* No mailbox is longer than what can be put in it.                        *)
LEMMA InvNeverFull == IInv => NeverFull
<1> SUFFICES ASSUME IInv PROVE NeverFull
  OBVIOUS
<1> USE StackAssumption
<1>1. ~Full(mbox)
  <2>1. IsFiniteSet({Server}) /\ IsFiniteSet({Server} \cup {Client})
    BY FS_Singleton, FS_AddElement
  <2>2. IsFiniteSet(InCells \cup Apps)
    BY <2>1, FS_Union DEF Apps
  <2>3. mbox \in Seq(InCells \cup Apps) /\ Distinct(mbox)
    BY DEF IInv, TypeOK, Cells
  <2>4. Len(mbox) <= Cardinality(InCells \cup Apps)
    BY <2>2, <2>3, DistinctBounded
  <2>5. Len(mbox) \in Nat /\ Cardinality(InCells \cup Apps) \in Nat
    BY <2>2, <2>3, FS_CardinalityType
  <2> QED BY <2>4, <2>5 DEF Full, StackAssumption
<1>2. ASSUME NEW a \in Apps PROVE ~Full(recvmbox[a])
  <2>1. recvmbox[a] \in Seq(Netbufs) /\ Distinct(recvmbox[a])
    BY DEF IInv, TypeOK, Bufs
  <2>2. IsFiniteSet(Netbufs)
    BY DEF StackAssumption
  <2>3. Len(recvmbox[a]) <= Cardinality(Netbufs)
    BY <2>1, <2>2, DistinctBounded
  <2>4. Len(recvmbox[a]) \in Nat /\ Cardinality(Netbufs) \in Nat
    BY <2>1, <2>2, FS_CardinalityType
  <2> QED BY <2>3, <2>4 DEF Full, StackAssumption
<1> QED BY <1>1, <1>2 DEF NeverFull

(* Cells and netbufs counted.                                              *)
LEMMA InvOnePlace == IInv => OnePlace
<1> SUFFICES ASSUME IInv PROVE OnePlace
  OBVIOUS
<1>1. ASSUME NEW c \in InCells
      PROVE  Count(mbox, c) + One(c \in freeIn) + One(netcard.cell = c) + One(tcpip = c) = 1
  <2>1. Count(mbox, c) = One(In(mbox, c))
    BY CountDistinct DEF IInv, TypeOK, Cells
  <2>2. /\ In(mbox, c) => c \notin freeIn /\ netcard.cell # c /\ tcpip # c
        /\ c \in freeIn => netcard.cell # c /\ tcpip # c
        /\ netcard.cell = c => tcpip # c
        /\ In(mbox, c) \/ c \in freeIn \/ netcard.cell = c \/ tcpip = c
    BY DEF IInv, Cells
  <2> QED BY <2>1, <2>2 DEF One
<1>2. ASSUME NEW b \in Netbufs
      PROVE  Count(recvmbox[Server], b) + Count(recvmbox[Client], b)
               + One(b \in freeNetbuf) + One(held = b) = 1
  <2>1. Server \in Apps /\ Client \in Apps
    BY DEF Apps
  <2>2. \A a \in Apps : Count(recvmbox[a], b) = One(In(recvmbox[a], b))
    BY CountDistinct DEF IInv, TypeOK, Bufs
  <2>3. /\ \A a \in Apps : In(recvmbox[a], b) => b \notin freeNetbuf /\ held # b
        /\ In(recvmbox[Server], b) => ~In(recvmbox[Client], b)
        /\ b \in freeNetbuf => held # b
        /\ \/ In(recvmbox[Server], b) \/ In(recvmbox[Client], b)
           \/ b \in freeNetbuf \/ held = b
    BY DEF IInv, Bufs
  <2> QED BY <2>1, <2>2, <2>3 DEF One
<1> QED BY <1>1, <1>2 DEF OnePlace

(* Messages and answers counted.                                           *)
LEMMA InvCallMatched == IInv => CallMatched
<1> SUFFICES ASSUME IInv, NEW a \in Apps
    PROVE  Count(mbox, a) + One(tcpip = a) + sem[a] = One(pc[a] = "wait")
  BY DEF CallMatched
<1>1. Count(mbox, a) = One(In(mbox, a))
  BY CountDistinct DEF IInv, TypeOK, Cells
<1>2. /\ In(mbox, a) => tcpip # a /\ sem[a] = 0 /\ pc[a] = "wait"
      /\ tcpip = a => sem[a] = 0 /\ pc[a] = "wait"
      /\ sem[a] = 1 => pc[a] = "wait"
      /\ pc[a] = "wait" => In(mbox, a) \/ tcpip = a \/ sem[a] = 1
      /\ sem[a] \in {0, 1}
  BY DEF IInv, Messages, TypeOK
<1> QED BY <1>1, <1>2 DEF One

-----------------------------------------------------------------------------
(* Every step keeps the invariant.                                         *)

(* The initial states.                                                     *)
LEMMA InitInv == Init => IInv
<1> SUFFICES ASSUME Init PROVE IInv
  OBVIOUS
<1> USE StackAssumption DEF StackAssumption, Init
<1>1. TypeOK
  BY DEF TypeOK, Apps, Pcs, InBegin
<1>2. \A x : ~In(<<>>, x) /\ Distinct(<<>>)
  BY DEF In, Distinct
<1>3. Cells
  BY <1>2 DEF Cells
<1>4. Messages
  BY <1>2 DEF Messages, Apps, Tasks
<1>5. Bufs
  BY <1>2 DEF Bufs, Apps, Tasks
<1> QED BY <1>1, <1>3, <1>4, <1>5 DEF IInv

(* The parts of the state that an action leaves alone.                     *)
netRest == <<tcpip, pc, chips, call, sem, recvmbox, freeNetbuf, held, bound, kernel>>
tcpRest == <<netcard, pc, chips, call, held, kernel>>

(* A part of the invariant whose variables do not change still holds.      *)
LEMMA Untouched ==
    /\ Cells /\ UNCHANGED <<mbox, freeIn, netcard, tcpip>> => Cells'
    /\ Messages /\ UNCHANGED <<mbox, tcpip, sem, pc>> => Messages'
    /\ Bufs /\ UNCHANGED <<recvmbox, freeNetbuf, held>> /\ pc'[Server] # "delete"
         /\ pc[Server] # "delete" => Bufs'
    /\ Bufs /\ UNCHANGED <<recvmbox, freeNetbuf, held, pc>> => Bufs'
  BY DEF Cells, Messages, Bufs, In, Distinct

(* The driver.                                                             *)
LEMMA NetcardInv == IInv /\ Netcard => IInv'
<1> SUFFICES ASSUME IInv, Netcard PROVE IInv'
  OBVIOUS
<1> USE StackAssumption DEF StackAssumption
<1>0. UNCHANGED netRest
  BY DEF Netcard, netRest
<1>1. Bufs'
  BY <1>0, Untouched DEF IInv, netRest
<1>2. CASE InputValid
  <2>1. PICK to \in Apps \cup {None} :
           netcard' = IF Full(mbox) THEN netcard
                      ELSE [pc |-> "alloc", to |-> to, cell |-> None]
    BY <1>2 DEF InputValid
  <2>2. UNCHANGED <<mbox, freeIn, packet>> /\ netcard.pc = "idle"
    BY <1>2 DEF InputValid
  <2>3. TypeOK'
    BY <1>0, <2>1, <2>2 DEF IInv, TypeOK, netRest
  <2>4. netcard'.cell = netcard.cell /\ netcard'.pc # "post"
    BY <2>1, <2>2 DEF IInv, Cells
  <2>5. Cells'
    BY <1>0, <2>2, <2>4 DEF IInv, Cells, In, Distinct, netRest
  <2>6. Messages'
    BY <1>0, <2>2, Untouched DEF IInv, netRest
  <2> QED BY <1>1, <2>3, <2>5, <2>6 DEF IInv
<1>3. CASE InputAlloc
  <2>1. netcard.pc = "alloc" /\ UNCHANGED mbox
    BY <1>3 DEF InputAlloc
  <2>2. Messages'
    BY <1>0, <2>1, Untouched DEF IInv, netRest
  <2>3. CASE \E c \in freeIn : TakeCell(c)
    <3>1. PICK c \in freeIn : TakeCell(c)
      BY <2>3
    <3>2. c \in InCells /\ netcard.to \in Apps \cup {None}
      BY DEF IInv, TypeOK
    <3>3. /\ netcard' = [netcard EXCEPT !.pc = "post", !.cell = c]
          /\ packet' = [packet EXCEPT ![c] = netcard.to] /\ freeIn' = freeIn \ {c}
      BY <3>1 DEF TakeCell
    <3>4. TypeOK'
      BY <1>0, <2>1, <3>2, <3>3 DEF IInv, TypeOK, netRest
    <3>5. netcard'.pc = "post" /\ netcard'.cell = c
      BY <3>3 DEF IInv, TypeOK
    <3>6. netcard.cell = None
      BY <2>1 DEF IInv, Cells
    <3>7. Cells'
      BY <1>0, <2>1, <3>2, <3>3, <3>5, <3>6 DEF IInv, Cells, In, Distinct, netRest
    <3> QED BY <1>1, <2>2, <3>4, <3>7 DEF IInv
  <2>4. CASE freeIn = {} /\ ToIdle /\ UNCHANGED <<freeIn, packet>>
    <3>1. TypeOK'
      BY <1>0, <2>1, <2>4 DEF IInv, TypeOK, netRest, ToIdle
    <3>2. netcard'.pc = "idle" /\ netcard'.cell = None /\ netcard.cell = None
      BY <2>1, <2>4 DEF IInv, Cells, ToIdle
    <3>3. Cells'
      BY <1>0, <2>1, <2>4, <3>2 DEF IInv, Cells, In, Distinct, netRest
    <3> QED BY <1>1, <2>2, <3>1, <3>3 DEF IInv
  <2> QED BY <1>3, <2>3, <2>4 DEF InputAlloc
<1>4. CASE InputPost
  <2>1. netcard.pc = "post" /\ netcard'.pc = "idle" /\ netcard'.cell = None
        /\ netcard' = [pc |-> "idle", to |-> None, cell |-> None]
    BY <1>4 DEF InputPost, ToIdle
  <2>2. ~Full(mbox)
    BY InvNeverFull DEF NeverFull
  <2>3. mbox' = Append(mbox, netcard.cell) /\ UNCHANGED <<freeIn, packet>>
    BY <1>4, <2>2 DEF InputPost
  <2>4. netcard.cell \in InCells
    BY <2>1 DEF IInv, Cells, TypeOK
  <2> DEFINE c == netcard.cell
  <2>5. mbox \in Seq(InCells \cup Apps) /\ c \in InCells \cup Apps
    BY <2>4 DEF IInv, TypeOK
  <2>6. /\ mbox' \in Seq(InCells \cup Apps)
        /\ \A y : In(mbox', y) <=> In(mbox, y) \/ y = c
        /\ Distinct(mbox) /\ ~In(mbox, c) => Distinct(mbox')
    BY <2>3, <2>5, AppendFacts
  <2>7. TypeOK'
    BY <1>0, <2>1, <2>3, <2>6 DEF IInv, TypeOK, netRest
  <2>8. Cells'
    BY <1>0, <2>1, <2>3, <2>4, <2>6 DEF IInv, Cells, netRest
  <2>9. Messages'
    BY <1>0, <2>4, <2>6 DEF IInv, Messages, netRest
  <2> QED BY <1>1, <2>7, <2>8, <2>9 DEF IInv
<1> QED BY <1>2, <1>3, <1>4 DEF Netcard

(* tcpip_thread.                                                           *)
LEMMA TcpipInv == IInv /\ Tcpip => IInv'
<1> SUFFICES ASSUME IInv, Tcpip PROVE IInv'
  OBVIOUS
<1> USE StackAssumption DEF StackAssumption
<1>0. UNCHANGED tcpRest
  BY DEF Tcpip, tcpRest
<1>1. CASE Fetch
  <2>1. /\ tcpip = None /\ mbox # <<>> /\ tcpip' = Head(mbox) /\ mbox' = Tail(mbox)
        /\ UNCHANGED <<freeIn, packet, sem, recvmbox, freeNetbuf, bound>>
    BY <1>1 DEF Fetch
  <2>2. mbox \in Seq(InCells \cup Apps) /\ Distinct(mbox)
    BY DEF IInv, TypeOK, Cells
  <2>3. /\ mbox' \in Seq(InCells \cup Apps) /\ tcpip' \in InCells \cup Apps
        /\ \A y : In(mbox, y) <=> In(mbox', y) \/ y = tcpip'
        /\ Distinct(mbox') /\ ~In(mbox', tcpip')
    BY <2>1, <2>2, TailFacts
  <2>4. TypeOK'
    BY <1>0, <2>1, <2>3 DEF IInv, TypeOK, tcpRest
  <2>5. Cells'
    BY <1>0, <2>1, <2>3 DEF IInv, Cells, tcpRest
  <2>6. Messages'
    BY <1>0, <2>1, <2>3 DEF IInv, Messages, tcpRest
  <2>7. Bufs'
    BY <1>0, <2>1, Untouched DEF IInv, tcpRest
  <2> QED BY <2>4, <2>5, <2>6, <2>7 DEF IInv
<1>2. CASE Packet
  <2>1. /\ tcpip \in InCells /\ tcpip' = None /\ UNCHANGED <<mbox, sem, bound>>
        /\ packet' = [packet EXCEPT ![tcpip] = None] /\ freeIn' = freeIn \cup {tcpip}
    BY <1>2 DEF Packet, FreeCell
  <2>2. Cells'
    BY <1>0, <2>1 DEF IInv, Cells, In, Distinct, tcpRest
  <2>3. Messages'
    BY <1>0, <2>1 DEF IInv, Messages, In, tcpRest
  <2>4. \/ UNCHANGED <<recvmbox, freeNetbuf>>
        \/ \E a \in Apps : \E b \in freeNetbuf :
              /\ freeNetbuf' = freeNetbuf \ {b}
              /\ recvmbox' = [recvmbox EXCEPT ![a] = Append(@, b)]
    BY <1>2 DEF Packet, RecvUdp, IInv, TypeOK
  <2>5. CASE UNCHANGED <<recvmbox, freeNetbuf>>
    <3>1. TypeOK'
      BY <1>0, <2>1, <2>5 DEF IInv, TypeOK, tcpRest
    <3>2. Bufs'
      BY <1>0, <2>5, Untouched DEF IInv, tcpRest
    <3> QED BY <2>2, <2>3, <3>1, <3>2 DEF IInv
  <2>6. ASSUME NEW a \in Apps, NEW b \in freeNetbuf, freeNetbuf' = freeNetbuf \ {b},
               recvmbox' = [recvmbox EXCEPT ![a] = Append(@, b)]
        PROVE  IInv'
    <3>1. b \in Netbufs /\ recvmbox \in [Apps -> Seq(Netbufs)] /\ ~In(recvmbox[a], b)
          /\ Distinct(recvmbox[a])
      BY DEF IInv, TypeOK, Bufs
    <3>2. /\ Append(recvmbox[a], b) \in Seq(Netbufs)
          /\ \A y : In(Append(recvmbox[a], b), y) <=> In(recvmbox[a], y) \/ y = b
          /\ Distinct(Append(recvmbox[a], b))
      BY <3>1, AppendFacts
    <3>3. /\ recvmbox'[a] = Append(recvmbox[a], b)
          /\ \A d \in Apps : d # a => recvmbox'[d] = recvmbox[d]
      BY <2>6, <3>1
    <3>4. TypeOK'
      BY <1>0, <2>1, <2>6, <3>2 DEF IInv, TypeOK, tcpRest
    <3>5. ASSUME NEW d \in Apps PROVE Distinct(recvmbox'[d])
      BY <3>2, <3>3 DEF IInv, Bufs
    <3>6. ASSUME NEW d \in Apps, NEW y
          PROVE  In(recvmbox'[d], y) <=> In(recvmbox[d], y) \/ (d = a /\ y = b)
      BY <3>2, <3>3
    <3>7. Server \in Apps /\ Client \in Apps
      BY DEF Apps
    <3>8. \/ a = Server /\ a # Client
          \/ a = Client /\ a # Server
      BY DEF Apps
    <3>9. pc' = pc /\ held' = held
      BY <1>0 DEF tcpRest
    <3>10. Bufs'
      BY <2>6, <3>1, <3>5, <3>6, <3>7, <3>8, <3>9 DEF IInv, Bufs
    <3> QED BY <2>2, <2>3, <3>4, <3>10 DEF IInv
  <2> QED BY <2>4, <2>5, <2>6
<1>3. CASE Api
  <2>1. /\ tcpip \in Apps /\ tcpip' = None /\ sem' = [sem EXCEPT ![tcpip] = @ + 1]
        /\ UNCHANGED <<mbox, freeIn, packet, recvmbox, freeNetbuf>>
        /\ bound' \in {bound, bound \cup {tcpip}}
    BY <1>3 DEF Api, Ack
  <2>2. sem[tcpip] = 0 /\ pc[tcpip] = "wait" /\ ~In(mbox, tcpip)
    BY <2>1 DEF IInv, Messages
  <2>3. sem' \in [Apps -> {0, 1}] /\ sem'[tcpip] = 1
        /\ \A a \in Apps : a # tcpip => sem'[a] = sem[a]
    BY <2>1, <2>2 DEF IInv, TypeOK
  <2>4. TypeOK'
    BY <1>0, <2>1, <2>3 DEF IInv, TypeOK, tcpRest
  <2>5. Cells'
    BY <1>0, <2>1 DEF IInv, Cells, In, Distinct, tcpRest
  <2>6. pc' = pc /\ mbox' = mbox
    BY <1>0, <2>1 DEF tcpRest
  <2>7. \A a \in Apps : In(mbox, a) => a # tcpip
    BY <2>2
  <2>8. Messages'
    BY <2>1, <2>2, <2>3, <2>6, <2>7 DEF IInv, Messages
  <2>9. Bufs'
    BY <1>0, <2>1, Untouched DEF IInv, tcpRest
  <2> QED BY <2>4, <2>5, <2>8, <2>9 DEF IInv
<1> QED BY <1>1, <1>2, <1>3 DEF Tcpip

(* The tasks: what all their steps leave alone, and a step that moves pc[a] *)
(* between values that are neither waiting nor deleting.                   *)
LEMMA MoveInv ==
    ASSUME IInv, NEW a \in Tasks, NEW to \in Pcs \ {"wait", "delete"},
           UNCHANGED stackVars,
           UNCHANGED <<mbox, sem, recvmbox, freeNetbuf, held>>,
           pc' = [pc EXCEPT ![a] = to], pc[a] \notin {"wait", "delete"},
           call' \in [Apps -> {"newconn", "bind", "send"}],
           kernel' \in [events : Nat, queues : Nat]
    PROVE  IInv'
<1>1. TypeOK'
  BY DEF IInv, TypeOK, stackVars
<1>2. /\ pc \in [Tasks -> Pcs] /\ Server \in Tasks /\ Apps \subseteq Tasks
  BY DEF IInv, TypeOK, Apps, Tasks
<1>3. /\ pc'[a] # "wait" /\ pc'[a] # "delete"
      /\ \A d \in Tasks : d # a => pc'[d] = pc[d]
  BY <1>2
<1>4. Cells'
  BY Untouched DEF IInv, stackVars
<1>5. Messages'
  BY <1>2, <1>3 DEF IInv, Messages, In, stackVars
<1>6. pc'[Server] = "delete" <=> pc[Server] = "delete"
  BY <1>2, <1>3
<1>7. Bufs'
  BY <1>6 DEF IInv, Bufs, In, Distinct
<1> QED BY <1>1, <1>4, <1>5, <1>7 DEF IInv

(* Creating a socket and calling the stack.                                *)
LEMMA CallsInv ==
    ASSUME IInv, NEW a \in Apps, Calls(a), UNCHANGED stackVars
    PROVE  IInv'
<1> USE DEF Pcs, InBegin, InCalls, InLoops
<1>0. /\ pc \in [Tasks -> Pcs] /\ a \in Tasks /\ Server \in Tasks /\ Apps \subseteq Tasks
      /\ call \in [Apps -> {"newconn", "bind", "send"}]
      /\ kernel \in [events : Nat, queues : Nat] /\ sem \in [Apps -> {0, 1}]
      /\ ~Full(mbox)
  BY InvNeverFull DEF IInv, TypeOK, Apps, Tasks, NeverFull
<1>1. CASE SemNew(a)
  <2>1. /\ pc[a] = "sem" /\ UNCHANGED <<mbox, call, sem, recvmbox, freeNetbuf, held>>
        /\ \E to \in {"mbox", "dead"} : pc' = [pc EXCEPT ![a] = to]
    BY <1>1 DEF SemNew, Goto
  <2>2. kernel' \in [events : Nat, queues : Nat]
    BY <1>0, <1>1 DEF SemNew
  <2> QED BY <1>0, <2>1, <2>2, MoveInv
<1>2. CASE MboxNew(a)
  <2>1. /\ pc[a] = "mbox" /\ UNCHANGED <<mbox, call, sem, recvmbox, freeNetbuf, held>>
        /\ \E to \in {"valid", "dead"} : pc' = [pc EXCEPT ![a] = to]
    BY <1>2 DEF MboxNew, Goto
  <2>2. kernel' \in [events : Nat, queues : Nat]
    BY <1>0, <1>2 DEF MboxNew, SemFree
  <2> QED BY <1>0, <2>1, <2>2, MoveInv
<1>3. CASE ApiValid(a)
  <2>1. /\ pc[a] = "valid" /\ UNCHANGED <<mbox, call, sem, recvmbox, freeNetbuf, held>>
        /\ pc' = [pc EXCEPT ![a] = "post"] /\ UNCHANGED kernel
    BY <1>0, <1>3 DEF ApiValid
  <2> QED BY <1>0, <2>1, MoveInv
<1>4. CASE ApiPost(a)
  <2>1. /\ pc[a] = "post" /\ pc' = [pc EXCEPT ![a] = "wait"] /\ mbox' = Append(mbox, a)
        /\ UNCHANGED <<call, sem, recvmbox, freeNetbuf, held, kernel>>
    BY <1>4 DEF ApiPost, Goto, AfterPost
  <2>2. ~In(mbox, a) /\ tcpip # a /\ sem[a] = 0
    BY <1>0, <2>1 DEF IInv, Messages
  <2>3. mbox \in Seq(InCells \cup Apps) /\ Distinct(mbox) /\ a \notin InCells
    BY StackAssumption DEF IInv, TypeOK, Cells, StackAssumption
  <2>4. /\ mbox' \in Seq(InCells \cup Apps)
        /\ \A y : In(mbox', y) <=> In(mbox, y) \/ y = a
        /\ Distinct(mbox')
    BY <2>1, <2>2, <2>3, AppendFacts
  <2>5. pc'[a] = "wait" /\ \A d \in Tasks : d # a => pc'[d] = pc[d]
    BY <1>0, <2>1
  <2>6. TypeOK'
    BY <2>1, <2>4 DEF IInv, TypeOK, stackVars
  <2>7. Cells'
    BY <2>3, <2>4 DEF IInv, Cells, stackVars
  <2>8. Messages'
    BY <1>0, <2>1, <2>2, <2>4, <2>5 DEF IInv, Messages, stackVars
  <2>9. pc'[Server] = "delete" <=> pc[Server] = "delete"
    BY <1>0, <2>1, <2>5
  <2>10. Bufs'
    BY <2>1, <2>9 DEF IInv, Bufs, In, Distinct
  <2> QED BY <2>6, <2>7, <2>8, <2>10 DEF IInv
<1>5. CASE ApiWait(a)
  <2>1. /\ sem[a] > 0 /\ sem' = [sem EXCEPT ![a] = @ - 1] /\ pc[a] = "wait"
        /\ UNCHANGED <<mbox, recvmbox, freeNetbuf, held, kernel>>
        /\ \E to \in {"valid", "recv", "record", "idle"} : pc' = [pc EXCEPT ![a] = to]
        /\ call' \in [Apps -> {"newconn", "bind", "send"}]
    BY <1>0, <1>5 DEF ApiWait, Goto
  <2>2. sem[a] = 1 /\ ~In(mbox, a) /\ tcpip # a
    BY <1>0, <2>1 DEF IInv, Messages
  <2>3. /\ sem' \in [Apps -> {0, 1}] /\ sem'[a] = 0
        /\ \A d \in Apps : d # a => sem'[d] = sem[d]
    BY <1>0, <2>1, <2>2
  <2>4. /\ pc' \in [Tasks -> Pcs] /\ pc'[a] \notin {"wait", "delete"}
        /\ \A d \in Tasks : d # a => pc'[d] = pc[d]
    BY <1>0, <2>1
  <2>5. TypeOK'
    BY <2>1, <2>3, <2>4 DEF IInv, TypeOK, stackVars
  <2>6. Cells'
    BY <2>1, Untouched DEF IInv, stackVars
  <2>7. mbox' = mbox /\ tcpip' = tcpip
    BY <2>1 DEF stackVars
  <2>8. Messages'
    BY <1>0, <2>2, <2>3, <2>4, <2>7 DEF IInv, Messages
  <2>9. pc'[Server] = "delete" <=> pc[Server] = "delete"
    BY <1>0, <2>1, <2>4
  <2>10. Bufs'
    BY <2>1, <2>9 DEF IInv, Bufs, In, Distinct
  <2> QED BY <2>5, <2>6, <2>8, <2>10 DEF IInv
<1> QED BY <1>1, <1>2, <1>3, <1>4, <1>5 DEF Calls

(* sendto and recvfrom.                                                    *)
LEMMA LoopInv == IInv /\ (Send \/ Recv) /\ UNCHANGED stackVars => IInv'
<1> SUFFICES ASSUME IInv, Send \/ Recv, UNCHANGED stackVars PROVE IInv'
  OBVIOUS
<1> USE StackAssumption DEF StackAssumption
<1> USE DEF Pcs, InBegin, InCalls, InLoops
<1>0. /\ pc \in [Tasks -> Pcs] /\ Server \in Tasks /\ Client \in Tasks /\ Apps \subseteq Tasks
      /\ call \in [Apps -> {"newconn", "bind", "send"}]
      /\ kernel \in [events : Nat, queues : Nat]
      /\ Server \in Apps /\ Client \in Apps /\ ~Full(recvmbox[Server])
      /\ recvmbox \in [Apps -> Seq(Netbufs)] /\ freeNetbuf \in SUBSET Netbufs
  BY InvNeverFull DEF IInv, TypeOK, Apps, Tasks, NeverFull
<1>1. CASE Send
  <2>1. /\ pc[Client] = "idle" /\ pc' = [pc EXCEPT ![Client] = "valid"]
        /\ call' = [call EXCEPT ![Client] = "send"]
        /\ UNCHANGED <<mbox, sem, recvmbox, freeNetbuf, held, kernel>>
    BY <1>1 DEF Send, Goto
  <2>2. call' \in [Apps -> {"newconn", "bind", "send"}]
    BY <1>0, <2>1
  <2> QED BY <1>0, <2>1, <2>2, MoveInv
<1>2. CASE RecvValid
  <2>1. /\ pc[Server] = "recv" /\ pc' = [pc EXCEPT ![Server] = "fetch"]
        /\ UNCHANGED <<mbox, call, sem, recvmbox, freeNetbuf, held, kernel>>
    BY <1>0, <1>2 DEF RecvValid, Goto
  <2> QED BY <1>0, <2>1, MoveInv
<1>3. CASE RecvFetch
  <2>1. /\ pc[Server] = "fetch" /\ pc' = [pc EXCEPT ![Server] = "delete"]
        /\ recvmbox[Server] # <<>> /\ held' = Head(recvmbox[Server])
        /\ recvmbox' = [recvmbox EXCEPT ![Server] = Tail(@)]
        /\ UNCHANGED <<mbox, call, sem, freeNetbuf, kernel>>
    BY <1>3 DEF RecvFetch, Goto
  <2>2. Distinct(recvmbox[Server]) /\ recvmbox[Server] \in Seq(Netbufs)
    BY <1>0 DEF IInv, Bufs
  <2>3. /\ Tail(recvmbox[Server]) \in Seq(Netbufs) /\ held' \in Netbufs
        /\ \A y : In(recvmbox[Server], y) <=> In(Tail(recvmbox[Server]), y) \/ y = held'
        /\ Distinct(Tail(recvmbox[Server])) /\ ~In(Tail(recvmbox[Server]), held')
    BY <2>1, <2>2, TailFacts
  <2>4. /\ recvmbox'[Server] = Tail(recvmbox[Server])
        /\ recvmbox'[Client] = recvmbox[Client] /\ Server # Client
        /\ recvmbox' \in [Apps -> Seq(Netbufs)]
    BY <1>0, <2>1, <2>3
  <2>5. TypeOK'
    BY <2>1, <2>3, <2>4 DEF IInv, TypeOK, stackVars
  <2>6. Cells'
    BY <2>1, Untouched DEF IInv, stackVars
  <2>7. \A d \in Apps : (pc'[d] = "wait" <=> pc[d] = "wait")
    BY <1>0, <2>1
  <2>8. Messages'
    BY <2>1, <2>7 DEF IInv, Messages, In, stackVars
  <2>9. pc'[Server] = "delete" /\ held' # None /\ held = None
    BY <1>0, <2>1, <2>3 DEF IInv, Bufs
  <2>10. \A d \in Apps : d = Server \/ d = Client
    BY DEF Apps
  <2>11. \A d \in Apps : Distinct(recvmbox'[d])
    BY <2>3, <2>4, <2>10 DEF IInv, Bufs
  <2>12. ASSUME NEW b \in Netbufs
         PROVE  /\ \A d \in Apps : In(recvmbox'[d], b) => b \notin freeNetbuf' /\ held' # b
                /\ In(recvmbox'[Server], b) => ~In(recvmbox'[Client], b)
                /\ b \in freeNetbuf' => held' # b
                /\ \/ In(recvmbox'[Server], b) \/ In(recvmbox'[Client], b)
                   \/ b \in freeNetbuf' \/ held' = b
    <3>1. /\ \A d \in Apps : In(recvmbox[d], b) => b \notin freeNetbuf
          /\ In(recvmbox[Server], b) => ~In(recvmbox[Client], b)
          /\ \/ In(recvmbox[Server], b) \/ In(recvmbox[Client], b)
             \/ b \in freeNetbuf \/ held = b
      BY DEF IInv, Bufs
    <3> QED BY <1>0, <2>1, <2>3, <2>4, <2>9, <2>10, <3>1
  <2>13. Bufs'
    BY <2>9, <2>11, <2>12 DEF Bufs
  <2> QED BY <2>5, <2>6, <2>8, <2>13 DEF IInv
<1>4. CASE RecvDelete
  <2>1. /\ pc[Server] = "delete" /\ pc' = [pc EXCEPT ![Server] = "recv"]
        /\ freeNetbuf' = freeNetbuf \cup {held} /\ held' = None
        /\ UNCHANGED <<mbox, call, sem, recvmbox, kernel>>
    BY <1>4 DEF RecvDelete, Goto, NetbufDelete
  <2>2. held \in Netbufs
    BY <2>1 DEF IInv, Bufs, TypeOK
  <2>3. TypeOK'
    BY <2>1, <2>2 DEF IInv, TypeOK, stackVars
  <2>4. Cells'
    BY <2>1, Untouched DEF IInv, stackVars
  <2>5. \A d \in Apps : (pc'[d] = "wait" <=> pc[d] = "wait")
    BY <1>0, <2>1
  <2>6. Messages'
    BY <2>1, <2>5 DEF IInv, Messages, In, stackVars
  <2>7. pc'[Server] = "recv"
    BY <1>0, <2>1
  <2>8. Bufs'
    BY <2>1, <2>2, <2>7 DEF IInv, Bufs, In, Distinct
  <2> QED BY <2>3, <2>4, <2>6, <2>8 DEF IInv
<1> QED BY <1>1, <1>2, <1>3, <1>4 DEF Recv

(* The beginning of a task.                                                *)
LEMMA BeginInv ==
    ASSUME IInv, NEW t \in Tasks, Begin(t), UNCHANGED stackVars
    PROVE  IInv'
<1> USE DEF Pcs, InBegin, InCalls, InLoops
<1>1. UNCHANGED <<mbox, call, sem, recvmbox, freeNetbuf, held, kernel>>
  BY DEF Begin
<1>2. /\ call \in [Apps -> {"newconn", "bind", "send"}]
      /\ kernel \in [events : Nat, queues : Nat] /\ Play \in Tasks /\ Client \in Tasks
  BY DEF IInv, TypeOK, Tasks
<1>3. CASE Start(t)
  BY <1>1, <1>2, <1>3, MoveInv DEF Start, Goto
<1>4. CASE Alloc(t)
  <2>1. pc[t] = "alloc" /\ \E to \in {"restart", "sem"} : pc' = [pc EXCEPT ![t] = to]
    BY <1>4 DEF Alloc, Goto
  <2> QED BY <1>1, <1>2, <2>1, MoveInv
<1>5. CASE Restart
  BY <1>1, <1>2, <1>5, MoveInv DEF Restart, Goto
<1>6. CASE Record
  BY <1>1, <1>2, <1>6, MoveInv DEF Record, Goto
<1> QED BY <1>3, <1>4, <1>5, <1>6 DEF Begin

(* What the tasks do in a step of theirs.                                  *)
LEMMA TaskStep ==
    ASSUME NEW t \in Tasks, Task(t)
    PROVE  /\ MayRun(t) /\ UNCHANGED stackVars
           /\ Begin(t) \/ (t \in Apps /\ Calls(t)) \/ (t = Server /\ Recv)
  BY DEF Task, Work

(* One step of anything.                                                   *)
LEMMA StepInv == IInv /\ [Next]_vars => IInv'
<1> SUFFICES ASSUME IInv, [Next]_vars PROVE IInv'
  OBVIOUS
<1>1. CASE Netcard
  BY <1>1, NetcardInv
<1>2. CASE Tcpip
  BY <1>2, TcpipInv
<1>3. ASSUME NEW t \in Tasks, Task(t) PROVE IInv'
  BY <1>3, TaskStep, BeginInv, CallsInv, LoopInv
<1>4. CASE ClientSends
  BY <1>4, LoopInv DEF ClientSends
<1>5. CASE UNCHANGED vars
  <2>1. TypeOK'
    BY <1>5 DEF vars, IInv, TypeOK
  <2>2. Cells'
    BY <1>5 DEF vars, IInv, Cells, In, Distinct
  <2>3. Messages'
    BY <1>5 DEF vars, IInv, Messages, In
  <2>4. Bufs'
    BY <1>5 DEF vars, IInv, Bufs, In, Distinct
  <2> QED BY <2>1, <2>2, <2>3, <2>4 DEF IInv
<1> QED BY <1>1, <1>2, <1>3, <1>4, <1>5 DEF Next

-----------------------------------------------------------------------------
(* The kernel's blocks.                                                    *)

(* What a step of one task may do to its own socket and the free blocks.   *)
LEMMA KernelStep ==
    ASSUME IInv, NEW a \in Apps, Calls(a)
    PROVE  LET s == HasSem(a)' - HasSem(a)
               m == HasMbox(a)' - HasMbox(a)
           IN /\ \A d \in Apps : d # a => pc'[d] = pc[d]
              /\ kernel'.events = kernel.events - s - m
              /\ kernel'.queues = kernel.queues - m
              /\ \/ pc'[a] # "dead"
                 \/ pc[a] = "dead"
                 \/ HasMbox(a) = 0 /\ (kernel.events = 0 \/ kernel.queues = 0)
<1>0. /\ pc \in [Tasks -> Pcs] /\ a \in Tasks /\ Apps \subseteq Tasks
      /\ kernel.events \in Nat /\ kernel.queues \in Nat /\ ~Full(mbox)
      /\ kernel \in [events : Nat, queues : Nat]
  BY InvNeverFull DEF IInv, TypeOK, NeverFull, Apps, Tasks
<1> USE DEF HasSem, HasMbox, One, Pcs, InBegin, InCalls, InLoops
<1>1. CASE SemNew(a)
  <2>1. CASE kernel.events > 0 /\ Goto(a, "sem", "mbox")
             /\ kernel' = [kernel EXCEPT !.events = @ - 1]
    BY <1>0, <2>1 DEF Goto
  <2>2. CASE kernel.events = 0 /\ Goto(a, "sem", "dead") /\ UNCHANGED kernel
    BY <1>0, <2>2 DEF Goto
  <2> QED BY <1>1, <2>1, <2>2 DEF SemNew
<1>2. CASE MboxNew(a)
  <2>1. CASE /\ kernel.events > 0 /\ kernel.queues > 0 /\ Goto(a, "mbox", "valid")
             /\ kernel' = [events |-> kernel.events - 1, queues |-> kernel.queues - 1]
    BY <1>0, <2>1 DEF Goto
  <2>2. CASE /\ kernel.events = 0 \/ kernel.queues = 0
             /\ Goto(a, "mbox", "dead") /\ SemFree(a)
    BY <1>0, <2>2 DEF Goto, SemFree
  <2> QED BY <1>2, <2>1, <2>2 DEF MboxNew
<1>3. CASE ApiValid(a)
  BY <1>0, <1>3 DEF ApiValid
<1>4. CASE ApiPost(a)
  BY <1>0, <1>4 DEF ApiPost, Goto, AfterPost
<1>5. CASE ApiWait(a)
  BY <1>0, <1>5 DEF ApiWait, Goto
<1> QED BY <1>1, <1>2, <1>3, <1>4, <1>5 DEF Calls

(* A step of the loops, or of another process, leaves the blocks alone.    *)
LEMMA KernelOther ==
    ASSUME IInv, NEW t \in Tasks,
           Netcard \/ Tcpip \/ Begin(t) \/ Send \/ Recv \/ UNCHANGED vars
    PROVE  /\ kernel' = kernel
           /\ HasSem(Server)' = HasSem(Server) /\ HasMbox(Server)' = HasMbox(Server)
           /\ HasSem(Client)' = HasSem(Client) /\ HasMbox(Client)' = HasMbox(Client)
           /\ \A a \in Apps : pc'[a] = "dead" => pc[a] = "dead"
<1>0. /\ pc \in [Tasks -> Pcs] /\ Apps \subseteq Tasks
      /\ Server \in Tasks /\ Client \in Tasks /\ Play \in Tasks
      /\ Play # Server /\ Play # Client
  BY StackAssumption DEF IInv, TypeOK, Apps, Tasks, StackAssumption
<1>1. CASE Netcard \/ Tcpip \/ UNCHANGED vars
  BY <1>1 DEF Netcard, Tcpip, vars, HasSem, HasMbox
<1>2. CASE Send
  BY <1>0, <1>2 DEF Send, Goto, HasSem, HasMbox, One
<1>3. CASE Recv
  BY <1>0, <1>3 DEF Recv, RecvValid, RecvFetch, RecvDelete, Goto, HasSem, HasMbox, One
<1>4. CASE Begin(t)
  <2>1. CASE Start(t)
    BY <1>0, <1>4, <2>1 DEF Begin, Start, Goto, HasSem, HasMbox, One
  <2>2. CASE Alloc(t)
    <3>1. /\ pc[t] = "alloc" /\ kernel' = kernel
          /\ pc'[t] \in {"sem", "restart"} /\ \A d \in Tasks : d # t => pc'[d] = pc[d]
          /\ t \in Apps => pc'[t] = "sem"
      BY <1>0, <1>4, <2>2 DEF Begin, Alloc, Goto, Apps
    <3> QED BY <1>0, <3>1 DEF HasSem, HasMbox, One, Apps
  <2>3. CASE Restart
    BY <1>0, <1>4, <2>3 DEF Begin, Restart, Goto, HasSem, HasMbox, One, Apps
  <2>4. CASE Record
    BY <1>0, <1>4, <2>4 DEF Begin, Record, Goto, HasSem, HasMbox, One
  <2> QED BY <1>4, <2>1, <2>2, <2>3, <2>4 DEF Begin
<1> QED BY <1>1, <1>2, <1>3, <1>4

(* What a step does to the sums.                                           *)
LEMMA KernelSums ==
    ASSUME IInv, [Next]_vars
    PROVE  /\ AllEvents' = AllEvents /\ AllQueues' = AllQueues
           /\ BothSockets => BothSockets'
<1>0. /\ kernel.events \in Nat /\ kernel.queues \in Nat /\ Server # Client
      /\ \A a \in Apps : /\ HasSem(a) \in {0, 1} /\ HasMbox(a) \in {0, 1}
                        /\ HasSem(a)' \in {0, 1} /\ HasMbox(a)' \in {0, 1}
      /\ \A a \in Apps : a = Server \/ a = Client
      /\ Server \in Apps /\ Client \in Apps
  BY StackAssumption DEF IInv, TypeOK, HasSem, HasMbox, One, Apps, StackAssumption
<1>1. ASSUME NEW t \in Tasks, Netcard \/ Tcpip \/ Begin(t) \/ Send \/ Recv \/ UNCHANGED vars
      PROVE  /\ AllEvents' = AllEvents /\ AllQueues' = AllQueues
             /\ BothSockets => BothSockets'
  <2>1. AllEvents' = AllEvents /\ AllQueues' = AllQueues
    BY <1>1, KernelOther DEF AllEvents, AllQueues
  <2>2. BothSockets => BothSockets'
    BY <1>1, <2>1, KernelOther DEF BothSockets
  <2> QED BY <2>1, <2>2
<1>2. ASSUME NEW a \in Apps, Calls(a)
      PROVE  /\ AllEvents' = AllEvents /\ AllQueues' = AllQueues
             /\ BothSockets => BothSockets'
  <2>1. /\ \A d \in Apps : d # a => pc'[d] = pc[d]
        /\ kernel'.events = kernel.events - (HasSem(a)' - HasSem(a))
                               - (HasMbox(a)' - HasMbox(a))
        /\ kernel'.queues = kernel.queues - (HasMbox(a)' - HasMbox(a))
        /\ \/ pc'[a] # "dead"
           \/ pc[a] = "dead"
           \/ HasMbox(a) = 0 /\ (kernel.events = 0 \/ kernel.queues = 0)
    BY <1>2, KernelStep
  <2>2. \A d \in Apps : d # a => HasSem(d)' = HasSem(d) /\ HasMbox(d)' = HasMbox(d)
    BY <2>1 DEF HasSem, HasMbox
  <2>3. AllEvents' = AllEvents /\ AllQueues' = AllQueues
    <3>1. CASE a = Server
      BY <1>0, <2>1, <2>2, <3>1 DEF AllEvents, AllQueues
    <3>2. CASE a = Client
      BY <1>0, <2>1, <2>2, <3>2 DEF AllEvents, AllQueues
    <3> QED BY <1>0, <3>1, <3>2
  <2>4. ASSUME BothSockets, AllEvents >= 4, AllQueues >= 2 PROVE pc'[a] # "dead"
    <3>1. pc[a] # "dead"
      BY <2>4 DEF BothSockets
    <3>2. ASSUME HasMbox(a) = 0, kernel.events = 0 \/ kernel.queues = 0 PROVE FALSE
      BY <1>0, <2>4, <3>2 DEF AllEvents, AllQueues
    <3> QED BY <2>1, <3>1, <3>2
  <2>5. BothSockets => BothSockets'
    BY <2>1, <2>3, <2>4 DEF BothSockets
  <2> QED BY <2>3, <2>5
<1>3. ASSUME NEW t \in Tasks, Task(t)
      PROVE  /\ AllEvents' = AllEvents /\ AllQueues' = AllQueues
             /\ BothSockets => BothSockets'
  BY <1>1, <1>2, <1>3, TaskStep
<1>4. Server \in Tasks
  BY DEF Tasks
<1> QED BY <1>1, <1>3, <1>4 DEF Next, ClientSends

-----------------------------------------------------------------------------
(* The heap.                                                               *)

(* A task is past its last allocation before the one below it begins.      *)
BeforeCalls == {"start", "alloc", "sem", "mbox"}
Order ==
    /\ pc[Play] \in {"start", "alloc", "restart", "reset", "loop"}
    /\ pc[Play] # "start" => pc[Server] \notin BeforeCalls
    /\ pc[Client] # "start" => pc[Server] \notin BeforeCalls
                              /\ pc[Play] \in {"reset", "loop"}

(* What a step of a task does to the tasks' places.                        *)
LEMMA Places ==
    ASSUME IInv, NEW t \in Tasks, Task(t)
    PROVE  /\ \A d \in Tasks : d # t => pc'[d] = pc[d]
           /\ pc[t] \notin BeforeCalls => pc'[t] \notin BeforeCalls
           /\ t = Play => /\ pc'[t] \in {"alloc", "restart", "reset", "loop"}
                          /\ pc[t] \in {"reset", "loop"} => pc'[t] \in {"reset", "loop"}
<1> USE StackAssumption DEF StackAssumption, Goto, BeforeCalls
<1>0. pc \in [Tasks -> Pcs] /\ Apps = {Server, Client} /\ ~Full(mbox)
      /\ ~Full(recvmbox[Server])
  BY InvNeverFull DEF IInv, TypeOK, NeverFull, Apps
<1>1. CASE Begin(t)
  BY <1>0, <1>1 DEF Begin, Start, Alloc, Restart, Record, Tasks
<1>2. CASE t \in Apps /\ Calls(t)
  <2>1. CASE SemNew(t) \/ MboxNew(t)
    BY <1>0, <1>2, <2>1 DEF SemNew, MboxNew
  <2>2. CASE ApiValid(t) \/ ApiPost(t)
    BY <1>0, <1>2, <2>2 DEF ApiValid, ApiPost, AfterPost
  <2>3. CASE ApiWait(t)
    BY <1>0, <1>2, <2>3 DEF ApiWait
  <2> QED BY <1>2, <2>1, <2>2, <2>3 DEF Calls
<1>3. CASE t = Server /\ Recv
  BY <1>0, <1>3 DEF Recv, RecvValid, RecvFetch, RecvDelete, Tasks
<1> QED BY <1>1, <1>2, <1>3, TaskStep

(* Every step keeps the order.                                             *)
LEMMA OrderStep == IInv /\ Order /\ [Next]_vars => Order'
<1> SUFFICES ASSUME IInv, Order, [Next]_vars PROVE Order'
  OBVIOUS
<1> USE StackAssumption DEF StackAssumption
<1>1. CASE Netcard \/ Tcpip \/ UNCHANGED vars
  BY <1>1 DEF Netcard, Tcpip, vars, Order
<1>2. CASE ClientSends
  <2>1. pc[Client] = "idle" /\ pc' = [pc EXCEPT ![Client] = "valid"]
    BY <1>2 DEF ClientSends, Send, Goto
  <2>2. pc'[Server] = pc[Server] /\ pc'[Play] = pc[Play]
    BY <2>1 DEF IInv, TypeOK, Tasks, Apps
  <2> QED BY <2>1, <2>2 DEF Order
<1>3. ASSUME NEW t \in Tasks, Task(t) PROVE Order'
  <2>1. MayRun(t)
    BY <1>3, TaskStep
  <2>2. Server # Play /\ Server # Client /\ Play # Client
    BY DEF Apps
  <2>3. CASE t = Server
    BY <1>3, <2>2, <2>3, Places DEF Order, Tasks
  <2>4. CASE t = Play
    <3>1. pc[Server] \notin BeforeCalls
      BY <2>1, <2>2, <2>4 DEF MayRun, Blocked, BeforeCalls
    <3> QED BY <1>3, <2>2, <2>4, <3>1, Places DEF Order, Tasks
  <2>5. CASE t = Client
    <3>1. pc[Server] \notin BeforeCalls
      BY <2>1, <2>2, <2>5 DEF MayRun, Blocked, BeforeCalls
    <3>2. pc[Play] \in {"reset", "loop"}
      BY <2>1, <2>2, <2>5 DEF MayRun, Blocked, Order, Apps
    <3> QED BY <1>3, <2>2, <2>5, <3>1, <3>2, Places DEF Order, Tasks
  <2> QED BY <1>3, <2>3, <2>4, <2>5 DEF Tasks
<1> QED BY <1>1, <1>2, <1>3 DEF Next

(* No two tasks are in the heap when the order holds.                      *)
LEMMA OrderAlone == Order => HeapAlone
  BY DEF Order, HeapAlone, Tasks, BeforeCalls

-----------------------------------------------------------------------------
(* The theorems.                                                           *)

(* The inductive invariant.                                                *)
THEOREM Inductive == Spec => []IInv
  BY InitInv, StepInv, PTL DEF Spec

(* Every variable keeps its type, and no answer is counted twice.          *)
THEOREM TypeCorrect == Spec => []TypeOK
<1>1. IInv => TypeOK
  BY DEF IInv
<1> QED BY <1>1, Inductive, PTL

(* No mailbox is ever full, for pools smaller than a mailbox: the loop of  *)
(* sys_mbox_post never turns.                                              *)
THEOREM MailboxesNeverFull == Spec => []NeverFull
  BY InvNeverFull, Inductive, PTL

(* No cell and no netbuf is lost, or in two places.                        *)
THEOREM PoolsKept == Spec => []OnePlace
  BY InvOnePlace, Inductive, PTL

(* A caller waits as long as its message or its answer is about.           *)
THEOREM CallersWait == Spec => []CallMatched
  BY InvCallMatched, Inductive, PTL

(* Whatever fails, the kernel's blocks are free or in a socket.            *)
THEOREM KernelBlocksKept == Spec => KernelKept
<1>1. IInv /\ [Next]_vars => [AllEvents' = AllEvents /\ AllQueues' = AllQueues]_vars
  BY KernelSums
<1> QED BY <1>1, Inductive, PTL DEF Spec, KernelKept

(* The heap needs no lock.                                                 *)
THEOREM HeapNeedsNoLock == Spec => []HeapAlone
<1>1. Init => Order
  BY DEF Init, Order, Tasks
<1>2. Spec => []Order
  BY <1>1, OrderStep, Inductive, PTL DEF Spec
<1> QED BY <1>2, OrderAlone, PTL

(* Four events and two queues are enough for both sockets.                 *)
THEOREM BothSocketsCreated == Spec => []BothSockets
<1>1. Init => BothSockets
  BY DEF Init, BothSockets, Apps, Tasks
<1>2. IInv /\ BothSockets /\ [Next]_vars => BothSockets'
  BY KernelSums
<1> QED BY <1>1, <1>2, Inductive, PTL DEF Spec
=============================================================================
