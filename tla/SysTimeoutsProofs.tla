-------------------------- MODULE SysTimeoutsProofs --------------------------
(* What holds of SysTimeouts for every set of timers, every interval and   *)
(* every width of the clock: its delta list is well formed and is a set of *)
(* timers that expire in the order of the times left; and, for ticks of    *)
(* whole milliseconds and intervals of whole ticks, no wait is too long.   *)
EXTENDS SysTimeouts, FiniteSetTheorems, WellFoundedInduction, TLAPS

-----------------------------------------------------------------------------
(* Sets of numbers and sequences.                                          *)

(* A nonempty set of bounded naturals has a least element: the sets of     *)
(* smaller elements are finite and strictly ordered by inclusion.          *)
LEMMA LowestExists ==
    ASSUME NEW m \in Int, NEW S \in SUBSET (0..m), S # {}
    PROVE  \E b \in S : \A c \in S : b <= c
<1> DEFINE D == 0..m
           Below(x) == {y \in S : y < x}
           F == {Below(x) : x \in S}
           R == StrictSubsetOrdering(D)
<1>1. \A x \in S : x \in Int
  OBVIOUS
<1>2. IsFiniteSet(D)
  BY FS_Interval
<1>3. \A x \in S : Below(x) \subseteq D
  OBVIOUS
<1>4. IsWellFoundedOn(R, FiniteSubsetsOf(D))
  BY FS_StrictSubsetOrderingWellFounded, Zenon
<1>5. F \subseteq FiniteSubsetsOf(D)
  BY <1>2, <1>3, FS_Subset, Zenon DEF FiniteSubsetsOf
<1>6. F # {}
  OBVIOUS
<1>7. \E U \in F : \A V \in F : ~ (<<V, U>> \in R)
  BY <1>4, <1>5, <1>6, WFMin, Zenon
<1>8. PICK x \in S : \A V \in F : ~ (<<V, Below(x)>> \in R)
  BY <1>7, Zenon
<1>9. ASSUME NEW c \in S, c < x PROVE FALSE
  <2>1. \A y \in S : y < c => y < x
    BY <1>1, <1>9
  <2>2. c \in Below(x) /\ ~(c < c)
    BY <1>1, <1>9
  <2>3. Below(c) \subseteq Below(x) /\ Below(c) # Below(x)
    BY <2>1, <2>2, Zenon
  <2>4. <<Below(c), Below(x)>> \in R
    BY <1>3, <2>3, Zenon DEF StrictSubsetOrdering
  <2> QED BY <1>8, <2>4, Zenon
<1> QED BY <1>1, <1>9

(* And a greatest one: the least distance to the bound.                    *)
LEMMA HighestExists ==
    ASSUME NEW m \in Int, NEW S \in SUBSET (0..m), S # {}
    PROVE  \E b \in S : \A c \in S : c <= b
<1> DEFINE T == {m - s : s \in S}
<1>1. T \in SUBSET (0..m) /\ T # {}
  <2>1. \A s \in S : s \in 0..m /\ m - s \in 0..m
    OBVIOUS
  <2>2. PICK s \in S : TRUE
    OBVIOUS
  <2>3. m - s \in T
    OBVIOUS
  <2>4. \A t \in T : \E c \in S : t = m - c
    OBVIOUS
  <2> HIDE DEF T
  <2>5. \A t \in T : t \in 0..m
    BY <2>1, <2>4
  <2> QED BY <2>3, <2>5
<1> HIDE DEF T
<1>2. PICK t \in T : \A u \in T : t <= u
  BY <1>1, LowestExists
<1>3. PICK s \in S : t = m - s
  BY DEF T
<1>4. \A c \in S : m - c \in T
  BY DEF T
<1> QED BY <1>2, <1>3, <1>4

-----------------------------------------------------------------------------
(* The times left are the sums of the list's times.                        *)

(* f sums the times of the first n entries of s.                           *)
Sums(f, s, n) == /\ f \in [0..n -> Nat] /\ f[0] = 0
                 /\ \A i \in 1..n : f[i] = f[i - 1] + s[i].time

(* A list's entries have an id and a time.                                 *)
LEMMA EntryFacts ==
    ASSUME NEW s \in Seq(Entries)
    PROVE  /\ Len(s) \in Nat /\ DOMAIN s = 1..Len(s)
           /\ \A i \in 1..Len(s) : /\ s[i] \in Entries
                                   /\ s[i].id \in Timers /\ s[i].time \in Nat
                                   /\ s[i].time < Word
<1>1. Len(s) \in Nat /\ DOMAIN s = 1..Len(s) /\ \A i \in 1..Len(s) : s[i] \in Entries
  OBVIOUS
<1>2. \A e \in Entries : e.id \in Timers /\ e.time \in Nat /\ e.time < Word
  BY SysTimeoutsAssumption DEF Entries
<1> QED BY <1>1, <1>2

(* Every prefix of a list has sums: the shortest one without them would    *)
(* extend one that has them.                                               *)
LEMMA SumsExist ==
    ASSUME NEW s \in Seq(Entries), NEW n \in 0..Len(s)
    PROVE  \E f : Sums(f, s, n)
<1> DEFINE Bad == {k \in 0..Len(s) : ~ \E f : Sums(f, s, k)}
<1>1. Len(s) \in Nat /\ \A i \in 1..Len(s) : s[i].time \in Nat
  BY EntryFacts
<1>2. SUFFICES ASSUME Bad # {} PROVE FALSE
  OBVIOUS
<1>3. PICK b \in Bad : \A k \in Bad : b <= k
  <2>1. Bad \in SUBSET (0..Len(s))
    OBVIOUS
  <2> HIDE DEF Bad
  <2>2. Len(s) \in Int
    BY <1>1
  <2> QED BY <1>2, <2>1, <2>2, LowestExists, Zenon
<1>4. Sums([i \in 0..0 |-> 0], s, 0)
  BY DEF Sums
<1>5. b # 0
  BY <1>4
<1>6. b \in 1..Len(s) /\ b - 1 \in 0..Len(s)
  BY <1>1, <1>5
<1>7. b - 1 \notin Bad
  BY <1>1, <1>3, <1>6
<1>8. PICK f : Sums(f, s, b - 1)
  BY <1>6, <1>7
<1> DEFINE g == [i \in 0..b |-> IF i = b THEN f[b - 1] + s[b].time ELSE f[i]]
<1>9. Sums(g, s, b)
  <2>1. f \in [0..(b - 1) -> Nat] /\ f[0] = 0 /\ \A i \in 1..(b - 1) : f[i] = f[i - 1] + s[i].time
    BY <1>8 DEF Sums
  <2>2. g[0] = 0
    BY <1>6, <2>1
  <2>3. g \in [0..b -> Nat]
    BY <1>1, <1>6, <2>1
  <2>4. ASSUME NEW i \in 1..b PROVE g[i] = g[i - 1] + s[i].time
    <3>1. CASE i = b
      BY <1>6, <3>1
    <3>2. CASE i # b
      <4>1. i \in 1..(b - 1) /\ i \in 0..b /\ i - 1 \in 0..b /\ i - 1 # b
        BY <1>6, <3>2
      <4>2. g[i] = f[i] /\ g[i - 1] = f[i - 1]
        BY <3>2, <4>1
      <4> QED BY <2>1, <4>1, <4>2
    <3> QED BY <3>1, <3>2
  <2> HIDE DEF g
  <2> QED BY <2>2, <2>3, <2>4 DEF Sums
<1> QED BY <1>9

(* Due is the sums of the whole list.                                      *)
LEMMA DueSums == ASSUME NEW s \in Seq(Entries) PROVE Sums(Due(s), s, Len(s))
<1> DEFINE Rec(f) == [i \in 0..Len(s) |-> IF i = 0 THEN 0 ELSE f[i - 1] + s[i].time]
<1>1. Len(s) \in Nat /\ \A i \in 1..Len(s) : s[i].time \in Nat
  BY EntryFacts
<1>2. PICK f : Sums(f, s, Len(s))
  BY <1>1, SumsExist
<1>3. f = Rec(f)
  <2>1. f \in [0..Len(s) -> Nat] /\ f[0] = 0 /\ \A i \in 1..Len(s) : f[i] = f[i - 1] + s[i].time
    BY <1>2 DEF Sums
  <2>2. \A i \in 0..Len(s) : f[i] = Rec(f)[i]
    BY <1>1, <2>1
  <2>3. DOMAIN Rec(f) = 0..Len(s) /\ Rec(f) = [i \in 0..Len(s) |-> Rec(f)[i]]
    OBVIOUS
  <2> HIDE DEF Rec
  <2> QED BY <2>1, <2>2, <2>3
<1>4. Due(s) = CHOOSE h : h = Rec(h)
  BY DEF Due
<1>5. Due(s) = Rec(Due(s))
  <2> HIDE DEF Rec
  <2> QED BY <1>3, <1>4
<1> DEFINE h == Due(s)
<1>6. h = Rec(h)
  BY <1>5
<1> HIDE DEF h
<1> DEFINE Bad == {k \in 0..Len(s) : ~ (h[k] \in Nat)}
<1>7. \A k \in 0..Len(s) : h[k] = IF k = 0 THEN 0 ELSE h[k - 1] + s[k].time
  BY <1>6
<1>8. DOMAIN h = 0..Len(s) /\ h = [i \in 0..Len(s) |-> h[i]]
  BY <1>6
<1>9. Bad = {}
  <2>0. SUFFICES ASSUME Bad # {} PROVE FALSE
    OBVIOUS
  <2>1. PICK b \in Bad : \A k \in Bad : b <= k
    <3>1. Bad \in SUBSET (0..Len(s))
      OBVIOUS
    <3> HIDE DEF Bad
    <3>2. Len(s) \in Int
      BY <1>1
    <3> QED BY <2>0, <3>1, <3>2, LowestExists, Zenon
  <2>2. b # 0
    BY <1>1, <1>7
  <2>3. b \in 1..Len(s) /\ b - 1 \in 0..Len(s) /\ b - 1 \notin Bad
    BY <1>1, <2>1, <2>2
  <2>4. h[b - 1] \in Nat
    BY <2>3
  <2>5. h[b] = h[b - 1] + s[b].time /\ s[b].time \in Nat
    <3>1. b \in 0..Len(s) /\ b # 0
      BY <1>1, <2>3
    <3>2. s[b].time \in Nat
      BY <1>1, <2>3
    <3> QED BY <1>7, <3>1, <3>2
  <2>6. ~ (h[b] \in Nat)
    BY <2>1
  <2> QED BY <2>4, <2>5, <2>6
<1>10. \A k \in 0..Len(s) : h[k] \in Nat
  BY <1>9
<1>11. h \in [0..Len(s) -> Nat]
  BY <1>8, <1>10
<1>12. Sums(h, s, Len(s))
  BY <1>1, <1>7, <1>11 DEF Sums
<1> QED BY <1>12 DEF h

(* Only Due is.                                                            *)
LEMMA DueUnique ==
    ASSUME NEW s \in Seq(Entries), NEW f, f[0] = 0,
           \A i \in 1..Len(s) : f[i] = f[i - 1] + s[i].time
    PROVE  \A i \in 0..Len(s) : Due(s)[i] = f[i]
<1> DEFINE D == Due(s)
           Bad == {k \in 0..Len(s) : D[k] # f[k]}
<1>1. Len(s) \in Nat
  BY EntryFacts
<1>2. D[0] = 0 /\ \A i \in 1..Len(s) : D[i] = D[i - 1] + s[i].time
  BY DueSums DEF Sums
<1> HIDE DEF D
<1>3. SUFFICES ASSUME Bad # {} PROVE FALSE
  BY DEF D
<1>4. PICK b \in Bad : \A k \in Bad : b <= k
  <2>1. Bad \in SUBSET (0..Len(s))
    OBVIOUS
  <2> HIDE DEF Bad
  <2>2. Len(s) \in Int
    BY <1>1
  <2> QED BY <1>3, <2>1, <2>2, LowestExists, Zenon
<1>5. b # 0
  BY <1>2
<1>6. b \in 1..Len(s) /\ b - 1 \in 0..Len(s) /\ b - 1 \notin Bad
  BY <1>1, <1>4, <1>5
<1> QED BY <1>2, <1>6

(* Times left grow along the list.                                         *)
LEMMA DueGrows ==
    ASSUME NEW s \in Seq(Entries), NEW i \in 0..Len(s), NEW j \in 0..Len(s), i <= j
    PROVE  Due(s)[i] <= Due(s)[j]
<1> DEFINE D == Due(s)
           Bad == {k \in 0..Len(s) : i <= k /\ ~ (D[i] <= D[k])}
<1>1. Len(s) \in Nat /\ \A k \in 1..Len(s) : s[k].time \in Nat
  BY EntryFacts
<1>2. D \in [0..Len(s) -> Nat] /\ \A k \in 1..Len(s) : D[k] = D[k - 1] + s[k].time
  BY DueSums DEF Sums
<1> HIDE DEF D
<1>3. SUFFICES ASSUME Bad # {} PROVE FALSE
  BY DEF D
<1>4. PICK b \in Bad : \A k \in Bad : b <= k
  <2>1. Bad \in SUBSET (0..Len(s))
    OBVIOUS
  <2> HIDE DEF Bad
  <2>2. Len(s) \in Int
    BY <1>1
  <2> QED BY <1>3, <2>1, <2>2, LowestExists, Zenon
<1>5. b # i
  BY <1>2
<1>6. b \in 1..Len(s) /\ b - 1 \in 0..Len(s) /\ i <= b - 1 /\ b - 1 \notin Bad
  BY <1>1, <1>4, <1>5
<1>7. /\ D[i] \in Nat /\ D[b] \in Nat /\ D[b - 1] \in Nat /\ s[b].time \in Nat
      /\ D[b] = D[b - 1] + s[b].time
  BY <1>1, <1>2, <1>6
<1>8. D[i] <= D[b - 1]
  BY <1>6
<1>9. ~ (D[i] <= D[b])
  OBVIOUS
<1> QED BY <1>7, <1>8, <1>9

-----------------------------------------------------------------------------
(* sys_timeout.                                                            *)

(* The new timer's place is after all that expire no later, and only those.*)
LEMMA PlaceFacts ==
    ASSUME NEW s \in Seq(Entries), NEW msecs \in Nat
    PROVE  /\ Place(s, msecs) \in 0..Len(s)
           /\ Due(s)[Place(s, msecs)] <= msecs
           /\ Place(s, msecs) < Len(s) => Due(s)[Place(s, msecs) + 1] > msecs
<1> DEFINE D == Due(s)
           B == NotAfter(s, msecs)
           n == Place(s, msecs)
<1>1. Len(s) \in Nat /\ D \in [0..Len(s) -> Nat] /\ D[0] = 0
  BY EntryFacts, DueSums DEF Sums
<1>2. B = {i \in 0..Len(s) : \A k \in 0..i : D[k] <= msecs}
  BY DEF NotAfter
<1>3. n = CHOOSE i \in B : \A k \in B : k <= i
  BY DEF Place
<1> HIDE DEF D, B, n
<1>4. 0 \in B
  BY <1>1, <1>2
<1>5. \E i \in B : \A k \in B : k <= i
  <2>1. B \in SUBSET (0..Len(s)) /\ B # {}
    BY <1>2, <1>4
  <2>2. Len(s) \in Int
    BY <1>1
  <2> QED BY <2>1, <2>2, HighestExists, Zenon
<1>6. n \in B /\ \A k \in B : k <= n
  BY <1>3, <1>5, Zenon
<1>7. n \in 0..Len(s) /\ \A k \in 0..n : D[k] <= msecs
  BY <1>2, <1>6
<1>8. D[n] <= msecs
  BY <1>1, <1>7
<1>9. ASSUME n < Len(s) PROVE D[n + 1] > msecs
  <2> SUFFICES ASSUME ~ (D[n + 1] > msecs) PROVE FALSE
    OBVIOUS
  <2>1. n + 1 \in 0..Len(s) /\ D[n + 1] \in Nat /\ D[n + 1] <= msecs
    BY <1>1, <1>7, <1>9
  <2>2. \A k \in 0..(n + 1) : k \in 0..n \/ k = n + 1
    BY <1>7
  <2>3. n + 1 \in B
    BY <1>2, <1>7, <2>1, <2>2
  <2> QED BY <1>1, <1>6, <1>7, <2>3
<1> QED BY <1>7, <1>8, <1>9 DEF D, n

(* Setting a timer leaves every other's time left as it was.               *)
LEMMA InsertedFacts ==
    ASSUME NEW s \in Seq(Entries), NEW t \in Timers
    PROVE  /\ Inserted(s, t) \in Seq(Entries)
           /\ Len(Inserted(s, t)) = Len(s) + 1
           /\ \E n \in 0..Len(s) :
                /\ Inserted(s, t)[n + 1].id = t
                /\ Due(Inserted(s, t))[n + 1] = Interval[t]
                /\ \A i \in 1..n : /\ Inserted(s, t)[i].id = s[i].id
                                   /\ Due(Inserted(s, t))[i] = Due(s)[i]
                /\ \A i \in (n + 1)..Len(s) : /\ Inserted(s, t)[i + 1].id = s[i].id
                                              /\ Due(Inserted(s, t))[i + 1] = Due(s)[i]
<1> DEFINE D == Due(s)
           L == Len(s)
           m == Interval[t]
           n == Place(s, Interval[t])
           own == m - D[n]
           r == Inserted(s, t)
<1>1. L \in Nat /\ \A i \in 1..L : /\ s[i] \in Entries /\ s[i].id \in Timers
                                   /\ s[i].time \in Nat /\ s[i].time < Word
  BY EntryFacts
<1>2. m \in Nat /\ m < Word /\ Word \in Nat
  BY SysTimeoutsAssumption
<1>3. /\ D \in [0..L -> Nat] /\ D[0] = 0
      /\ \A i \in 1..L : D[i] = D[i - 1] + s[i].time
  BY DueSums DEF Sums
<1>4. n \in 0..L /\ D[n] <= m /\ (n < L => D[n + 1] > m)
  BY <1>2, PlaceFacts
<1>5. r = [i \in 1..(L + 1) |->
             IF i <= n THEN s[i]
             ELSE IF i = n + 1 THEN [id |-> t, time |-> own]
             ELSE IF i = n + 2 THEN [s[n + 1] EXCEPT !.time = @ - own]
             ELSE s[i - 1]]
  BY DEF Inserted
<1> HIDE DEF D, m, n, r
<1>6. own \in Nat /\ own < Word
  BY <1>1, <1>2, <1>3, <1>4
<1>7. ASSUME n < L
      PROVE  /\ s[n + 1].time - own \in Nat
             /\ D[n + 1] = m + (s[n + 1].time - own)
  <2>1. n + 1 \in 1..L /\ n + 1 \in 0..L /\ (n + 1) - 1 = n
    BY <1>1, <1>4, <1>7
  <2>2. D[n + 1] = D[n] + s[n + 1].time /\ D[n] \in Nat /\ s[n + 1].time \in Nat /\ D[n + 1] > m
    BY <1>1, <1>3, <1>4, <1>7, <2>1
  <2> QED BY <1>2, <2>2
<1> HIDE DEF own
<1> DEFINE e == [id |-> t, time |-> own]
           x == [s[n + 1] EXCEPT !.time = @ - own]
<1>8. e \in Entries /\ e.id = t /\ e.time = own
  BY <1>2, <1>6 DEF Entries
<1>9. ASSUME n < L
      PROVE  x \in Entries /\ x.id = s[n + 1].id /\ x.time = s[n + 1].time - own
  <2>1. n + 1 \in 1..L
    BY <1>1, <1>4, <1>9
  <2>2. s[n + 1] \in [id : Timers, time : 0..(Word - 1)]
    BY <1>1, <2>1 DEF Entries
  <2>3. s[n + 1].time - own \in 0..(Word - 1)
    BY <1>1, <1>2, <1>6, <1>7, <1>9, <2>1
  <2>4. /\ x.id = s[n + 1].id /\ x.time = s[n + 1].time - own
        /\ x \in [id : Timers, time : 0..(Word - 1)]
    BY <2>2, <2>3
  <2> QED BY <2>4 DEF Entries
<1> HIDE DEF e, x
<1>10. r = [i \in 1..(L + 1) |->
             IF i <= n THEN s[i] ELSE IF i = n + 1 THEN e
             ELSE IF i = n + 2 THEN x ELSE s[i - 1]]
  BY <1>5 DEF e, x
<1>11. \A i \in 1..n : r[i] = s[i]
  BY <1>1, <1>4, <1>10
<1>12. r[n + 1] = e
  BY <1>1, <1>4, <1>10
<1>13. n < L => r[n + 2] = x
  BY <1>1, <1>4, <1>10
<1>14. \A i \in (n + 2)..L : r[i + 1] = s[i]
  BY <1>1, <1>4, <1>10
<1>15. r \in Seq(Entries) /\ Len(r) = L + 1
  <2>1. \A i \in 1..(L + 1) : r[i] \in Entries
    <3> SUFFICES ASSUME NEW i \in 1..(L + 1) PROVE r[i] \in Entries
      OBVIOUS
    <3>1. CASE i <= n
      BY <1>1, <1>4, <1>11, <3>1
    <3>2. CASE i = n + 1
      BY <1>8, <1>12, <3>2
    <3>3. CASE i = n + 2
      <4>1. n < L
        BY <1>1, <1>4, <3>3
      <4> QED BY <1>9, <1>13, <3>3, <4>1
    <3>4. CASE i > n + 2
      <4>1. i - 1 \in (n + 2)..L /\ i - 1 \in 1..L /\ (i - 1) + 1 = i
        BY <1>1, <1>4, <3>4
      <4> QED BY <1>1, <1>14, <4>1
    <3> QED BY <1>4, <3>1, <3>2, <3>3, <3>4
  <2>2. r = [i \in 1..(L + 1) |-> r[i]] /\ L + 1 \in Nat
    BY <1>1, <1>10
  <2> QED BY <2>1, <2>2
<1> DEFINE g == [i \in 0..(L + 1) |-> IF i <= n THEN D[i] ELSE IF i = n + 1 THEN m ELSE D[i - 1]]
<1>16. \A i \in 1..n : g[i] = D[i]
  BY <1>1, <1>4
<1>17. g[n + 1] = m
  BY <1>1, <1>4
<1>18. \A i \in (n + 1)..L : g[i + 1] = D[i]
  BY <1>1, <1>4
<1>19. g[0] = 0 /\ g[n] = D[n]
  BY <1>1, <1>3, <1>4
<1> HIDE DEF g
<1>20. \A i \in 1..Len(r) : g[i] = g[i - 1] + r[i].time
  <2> SUFFICES ASSUME NEW i \in 1..(L + 1) PROVE g[i] = g[i - 1] + r[i].time
    BY <1>15
  <2>1. CASE i <= n
    <3>1. i \in 1..n /\ i \in 1..L /\ (i - 1 = 0 \/ i - 1 \in 1..n)
      BY <1>1, <1>4, <2>1
    <3>2. g[i - 1] = D[i - 1]
      BY <1>3, <1>16, <1>19, <3>1
    <3> QED BY <1>3, <1>11, <1>16, <3>1, <3>2
  <2>2. CASE i = n + 1
    <3>1. i - 1 = n /\ D[n] \in Nat
      BY <1>1, <1>3, <1>4, <2>2
    <3> QED BY <1>2, <1>8, <1>12, <1>17, <1>19, <2>2, <3>1 DEF own
  <2>3. CASE i = n + 2
    <3>1. n < L /\ i - 1 = n + 1 /\ n + 1 \in (n + 1)..L /\ (n + 1) + 1 = i
      BY <1>1, <1>4, <2>3
    <3>2. g[i] = D[n + 1] /\ g[i - 1] = m
      BY <1>17, <1>18, <3>1
    <3> QED BY <1>7, <1>9, <1>13, <2>3, <3>1, <3>2
  <2>4. CASE i > n + 2
    <3>1. /\ i - 1 \in (n + 2)..L /\ i - 1 \in (n + 1)..L /\ i - 1 \in 1..L
          /\ i - 2 \in (n + 1)..L /\ (i - 1) + 1 = i /\ (i - 2) + 1 = i - 1
          /\ (i - 1) - 1 = i - 2
      BY <1>1, <1>4, <2>4
    <3>2. g[i] = D[i - 1] /\ g[i - 1] = D[i - 2] /\ r[i] = s[i - 1]
      BY <1>14, <1>18, <3>1
    <3>3. D[i - 1] = D[i - 2] + s[i - 1].time
      BY <1>3, <3>1
    <3> QED BY <3>2, <3>3
  <2> QED BY <1>4, <2>1, <2>2, <2>3, <2>4
<1>21. \A i \in 0..(L + 1) : Due(r)[i] = g[i]
  BY <1>15, <1>19, <1>20, DueUnique
<1>22. /\ r[n + 1].id = t
       /\ Due(r)[n + 1] = m
  BY <1>1, <1>4, <1>8, <1>12, <1>17, <1>21
<1>23. \A i \in 1..n : r[i].id = s[i].id /\ Due(r)[i] = D[i]
  BY <1>1, <1>4, <1>11, <1>16, <1>21
<1>24. \A i \in (n + 1)..L : r[i + 1].id = s[i].id /\ Due(r)[i + 1] = D[i]
  <2> SUFFICES ASSUME NEW i \in (n + 1)..L PROVE r[i + 1].id = s[i].id /\ Due(r)[i + 1] = D[i]
    OBVIOUS
  <2>1. i + 1 \in 0..(L + 1)
    BY <1>1, <1>4
  <2>2. Due(r)[i + 1] = D[i]
    BY <1>18, <1>21, <2>1
  <2>3. CASE i = n + 1
    <3>1. n < L /\ i + 1 = n + 2
      BY <1>1, <1>4, <2>3
    <3> QED BY <1>9, <1>13, <2>2, <2>3, <3>1
  <2>4. CASE i # n + 1
    <3>1. i \in (n + 2)..L
      BY <1>1, <1>4, <2>4
    <3> QED BY <1>14, <2>2, <3>1
  <2> QED BY <2>3, <2>4
<1> QED BY <1>4, <1>15, <1>22, <1>23, <1>24 DEF D, m, r

-----------------------------------------------------------------------------
(* The times left, by timer.                                               *)

(* No timer is twice in a list.                                            *)
Distinct(s) == \A i, j \in DOMAIN s : s[i].id = s[j].id => i = j

(* Each timer in the list has the time left of its entry.                  *)
LEMMA LeftFacts ==
    ASSUME NEW s \in Seq(Entries), Distinct(s)
    PROVE  /\ Left(s) = [u \in Ids(s) |-> Left(s)[u]]
           /\ \A i \in 1..Len(s) : s[i].id \in Ids(s) /\ Left(s)[s[i].id] = Due(s)[i]
           /\ \A u \in Ids(s) : \E i \in 1..Len(s) : s[i].id = u
           /\ Ids(s) \subseteq Timers
<1>1. DOMAIN s = 1..Len(s) /\ \A i \in 1..Len(s) : s[i].id \in Timers
  BY EntryFacts
<1>2. Left(s) = [u \in Ids(s) |-> Left(s)[u]]
  BY DEF Left
<1>3. ASSUME NEW i \in 1..Len(s)
      PROVE  s[i].id \in Ids(s) /\ Left(s)[s[i].id] = Due(s)[i]
  <2>1. s[i].id \in Ids(s)
    BY <1>1 DEF Ids
  <2>2. (CHOOSE j \in DOMAIN s : s[j].id = s[i].id) = i
    BY <1>1, Zenon DEF Distinct
  <2>3. Left(s)[s[i].id] = Due(s)[CHOOSE j \in DOMAIN s : s[j].id = s[i].id]
    BY <2>1, Zenon DEF Left
  <2> QED BY <2>1, <2>2, <2>3, Zenon
<1>4. \A u \in Ids(s) : \E i \in 1..Len(s) : s[i].id = u
  BY <1>1, Zenon DEF Ids
<1> QED BY <1>1, <1>2, <1>3, <1>4, Zenon

(* Two lists with the same timers, whose times left differ by d.           *)
LEMMA LeftShifted ==
    ASSUME NEW s \in Seq(Entries), NEW r \in Seq(Entries), Distinct(s), Distinct(r),
           NEW d,
           \A i \in 1..Len(r) : \E j \in 1..Len(s) :
               r[i].id = s[j].id /\ Due(r)[i] = Due(s)[j] - d
    PROVE  Left(r) = [u \in Ids(r) |-> Left(s)[u] - d]
<1>1. \A u \in Ids(r) : Left(r)[u] = Left(s)[u] - d
  <2> SUFFICES ASSUME NEW u \in Ids(r) PROVE Left(r)[u] = Left(s)[u] - d
    OBVIOUS
  <2>1. PICK i \in 1..Len(r) : r[i].id = u
    BY LeftFacts, Zenon
  <2>2. PICK j \in 1..Len(s) : r[i].id = s[j].id /\ Due(r)[i] = Due(s)[j] - d
    BY Zenon
  <2>3. Left(r)[u] = Due(r)[i]
    BY <2>1, LeftFacts, Zenon
  <2>4. Left(s)[u] = Due(s)[j]
    <3>1. Left(s)[s[j].id] = Due(s)[j]
      BY LeftFacts, Zenon
    <3> QED BY <2>1, <2>2, <3>1
  <2> QED BY <2>2, <2>3, <2>4, Zenon
<1>2. Left(r) = [u \in Ids(r) |-> Left(r)[u]]
  BY LeftFacts, Zenon
<1> QED BY <1>1, <1>2, Zenon

(* sys_timeout sets one timer and leaves the others.                       *)
LEMMA InsertedArms ==
    ASSUME NEW s \in Seq(Entries), Distinct(s), NEW t \in Timers, t \notin Ids(s)
    PROVE  /\ Inserted(s, t) \in Seq(Entries) /\ Distinct(Inserted(s, t))
           /\ Ids(Inserted(s, t)) = Ids(s) \cup {t}
           /\ Left(Inserted(s, t)) =
                [u \in Ids(s) \cup {t} |-> IF u = t THEN Interval[t] ELSE Left(s)[u]]
<1> DEFINE r == Inserted(s, t)
           D == Due(s)
           E == Due(r)
<1>1. r \in Seq(Entries) /\ Len(r) = Len(s) + 1
  BY InsertedFacts, Zenon
<1>2. PICK n \in 0..Len(s) :
             /\ r[n + 1].id = t /\ E[n + 1] = Interval[t]
             /\ \A i \in 1..n : r[i].id = s[i].id /\ E[i] = D[i]
             /\ \A i \in (n + 1)..Len(s) : r[i + 1].id = s[i].id /\ E[i + 1] = D[i]
  BY InsertedFacts, Zenon
<1> HIDE DEF r, D, E
<1>3. Len(s) \in Nat /\ DOMAIN s = 1..Len(s) /\ DOMAIN r = 1..(Len(s) + 1)
  BY <1>1, EntryFacts
<1> DEFINE Old(i) == IF i <= n THEN i ELSE i - 1
<1>4. \A i \in 1..(Len(s) + 1) : i # n + 1 =>
         Old(i) \in 1..Len(s) /\ r[i].id = s[Old(i)].id /\ E[i] = D[Old(i)]
  <2> SUFFICES ASSUME NEW i \in 1..(Len(s) + 1), i # n + 1
               PROVE  Old(i) \in 1..Len(s) /\ r[i].id = s[Old(i)].id /\ E[i] = D[Old(i)]
    OBVIOUS
  <2>1. CASE i <= n
    BY <1>2, <1>3, <2>1
  <2>2. CASE ~ (i <= n)
    <3>1. i - 1 \in (n + 1)..Len(s) /\ (i - 1) + 1 = i /\ i - 1 \in 1..Len(s)
      BY <1>3, <2>2
    <3> QED BY <1>2, <2>2, <3>1
  <2> QED BY <2>1, <2>2
<1>5. \A i, j \in 1..(Len(s) + 1) : i # n + 1 /\ j # n + 1 /\ Old(i) = Old(j) => i = j
  BY <1>3
<1>6. \A j \in 1..Len(s) : \E i \in 1..(Len(s) + 1) : i # n + 1 /\ r[i].id = s[j].id
  <2> SUFFICES ASSUME NEW j \in 1..Len(s)
               PROVE  \E i \in 1..(Len(s) + 1) : i # n + 1 /\ r[i].id = s[j].id
    OBVIOUS
  <2>1. CASE j <= n
    <3>1. j \in 1..(Len(s) + 1) /\ j # n + 1 /\ j \in 1..n
      BY <1>3, <2>1
    <3> QED BY <1>2, <3>1
  <2>2. CASE ~ (j <= n)
    <3>1. j + 1 \in 1..(Len(s) + 1) /\ j + 1 # n + 1 /\ j \in (n + 1)..Len(s)
      BY <1>3, <2>2
    <3> QED BY <1>2, <3>1
  <2> QED BY <2>1, <2>2
<1> HIDE DEF Old
<1>7. n + 1 \in 1..(Len(s) + 1)
  BY <1>3
<1>8. \A i \in 1..Len(s) : s[i].id # t /\ s[i].id \in Ids(s)
  BY LeftFacts, Zenon
<1>9. Distinct(r)
  <2> SUFFICES ASSUME NEW i \in 1..(Len(s) + 1), NEW j \in 1..(Len(s) + 1), r[i].id = r[j].id
               PROVE  i = j
    BY <1>3, Zenon DEF Distinct
  <2>1. CASE i = n + 1
    <3>1. r[j].id = t
      BY <1>2, <2>1, Zenon
    <3>2. ~ (j # n + 1)
      BY <1>4, <1>8, <3>1, Zenon
    <3> QED BY <2>1, <3>2, Zenon
  <2>2. CASE j = n + 1
    <3>1. r[i].id = t
      BY <1>2, <2>2, Zenon
    <3>2. ~ (i # n + 1)
      BY <1>4, <1>8, <3>1, Zenon
    <3> QED BY <2>2, <3>2, Zenon
  <2>3. CASE i # n + 1 /\ j # n + 1
    <3>1. Old(i) \in 1..Len(s) /\ r[i].id = s[Old(i)].id
      BY <1>4, <2>3, Zenon
    <3>2. Old(j) \in 1..Len(s) /\ r[j].id = s[Old(j)].id
      BY <1>4, <2>3, Zenon
    <3>3. s[Old(i)].id = s[Old(j)].id
      BY <3>1, <3>2
    <3>4. Old(i) = Old(j)
      BY <1>3, <3>1, <3>2, <3>3, Zenon DEF Distinct
    <3> QED BY <1>5, <2>3, <3>4, Zenon
  <2> QED BY <2>1, <2>2, <2>3, Zenon
<1>10. Ids(r) = Ids(s) \cup {t}
  <2>1. ASSUME NEW u \in Ids(r) PROVE u \in Ids(s) \cup {t}
    <3>1. PICK i \in 1..(Len(s) + 1) : r[i].id = u
      BY <1>3, <2>1, Zenon DEF Ids
    <3> QED BY <1>2, <1>4, <1>8, <3>1, Zenon
  <2>2. t \in Ids(r)
    BY <1>2, <1>3, <1>7, Zenon DEF Ids
  <2>3. ASSUME NEW u \in Ids(s) PROVE u \in Ids(r)
    <3>1. PICK j \in 1..Len(s) : s[j].id = u
      BY <1>3, <2>3, Zenon DEF Ids
    <3> QED BY <1>3, <1>6, <3>1, Zenon DEF Ids
  <2> QED BY <2>1, <2>2, <2>3, Zenon
<1>11. ASSUME NEW u \in Ids(r)
       PROVE  Left(r)[u] = IF u = t THEN Interval[t] ELSE Left(s)[u]
  <2>1. PICK i \in 1..(Len(s) + 1) : r[i].id = u
    BY <1>3, <1>11, Zenon DEF Ids
  <2>2. Left(r)[u] = E[i]
    BY <1>1, <1>9, <2>1, LeftFacts, Zenon DEF E
  <2>3. CASE i = n + 1
    BY <1>2, <2>1, <2>2, <2>3, Zenon
  <2>4. CASE i # n + 1
    <3>1. Old(i) \in 1..Len(s) /\ u = s[Old(i)].id /\ Left(r)[u] = D[Old(i)]
      BY <1>4, <2>1, <2>2, <2>4, Zenon
    <3>2. Left(s)[u] = D[Old(i)]
      BY <3>1, LeftFacts, Zenon DEF D
    <3> QED BY <1>8, <3>1, <3>2, Zenon
  <2> QED BY <2>3, <2>4, Zenon
<1>12. Left(r) = [u \in Ids(r) |-> Left(r)[u]]
  BY <1>1, <1>9, LeftFacts, Zenon
<1>13. Left(r) = [u \in Ids(s) \cup {t} |-> IF u = t THEN Interval[t] ELSE Left(s)[u]]
  <2>1. Left(r) = [u \in Ids(r) |-> IF u = t THEN Interval[t] ELSE Left(s)[u]]
    BY <1>11, <1>12, Zenon
  <2> QED BY <1>10, <2>1, Zenon
<1> QED BY <1>1, <1>9, <1>10, <1>13, Zenon DEF r

(* The first timer is the next to expire.                                  *)
LEMMA HeadIsNext ==
    ASSUME NEW s \in Seq(Entries), Distinct(s), s # <<>>
    PROVE  /\ Len(s) >= 1 /\ Head(s) = s[1] /\ s[1].id \in Ids(s) /\ s[1].id \in Timers
           /\ Left(s)[s[1].id] = s[1].time /\ s[1].time \in Nat
           /\ \A u \in Ids(s) : Left(s)[s[1].id] <= Left(s)[u]
<1>1. Len(s) \in Nat /\ Len(s) >= 1 /\ Head(s) = s[1]
  BY EntryFacts
<1>2. 1 \in 1..Len(s) /\ 1 \in 0..Len(s)
  BY <1>1
<1>3. s[1].id \in Timers /\ s[1].time \in Nat
  BY <1>2, EntryFacts
<1>4. s[1].id \in Ids(s) /\ Left(s)[s[1].id] = Due(s)[1]
  BY <1>2, LeftFacts, Zenon
<1>5. Due(s)[1] = s[1].time
  <2>1. Due(s)[0] = 0 /\ Due(s)[1] = Due(s)[1 - 1] + s[1].time
    BY <1>2, DueSums DEF Sums
  <2> QED BY <1>3, <2>1
<1>6. ASSUME NEW u \in Ids(s) PROVE Left(s)[s[1].id] <= Left(s)[u]
  <2>1. PICK i \in 1..Len(s) : s[i].id = u
    BY LeftFacts, Zenon
  <2>2. Left(s)[u] = Due(s)[i]
    BY <2>1, LeftFacts, Zenon
  <2>3. i \in 0..Len(s) /\ 1 <= i
    BY <1>1
  <2>4. Due(s)[1] <= Due(s)[i]
    BY <1>2, <2>3, DueGrows
  <2> QED BY <1>4, <2>2, <2>4, Zenon
<1> QED BY <1>1, <1>3, <1>4, <1>5, <1>6, Zenon

(* When the first timer leaves the list, its time has passed for all.      *)
LEMMA TailExpires ==
    ASSUME NEW s \in Seq(Entries), Distinct(s), s # <<>>
    PROVE  /\ Tail(s) \in Seq(Entries) /\ Distinct(Tail(s))
           /\ Ids(Tail(s)) = Ids(s) \ {s[1].id}
           /\ Left(Tail(s)) =
                [u \in Ids(s) \ {s[1].id} |-> Left(s)[u] - Left(s)[s[1].id]]
<1> DEFINE r == Tail(s)
           D == Due(s)
<1>1. Len(s) \in Nat /\ DOMAIN s = 1..Len(s) /\ Len(s) >= 1
  BY EntryFacts
<1>2. /\ r \in Seq(Entries) /\ Len(r) = Len(s) - 1 /\ DOMAIN r = 1..(Len(s) - 1)
      /\ \A i \in 1..(Len(s) - 1) : r[i] = s[i + 1]
  BY <1>1
<1> HIDE DEF r, D
<1>3. Distinct(r)
  <2> SUFFICES ASSUME NEW i \in 1..(Len(s) - 1), NEW j \in 1..(Len(s) - 1), r[i].id = r[j].id
               PROVE  i = j
    BY <1>2, Zenon DEF Distinct
  <2>1. i + 1 \in 1..Len(s) /\ j + 1 \in 1..Len(s) /\ s[i + 1].id = s[j + 1].id
    BY <1>1, <1>2
  <2>2. i + 1 = j + 1
    BY <1>1, <2>1, Zenon DEF Distinct
  <2> QED BY <1>1, <2>2
<1>4. Ids(r) = Ids(s) \ {s[1].id}
  <2>1. ASSUME NEW u \in Ids(r) PROVE u \in Ids(s) \ {s[1].id}
    <3>1. PICK i \in 1..(Len(s) - 1) : r[i].id = u
      BY <1>2, Zenon DEF Ids
    <3>2. i + 1 \in 1..Len(s) /\ i + 1 # 1 /\ 1 \in 1..Len(s) /\ s[i + 1].id = u
      BY <1>1, <1>2, <3>1
    <3> QED BY <1>1, <3>2, Zenon DEF Ids, Distinct
  <2>2. ASSUME NEW u \in Ids(s) \ {s[1].id} PROVE u \in Ids(r)
    <3>1. PICK i \in 1..Len(s) : s[i].id = u
      BY <1>1, Zenon DEF Ids
    <3>2. i # 1
      BY <3>1
    <3>3. i - 1 \in 1..(Len(s) - 1) /\ r[i - 1] = s[(i - 1) + 1] /\ (i - 1) + 1 = i
      BY <1>1, <1>2, <3>2
    <3> QED BY <1>2, <3>1, <3>3, Zenon DEF Ids
  <2> QED BY <2>1, <2>2, Zenon
<1>5. /\ D \in [0..Len(s) -> Nat] /\ D[0] = 0
      /\ \A i \in 1..Len(s) : D[i] = D[i - 1] + s[i].time
  BY DueSums DEF Sums, D
<1> DEFINE g == [i \in 0..(Len(s) - 1) |-> D[i + 1] - D[1]]
<1>6. \A i \in 0..(Len(s) - 1) : g[i] = D[i + 1] - D[1] /\ i + 1 \in 0..Len(s)
  BY <1>1
<1> HIDE DEF g
<1>7. g[0] = 0
  <2>1. g[0] = D[1] - D[1] /\ D[1] \in Nat
    BY <1>1, <1>5, <1>6
  <2> QED BY <2>1
<1>8. \A i \in 1..Len(r) : g[i] = g[i - 1] + r[i].time
  <2> SUFFICES ASSUME NEW i \in 1..(Len(s) - 1) PROVE g[i] = g[i - 1] + r[i].time
    BY <1>2
  <2>1. /\ i \in 0..(Len(s) - 1) /\ i - 1 \in 0..(Len(s) - 1) /\ i + 1 \in 1..Len(s)
        /\ (i + 1) - 1 = i /\ (i - 1) + 1 = i /\ i \in 0..Len(s) /\ 1 \in 0..Len(s)
    BY <1>1
  <2>2. g[i] = D[i + 1] - D[1] /\ g[i - 1] = D[i] - D[1]
    BY <1>6, <2>1
  <2>3. D[i + 1] = D[i] + s[i + 1].time
    BY <1>5, <2>1
  <2>4. D[i] \in Nat /\ D[1] \in Nat /\ s[i + 1].time \in Nat
    BY <1>5, <2>1, EntryFacts
  <2>5. r[i].time = s[i + 1].time
    BY <1>2
  <2> QED BY <2>2, <2>3, <2>4, <2>5
<1>9. \A i \in 0..Len(r) : Due(r)[i] = g[i]
  BY <1>2, <1>7, <1>8, DueUnique
<1>10. Left(s)[s[1].id] = D[1]
  <2>1. 1 \in 1..Len(s)
    BY <1>1
  <2> QED BY <2>1, LeftFacts, Zenon DEF D
<1>11. \A i \in 1..Len(r) : \E j \in 1..Len(s) :
          r[i].id = s[j].id /\ Due(r)[i] = Due(s)[j] - D[1]
  <2> SUFFICES ASSUME NEW i \in 1..(Len(s) - 1)
               PROVE  \E j \in 1..Len(s) : r[i].id = s[j].id /\ Due(r)[i] = Due(s)[j] - D[1]
    BY <1>2
  <2>1. i + 1 \in 1..Len(s) /\ i \in 0..Len(r) /\ i \in 0..(Len(s) - 1)
    BY <1>1, <1>2
  <2>2. r[i].id = s[i + 1].id /\ Due(r)[i] = D[i + 1] - D[1]
    BY <1>2, <1>6, <1>9, <2>1
  <2> QED BY <2>1, <2>2, Zenon DEF D
<1>12. Left(r) = [u \in Ids(s) \ {s[1].id} |-> Left(s)[u] - D[1]]
  <2> DEFINE d == D[1]
  <2>2. \A i \in 1..Len(r) : \E j \in 1..Len(s) :
           r[i].id = s[j].id /\ Due(r)[i] = Due(s)[j] - d
    BY <1>11
  <2> HIDE DEF d
  <2>3. Left(r) = [u \in Ids(r) |-> Left(s)[u] - d]
    BY <1>2, <1>3, <2>2, LeftShifted, Zenon
  <2> QED BY <1>4, <2>3, Zenon DEF d
<1> QED BY <1>2, <1>3, <1>4, <1>10, <1>12, Zenon DEF r

(* Time taken off the first entry has passed for every timer.              *)
LEMMA CutPasses ==
    ASSUME NEW s \in Seq(Entries), Distinct(s), s # <<>>, NEW d \in 0..s[1].time
    PROVE  LET r == [s EXCEPT ![1].time = @ - d]
           IN /\ r \in Seq(Entries) /\ Distinct(r) /\ Ids(r) = Ids(s)
              /\ Left(r) = [u \in Ids(s) |-> Left(s)[u] - d]
<1> DEFINE D == Due(s)
           r == [s EXCEPT ![1].time = @ - d]
<1>1. /\ Len(s) \in Nat /\ DOMAIN s = 1..Len(s) /\ Len(s) >= 1 /\ 1 \in 1..Len(s)
      /\ \A i \in 1..Len(s) : s[i] \in Entries /\ s[i].time \in Nat /\ s[i].time < Word
  BY EntryFacts
<1> DEFINE e == [s[1] EXCEPT !.time = @ - d]
<1>2. e \in Entries /\ e.id = s[1].id /\ e.time = s[1].time - d
  <2>1. s[1] \in [id : Timers, time : 0..(Word - 1)]
    BY <1>1 DEF Entries
  <2>2. s[1].time - d \in 0..(Word - 1)
    BY <1>1, SysTimeoutsAssumption
  <2>3. e.id = s[1].id /\ e.time = s[1].time - d /\ e \in [id : Timers, time : 0..(Word - 1)]
    BY <2>1, <2>2
  <2> QED BY <2>3 DEF Entries
<1>3. r = [s EXCEPT ![1] = e]
  BY DEF r, e
<1> HIDE DEF e, r
<1>4. r \in Seq(Entries) /\ Len(r) = Len(s) /\ DOMAIN r = 1..Len(s)
  BY <1>1, <1>2, <1>3
<1>5. r[1] = e /\ \A i \in 1..Len(s) : i # 1 => r[i] = s[i]
  BY <1>1, <1>3
<1>6. \A i \in 1..Len(s) : r[i].id = s[i].id
  BY <1>2, <1>5
<1>7. Distinct(r) /\ Ids(r) = Ids(s)
  <2>1. Distinct(r)
    BY <1>1, <1>4, <1>6, Zenon DEF Distinct
  <2>2. \A u : u \in Ids(r) <=> u \in Ids(s)
    BY <1>1, <1>4, <1>6, Zenon DEF Ids
  <2> QED BY <2>1, <2>2
<1>8. /\ D \in [0..Len(s) -> Nat] /\ D[0] = 0
      /\ \A i \in 1..Len(s) : D[i] = D[i - 1] + s[i].time
  BY DueSums DEF Sums
<1> HIDE DEF D
<1> DEFINE g == [i \in 0..Len(s) |-> IF i = 0 THEN 0 ELSE D[i] - d]
<1>9. g[0] = 0 /\ \A i \in 1..Len(s) : g[i] = D[i] - d
  BY <1>1
<1> HIDE DEF g
<1>10. \A i \in 1..Len(r) : g[i] = g[i - 1] + r[i].time
  <2> SUFFICES ASSUME NEW i \in 1..Len(s) PROVE g[i] = g[i - 1] + r[i].time
    BY <1>4
  <2>0. /\ D[i] \in Nat /\ D[i - 1] \in Nat /\ s[i].time \in Nat
        /\ D[i] = D[i - 1] + s[i].time /\ d \in Nat
    <3>1. i \in 0..Len(s) /\ i - 1 \in 0..Len(s)
      BY <1>1
    <3>2. D[i] \in Nat /\ D[i - 1] \in Nat
      BY <1>8, <3>1
    <3>3. s[i].time \in Nat /\ d \in Nat
      BY <1>1
    <3> QED BY <1>8, <3>2, <3>3
  <2>1. CASE i = 1
    <3>1. D[1] = s[1].time /\ s[1].time \in Nat
      BY <1>8, <2>0, <2>1
    <3> QED BY <1>2, <1>5, <1>9, <2>0, <2>1, <3>1
  <2>2. CASE i # 1
    <3>1. i - 1 \in 1..Len(s)
      BY <1>1, <2>2
    <3>2. g[i] = D[i] - d /\ g[i - 1] = D[i - 1] - d /\ r[i] = s[i]
      BY <1>5, <1>9, <2>2, <3>1
    <3> QED BY <2>0, <3>2
  <2> QED BY <2>1, <2>2
<1>11. \A i \in 0..Len(r) : Due(r)[i] = g[i]
  BY <1>4, <1>9, <1>10, DueUnique
<1>12. \A i \in 1..Len(r) : \E j \in 1..Len(s) :
          r[i].id = s[j].id /\ Due(r)[i] = Due(s)[j] - d
  <2> SUFFICES ASSUME NEW i \in 1..Len(s)
               PROVE  r[i].id = s[i].id /\ Due(r)[i] = D[i] - d
    BY <1>4, Zenon DEF D
  <2>1. i \in 0..Len(r)
    BY <1>1, <1>4
  <2> QED BY <1>6, <1>9, <1>11, <2>1
<1>13. Left(r) = [u \in Ids(s) |-> Left(s)[u] - d]
  <2>1. Left(r) = [u \in Ids(r) |-> Left(s)[u] - d]
    BY <1>4, <1>7, <1>12, LeftShifted, Zenon
  <2> QED BY <1>7, <2>1, Zenon
<1> QED BY <1>4, <1>7, <1>13, Zenon DEF r

-----------------------------------------------------------------------------
(* The invariant.                                                          *)

(* tcpip_thread waits only while its first timer has time left.            *)
Pending == pc \in {"wait", "woken", "late"} => list[1].time > 0

IInv == TypeOK /\ Pending

(* A step of the set of timers, or none.                                   *)
SetStep == Set!Next \/ Left(list') = Left(list)

(* The list of a state in which the invariant holds.                       *)
LEMMA ListFacts ==
    ASSUME TypeOK
    PROVE  /\ list \in Seq(Entries) /\ Distinct(list) /\ Ids(list) \subseteq Timers
           /\ pc \in {"fetch", "wait", "woken", "late"} =>
                 handler = NoTimer /\ Ids(list) = Timers /\ list # <<>>
<1>1. list \in Seq(Entries) /\ Distinct(list)
  BY DEF TypeOK, Distinct
<1>2. Ids(list) \subseteq Timers
  BY <1>1, LeftFacts, Zenon
<1>3. ASSUME pc \in {"fetch", "wait", "woken", "late"}
      PROVE  handler = NoTimer /\ Ids(list) = Timers /\ list # <<>>
  <2>1. pc # "init" /\ pc # "run"
    BY <1>3
  <2>2. handler = NoTimer
    BY <2>1, Zenon DEF TypeOK
  <2>3. Ids(list) = Timers
    BY <2>1, <2>2, SysTimeoutsAssumption DEF TypeOK
  <2>4. Ids(<<>>) = {}
    BY DEF Ids
  <2> QED BY <2>2, <2>3, <2>4, SysTimeoutsAssumption, Zenon
<1> QED BY <1>1, <1>2, <1>3, Zenon

(* Ticks fit in a word, whatever the multiplication lost.                  *)
LEMMA TicksFit == ASSUME NEW ms \in Nat PROVE AtLeast1(Ticks(ms)) \in 0..Word
<1>1. MsPerSec \in Nat \ {0} /\ TicksPerSec \in Nat /\ Word \in Nat \ {0}
  BY SysTimeoutsAssumption
<1>2. ms * TicksPerSec \in Int
  BY <1>1
<1> DEFINE x == ms * TicksPerSec
           y == x % Word
           z == y \div MsPerSec
<1>3. x \in Int
  BY <1>2
<1> HIDE DEF x
<1>4. y \in 0..(Word - 1)
  BY <1>1, <1>3
<1> HIDE DEF y
<1>5. z \in Nat /\ z <= y
  BY <1>1, <1>4
<1> HIDE DEF z
<1>6. Ticks(ms) = z
  BY DEF Ticks, x, y, z
<1> QED BY <1>1, <1>4, <1>5, <1>6 DEF AtLeast1

(* A message always takes some time off the first timer.                   *)
LEMMA WaitedSome ==
    ASSUME NEW from \in 0..(Word - 1), NEW to \in 0..(Word - 1)
    PROVE  WaitedMs(from, to) \in Nat /\ WaitedMs(from, to) >= 1
<1>1. MsPerSec \in Nat /\ TicksPerSec \in Nat \ {0} /\ Word \in Nat \ {0}
  BY SysTimeoutsAssumption
<1> DEFINE d == IF to > from THEN to - from ELSE Word - 1 - from + to
           x == d * MsPerSec
           y == x % Word
           z == y \div TicksPerSec
<1>2. d \in Nat
  BY <1>1
<1> HIDE DEF d
<1>3. x \in Int
  BY <1>1, <1>2
<1> HIDE DEF x
<1>4. y \in Nat
  BY <1>1, <1>3
<1> HIDE DEF y
<1>5. z \in Nat
  BY <1>1, <1>4
<1> HIDE DEF z
<1>6. WaitedMs(from, to) = z + 1
  BY DEF WaitedMs, d, x, y, z
<1> QED BY <1>5, <1>6

(* Times left are natural numbers.                                         *)
LEMMA LeftNat ==
    ASSUME NEW s \in Seq(Entries), Distinct(s), NEW t \in Ids(s)
    PROVE  Left(s)[t] \in Nat
<1>1. PICK i \in 1..Len(s) : s[i].id = t
  BY LeftFacts, Zenon
<1>2. Left(s)[t] = Due(s)[i]
  BY <1>1, LeftFacts, Zenon
<1>3. Due(s) \in [0..Len(s) -> Nat] /\ Len(s) \in Nat
  BY DueSums, EntryFacts DEF Sums
<1> QED BY <1>2, <1>3

(* The first timer's time, and what a message takes off it.                *)
First == list[1].time
Cut == IF WaitedMs(start, now) < First THEN WaitedMs(start, now) ELSE First

(* What the first timer has left every timer has, and all are in the list  *)
(* while tcpip_thread waits.                                               *)
LEMMA FirstFacts ==
    ASSUME IInv
    PROVE  /\ list # <<>> => First \in Nat
           /\ \A t \in Ids(list) :
                 list # <<>> /\ t \in Timers /\ Left(list)[t] \in Nat /\ First <= Left(list)[t]
           /\ pc \in {"wait", "woken", "late"} => First > 0
<1>1. list \in Seq(Entries) /\ Distinct(list) /\ Ids(list) \subseteq Timers
  BY ListFacts DEF IInv
<1>2. \A t \in Ids(list) : Left(list)[t] \in Nat /\ list # <<>>
  <2>1. Ids(<<>>) = {}
    BY DEF Ids
  <2> QED BY <1>1, <2>1, LeftNat, Zenon
<1>3. list # <<>> => First \in Nat /\ \A t \in Ids(list) : First <= Left(list)[t]
  <2> SUFFICES ASSUME list # <<>>
               PROVE  First \in Nat /\ \A t \in Ids(list) : First <= Left(list)[t]
    OBVIOUS
  <2>1. /\ Left(list)[list[1].id] = First /\ First \in Nat
        /\ \A t \in Ids(list) : Left(list)[list[1].id] <= Left(list)[t]
    BY <1>1, HeadIsNext, Zenon DEF First
  <2> QED BY <2>1
<1> QED BY <1>1, <1>2, <1>3 DEF IInv, Pending, First

-----------------------------------------------------------------------------
(* The steps.                                                              *)

(* A timer set again or for the first time.                                *)
LEMMA ArmStep ==
    ASSUME TypeOK, NEW t \in Timers, t \notin Ids(list), list' = Inserted(list, t)
    PROVE  /\ list' \in Seq(Entries) /\ Distinct(list')
           /\ Ids(list') = Ids(list) \cup {t}
           /\ SetStep
<1>1. list \in Seq(Entries) /\ Distinct(list)
  BY ListFacts
<1>2. /\ list' \in Seq(Entries) /\ Distinct(list') /\ Ids(list') = Ids(list) \cup {t}
      /\ Left(list') = [u \in Ids(list) \cup {t} |-> IF u = t THEN Interval[t] ELSE Left(list)[u]]
  BY <1>1, InsertedArms, Zenon
<1>3. DOMAIN Left(list) = Ids(list)
  BY DEF Left
<1>4. Set!Arm(t)
  BY <1>2, <1>3, Zenon DEF Set!Arm
<1> QED BY <1>2, <1>4, Zenon DEF SetStep, Set!Next

(* The first timer's expiry passes its time for the others.                *)
LEMMA RunLeft ==
    ASSUME TypeOK, list # <<>>, RunFirst
    PROVE  /\ handler' = list[1].id /\ handler' \in Ids(list) /\ handler' \in Timers
           /\ First \in Nat /\ Left(list)[handler'] = First
           /\ list' \in Seq(Entries) /\ Distinct(list')
           /\ Ids(list') = Ids(list) \ {handler'}
           /\ Left(list') = [u \in Ids(list) \ {handler'} |-> Left(list)[u] - First]
<1>1. list \in Seq(Entries) /\ Distinct(list)
  BY ListFacts
<1>2. handler' = list[1].id /\ list' = Tail(list)
  BY <1>1, HeadIsNext, Zenon DEF RunFirst
<1>3. /\ handler' \in Ids(list) /\ handler' \in Timers
      /\ First \in Nat /\ Left(list)[handler'] = First
  BY <1>1, <1>2, HeadIsNext, Zenon DEF First
<1>4. /\ list' \in Seq(Entries) /\ Distinct(list')
      /\ Ids(list') = Ids(list) \ {handler'}
      /\ Left(list') = [u \in Ids(list) \ {handler'} |-> Left(list)[u] - Left(list)[handler']]
  BY <1>1, <1>2, TailExpires, Zenon
<1> QED BY <1>2, <1>3, <1>4, Zenon

(* The first timer expires.                                                *)
LEMMA RunStep ==
    ASSUME TypeOK, list # <<>>, RunFirst
    PROVE  /\ list' \in Seq(Entries) /\ Distinct(list')
           /\ Ids(list') = Ids(list) \ {handler'} /\ handler' \in Timers
           /\ SetStep
<1>1. list \in Seq(Entries) /\ Distinct(list)
  BY ListFacts
<1>2. /\ handler' = list[1].id /\ handler' \in Ids(list) /\ handler' \in Timers
      /\ Left(list)[handler'] = First
      /\ list' \in Seq(Entries) /\ Distinct(list')
      /\ Ids(list') = Ids(list) \ {handler'}
      /\ Left(list') = [u \in Ids(list) \ {handler'} |-> Left(list)[u] - First]
  BY RunLeft, Zenon
<1>3. \A u \in Ids(list) : Left(list)[handler'] <= Left(list)[u]
  BY <1>1, <1>2, HeadIsNext, Zenon
<1>4. DOMAIN Left(list) = Ids(list)
  BY DEF Left
<1>5. Set!Expire(handler')
  BY <1>2, <1>3, <1>4, Zenon DEF Set!Expire, Set!IsNext
<1> QED BY <1>2, <1>5, Zenon DEF SetStep, Set!Next

(* A message passes its time for all.                                      *)
LEMMA WokenLeft ==
    ASSUME IInv, Woken
    PROVE  /\ First \in Nat /\ Cut \in 1..First /\ list'[1].time = First - Cut
           /\ list' \in Seq(Entries) /\ Distinct(list') /\ Ids(list') = Ids(list)
           /\ Left(list') = [u \in Ids(list) |-> Left(list)[u] - Cut]
<1>1. /\ list \in Seq(Entries) /\ Distinct(list) /\ list # <<>>
      /\ start \in 0..(Word - 1) /\ now \in 0..(Word - 1) /\ First > 0
  BY ListFacts DEF IInv, TypeOK, Pending, Woken, First
<1> DEFINE ms == WaitedMs(start, now)
<1>2. First \in Nat /\ Len(list) >= 1 /\ Len(list) \in Nat
  BY <1>1, HeadIsNext, EntryFacts, Zenon DEF First
<1>3. ms \in Nat /\ ms >= 1
  BY <1>1, WaitedSome
<1>4. list' = [list EXCEPT ![1].time = IF ms < @ THEN @ - ms ELSE 0]
  BY <1>1 DEF Woken
<1>5. Cut = IF ms < First THEN ms ELSE First
  BY DEF Cut
<1> HIDE DEF ms
<1>6. Cut \in 0..First /\ Cut \in 1..First /\ (IF ms < First THEN First - ms ELSE 0) = First - Cut
  BY <1>1, <1>2, <1>3, <1>5
<1>7. list' = [list EXCEPT ![1].time = @ - Cut]
  BY <1>4, <1>6 DEF First
<1>8. /\ list' \in Seq(Entries) /\ Distinct(list') /\ Ids(list') = Ids(list)
      /\ Left(list') = [u \in Ids(list) |-> Left(list)[u] - Cut]
  BY <1>1, <1>6, <1>7, CutPasses, Zenon DEF First
<1>9. list'[1].time = First - Cut
  <2>1. list[1] \in Entries /\ 1 \in DOMAIN list
    BY <1>1, <1>2, EntryFacts
  <2>2. list[1] \in [id : Timers, time : 0..(Word - 1)]
    BY <2>1 DEF Entries
  <2> HIDE DEF Cut
  <2> QED BY <1>1, <1>7, <2>1, <2>2 DEF First
<1> QED BY <1>2, <1>6, <1>8, <1>9

(* Time passes for every timer.                                            *)
LEMMA WokenStep ==
    ASSUME IInv, Woken
    PROVE  /\ list' \in Seq(Entries) /\ Distinct(list')
           /\ Ids(list') = Ids(list)
           /\ SetStep
<1>1. list \in Seq(Entries) /\ Distinct(list) /\ list # <<>>
  BY ListFacts DEF IInv, Woken
<1> DEFINE h == list[1].id
<1>2. /\ h \in Ids(list) /\ h \in Timers /\ Left(list)[h] = First
      /\ \A u \in Ids(list) : Left(list)[h] <= Left(list)[u]
  BY <1>1, HeadIsNext, Zenon DEF First
<1>3. /\ Cut \in 1..First
      /\ list' \in Seq(Entries) /\ Distinct(list') /\ Ids(list') = Ids(list)
      /\ Left(list') = [u \in Ids(list) |-> Left(list)[u] - Cut]
  BY WokenLeft, Zenon
<1>4. DOMAIN Left(list) = Ids(list)
  BY DEF Left
<1> HIDE DEF h
<1>5. Cut \in 1..Left(list)[h]
  BY <1>2, <1>3, Zenon
<1>6. Set!Pass(h)
  BY <1>2, <1>3, <1>4, <1>5, Zenon DEF Set!Pass, Set!IsNext
<1> QED BY <1>2, <1>3, <1>6, Zenon DEF SetStep, Set!Next

(* Every step keeps the invariant and is a step of the set or none.        *)
LEMMA Steps == IInv /\ [Next]_vars => IInv' /\ SetStep
<1> SUFFICES ASSUME IInv, [Next]_vars PROVE IInv' /\ SetStep
  OBVIOUS
<1>1. /\ now \in 0..(Word - 1) /\ start \in 0..(Word - 1) /\ dly \in 0..Word
      /\ pc \in {"init", "fetch", "wait", "woken", "late", "run"}
      /\ list \in Seq(Entries) /\ Distinct(list) /\ Ids(list) \subseteq Timers
      /\ pc # "init" => Ids(list) = Timers \ {handler}
      /\ handler \in Timers \cup {NoTimer} /\ ((pc = "run") <=> (handler # NoTimer))
      /\ Word \in Nat \ {0} /\ NoTimer \notin Timers
      /\ pc \in {"fetch", "wait", "woken", "late"} =>
            handler = NoTimer /\ Ids(list) = Timers /\ list # <<>>
  BY ListFacts, SysTimeoutsAssumption DEF IInv, TypeOK
<1>2. ASSUME /\ now' \in 0..(Word - 1) /\ start' \in 0..(Word - 1) /\ dly' \in 0..Word
             /\ pc' \in {"init", "fetch", "wait", "woken", "late", "run"}
             /\ list' \in Seq(Entries) /\ Distinct(list')
             /\ pc' # "init" => Ids(list') = Timers \ {handler'}
             /\ handler' \in Timers \cup {NoTimer}
             /\ (pc' = "run") <=> (handler' # NoTimer)
      PROVE  TypeOK'
  BY <1>2, Zenon DEF TypeOK, Distinct
<1>3. ASSUME UNCHANGED list
      PROVE  SetStep /\ list' \in Seq(Entries) /\ Distinct(list') /\ Ids(list') = Ids(list)
  BY <1>1, <1>3, Zenon DEF SetStep
<1>4. CASE SetTimer
  <2>1. PICK t \in Timers \ Ids(list) :
              /\ list' = Inserted(list, t)
              /\ pc' = IF Ids(list) \cup {t} = Timers THEN "fetch" ELSE "init"
    BY <1>4, Zenon DEF SetTimer
  <2>2. UNCHANGED <<now, start, dly, handler>> /\ pc = "init"
    BY <1>4, Zenon DEF SetTimer
  <2>3. /\ list' \in Seq(Entries) /\ Distinct(list')
        /\ Ids(list') = Ids(list) \cup {t} /\ SetStep
    BY <2>1, ArmStep DEF IInv
  <2>4. handler = NoTimer
    BY <1>1, <2>2
  <2>5. Timers \ {NoTimer} = Timers
    BY <1>1
  <2>6. TypeOK'
    BY <1>1, <1>2, <2>1, <2>2, <2>3, <2>4, <2>5
  <2>7. Pending'
    BY <2>1 DEF Pending
  <2> QED BY <2>3, <2>6, <2>7 DEF IInv
<1>5. CASE Tick
  <2>1. /\ now' = (now + 1) % Word
        /\ dly' = IF pc = "wait" /\ dly > 0 THEN dly - 1 ELSE dly
        /\ pc' = IF pc = "wait" /\ dly = 1 THEN "late" ELSE pc
        /\ UNCHANGED <<list, start, handler>>
    BY <1>5 DEF Tick
  <2>2. now' \in 0..(Word - 1)
    BY <1>1, <2>1
  <2>3. dly' \in 0..Word
    BY <1>1, <2>1
  <2>4. TypeOK'
    BY <1>1, <1>2, <2>1, <2>2, <2>3
  <2>5. Pending'
    BY <2>1 DEF IInv, Pending
  <2> QED BY <1>3, <2>1, <2>4, <2>5 DEF IInv
<1>6. CASE Message
  <2>1. /\ pc = "wait" /\ pc' = "woken" /\ dly' = 0
        /\ UNCHANGED <<now, list, start, handler>>
    BY <1>6 DEF Message
  <2>2. TypeOK'
    BY <1>1, <1>2, <2>1
  <2>3. Pending'
    BY <2>1 DEF IInv, Pending
  <2> QED BY <1>3, <2>1, <2>2, <2>3 DEF IInv
<1>7. CASE Fetch
  <2>1. CASE RunFirst /\ UNCHANGED <<start, dly, now>>
    <3>1. pc = "fetch" /\ pc' = "run"
      BY <1>7, <2>1 DEF Fetch, RunFirst
    <3>2. /\ list' \in Seq(Entries) /\ Distinct(list')
          /\ Ids(list') = Ids(list) \ {handler'} /\ handler' \in Timers /\ SetStep
      BY <1>1, <2>1, <3>1, RunStep DEF IInv
    <3>3. TypeOK'
      BY <1>1, <1>2, <2>1, <3>1, <3>2
    <3>4. Pending'
      BY <3>1 DEF Pending
    <3> QED BY <3>2, <3>3, <3>4 DEF IInv
  <2>2. CASE ~ (RunFirst /\ UNCHANGED <<start, dly, now>>)
    <3>1. /\ pc = "fetch" /\ pc' = "wait" /\ start' = now
          /\ list = <<>> \/ Head(list).time > 0
          /\ dly' = IF list = <<>> THEN 0 ELSE AtLeast1(Ticks(Head(list).time))
          /\ UNCHANGED <<now, list, handler>>
      BY <1>7, <2>2 DEF Fetch
    <3>2. list # <<>>
      BY <1>1, <3>1
    <3>3. Head(list) = list[1] /\ list[1].time \in Nat
      BY <1>1, <3>2, HeadIsNext, Zenon
    <3>4. dly' \in 0..Word
      BY <3>1, <3>2, <3>3, TicksFit
    <3>5. TypeOK'
      BY <1>1, <1>2, <3>1, <3>4
    <3>6. Pending'
      BY <3>1, <3>2, <3>3 DEF Pending
    <3> QED BY <1>3, <3>1, <3>5, <3>6 DEF IInv
  <2> QED BY <2>1, <2>2, Zenon
<1>8. CASE TimedOut
  <2>1. pc = "late" /\ pc' = "run" /\ RunFirst /\ start' = 0 /\ UNCHANGED <<now, dly>>
    BY <1>8 DEF TimedOut, RunFirst
  <2>2. /\ list' \in Seq(Entries) /\ Distinct(list')
        /\ Ids(list') = Ids(list) \ {handler'} /\ handler' \in Timers /\ SetStep
    BY <1>1, <2>1, RunStep DEF IInv
  <2>3. TypeOK'
    BY <1>1, <1>2, <2>1, <2>2
  <2>4. Pending'
    BY <2>1 DEF Pending
  <2> QED BY <2>2, <2>3, <2>4 DEF IInv
<1>9. CASE Woken
  <2>1. pc = "woken" /\ pc' = "fetch" /\ start' = 0 /\ UNCHANGED <<now, dly, handler>>
    BY <1>9 DEF Woken
  <2>2. /\ list' \in Seq(Entries) /\ Distinct(list')
        /\ Ids(list') = Ids(list) /\ SetStep
    BY <1>9, WokenStep
  <2>3. TypeOK'
    BY <1>1, <1>2, <2>1, <2>2
  <2>4. Pending'
    BY <2>1 DEF Pending
  <2> QED BY <2>2, <2>3, <2>4 DEF IInv
<1>10. CASE Rearm
  <2>1. /\ pc = "run" /\ list' = Inserted(list, handler) /\ handler' = NoTimer
        /\ pc' = "fetch" /\ UNCHANGED <<now, start, dly>>
    BY <1>10 DEF Rearm
  <2>2. handler \in Timers /\ handler \notin Ids(list)
    BY <1>1, <2>1
  <2>3. /\ list' \in Seq(Entries) /\ Distinct(list')
        /\ Ids(list') = Ids(list) \cup {handler} /\ SetStep
    BY <2>1, <2>2, ArmStep DEF IInv
  <2>4. Ids(list') = Timers \ {handler'}
    BY <1>1, <2>1, <2>2, <2>3
  <2>5. TypeOK'
    BY <1>1, <1>2, <2>1, <2>3, <2>4
  <2>6. Pending'
    BY <2>1 DEF Pending
  <2> QED BY <2>3, <2>5, <2>6 DEF IInv
<1>11. CASE UNCHANGED vars
  <2>1. UNCHANGED <<now, list, pc, start, dly, handler>>
    BY <1>11 DEF vars
  <2>2. TypeOK'
    BY <1>1, <1>2, <2>1
  <2>3. Pending'
    BY <2>1 DEF IInv, Pending
  <2> QED BY <1>3, <2>1, <2>2, <2>3 DEF IInv
<1>12. \/ SetTimer \/ Tick \/ Message \/ Fetch \/ TimedOut \/ Woken \/ Rearm
       \/ UNCHANGED vars
  BY Zenon DEF Next, TcpipThread
<1> QED BY <1>4, <1>5, <1>6, <1>7, <1>8, <1>9, <1>10, <1>11, <1>12, Zenon

(* At the start no timer is set.                                           *)
LEMMA Start == Init => IInv /\ Set!Init
<1> SUFFICES ASSUME Init PROVE IInv /\ Set!Init
  OBVIOUS
<1>1. list = <<>> /\ list \in Seq(Entries) /\ Len(list) = 0 /\ DOMAIN list = {}
  BY DEF Init
<1>2. Ids(list) = {}
  BY <1>1 DEF Ids
<1>3. TypeOK
  BY <1>1, SysTimeoutsAssumption DEF Init, TypeOK
<1>4. Pending
  BY DEF Init, Pending
<1>5. Left(list) = [t \in {} |-> 0]
  <2>1. Left(list) = [t \in {} |-> Due(list)[CHOOSE i \in DOMAIN list : list[i].id = t]]
    BY <1>2 DEF Left
  <2> QED BY <2>1, Zenon
<1> QED BY <1>3, <1>4, <1>5 DEF IInv, Set!Init

(* The delta list is well formed, and a handler runs exactly while its     *)
(* timer is not in the list.                                               *)
THEOREM TypeCorrect == Spec => []TypeOK
<1>1. IInv /\ [Next]_vars => IInv'
  BY Steps
<1>2. Init => IInv
  BY Start
<1>3. IInv => TypeOK
  BY DEF IInv
<1> QED BY <1>1, <1>2, <1>3, PTL DEF Spec

(* sys_timeout's list of differences, the truncation of its first entry    *)
(* and the expiries of sys_timeouts_mbox_fetch implement a set of timers   *)
(* that expire in the order of the times left, every insertion and every   *)
(* early expiry leaving the other timers' times right.                     *)
THEOREM ListIsSet == Spec => ExpireInOrder
<1>1. IInv /\ [Next]_vars => IInv' /\ [Set!Next]_(Left(list))
  BY Steps DEF SetStep
<1>2. Init => IInv /\ Set!Init
  BY Start
<1> QED BY <1>1, <1>2, PTL DEF Spec, ExpireInOrder, Set!Spec

-----------------------------------------------------------------------------
(* Ticks of K milliseconds.                                                *)

(* A multiple of K less than K above another is not above it.              *)
LEMMA MulLess ==
    ASSUME NEW K \in Nat \ {0}, NEW a \in Int, NEW b \in Int, K * a < K * b + K
    PROVE  a <= b /\ K * a <= K * b
<1> DEFINE c == a - b - 1
<1>1. SUFFICES ASSUME ~ (a <= b) PROVE FALSE
  <2>1. ASSUME a <= b PROVE K * a <= K * b
    <3>1. K * (b - a) >= 0
      BY <2>1
    <3>2. K * (b - a) = K * b - K * a
      OBVIOUS
    <3> QED BY <3>1, <3>2
  <2> QED BY <2>1
<1>2. c \in Nat
  BY <1>1
<1>3. K * c >= 0
  BY <1>2
<1>4. K * c = K * a - K * b - K
  OBVIOUS
<1> QED BY <1>3, <1>4

(* Times of a whole number of ticks.                                       *)
Whole(K, n) == \E m \in Int : n = K * m

(* A wait of e ticks for a first timer of h milliseconds.                  *)
Budget(K, e, h) == e <= 1 \/ K * e <= h

(* The handler of a timer with w ticks waited before this wait, and h ms   *)
(* and n ticks left, runs in time when the wait is within its budget.      *)
LEMMA Punctual ==
    ASSUME NEW K \in Nat \ {0}, NEW i \in Int, NEW w \in Int, NEW n \in Int,
           NEW h \in Nat, NEW e \in Nat, n >= 0,
           K * w + (h + K * n) < K * i + K,
           K * w + (h + K * n) > K * i => h >= K,
           Budget(K, e, h), h > 0 \/ e = 0
    PROVE  K * (w + e) + K * n <= K * i /\ w + e <= i
<1>1. /\ K * w \in Int /\ K * n \in Int /\ K * i \in Int /\ K * e \in Int /\ K \in Int
      /\ K * (w + e + n) = K * w + K * e + K * n /\ K * (w + n + 1) = K * w + K * n + K
      /\ K * (w + e) = K * w + K * e /\ K * (w + n) = K * w + K * n
  OBVIOUS
<1>2. w + e + n <= i /\ K * (w + e + n) <= K * i
  <2>1. CASE K * e <= h
    <3>1. K * (w + e + n) < K * i + K
      BY <1>1, <2>1
    <3> QED BY <3>1, MulLess
  <2>2. CASE ~ (K * e <= h)
    <3>1. e = 1
      <4>1. e <= 1
        BY <2>2 DEF Budget
      <4>2. e # 0
        BY <2>2
      <4> QED BY <4>1, <4>2
    <3>2. K * e = K
      BY <3>1
    <3>3. K * w + (h + K * n) <= K * i /\ h > 0
      BY <1>1, <2>2, <3>1, <3>2
    <3>4. K * (w + n + 1) < K * i + K
      BY <1>1, <3>3
    <3>5. w + n + 1 <= i /\ K * (w + n + 1) <= K * i
      BY <3>4, MulLess
    <3> QED BY <3>1, <3>5
  <2> QED BY <2>1, <2>2
<1> QED BY <1>1, <1>2

(* Ticks waited before a message cost no more than the first timer's time. *)
LEMMA WithinFirst ==
    ASSUME NEW K \in Nat \ {0}, NEW h \in Nat, NEW e \in Nat, Budget(K, e + 1, h)
    PROVE  K * e <= h /\ (e > 0 => K * e + K <= h)
<1>1. K * (e + 1) = K * e + K
  OBVIOUS
<1>2. e = 0 => K * e = 0
  OBVIOUS
<1> QED BY <1>1, <1>2 DEF Budget

(* What a message of d ticks later takes off is at least what was waited.  *)
LEMMA CutInTime ==
    ASSUME NEW K \in Nat \ {0}, NEW i \in Int, NEW w \in Int, NEW n \in Int,
           NEW h \in Nat, NEW e \in Nat, NEW d \in Nat, NEW c \in Nat,
           d >= 1, e <= d, Budget(K, e + 1, h),
           c = IF K * d + 1 < h THEN K * d + 1 ELSE h,
           K * w + (h + K * n) < K * i + K,
           K * w + (h + K * n) > K * i => h >= K
    PROVE  /\ K * w + (h + K * n) <= K * i => K * (w + e) + (h - c + K * n) <= K * i
           /\ K * (w + e) + (h - c + K * n) < K * i + K
           /\ K * (w + e) + (h - c + K * n) > K * i => h - c >= K
<1>1. /\ K * w \in Int /\ K * n \in Int /\ K * i \in Int /\ K * e \in Int /\ K * d \in Int /\ K \in Int
      /\ K * (w + e) = K * w + K * e
  OBVIOUS
<1>2. K * e <= h /\ (e > 0 => K * e + K <= h)
  BY WithinFirst
<1>3. K * e <= K * d /\ (e < d => K * e + K <= K * d)
  <2>1. K * (d - e) = K * d - K * e /\ K * (d - e) >= 0
    OBVIOUS
  <2>2. ASSUME e < d PROVE K * (d - e - 1) >= 0
    BY <2>2
  <2>3. K * (d - e - 1) = K * d - K * e - K
    OBVIOUS
  <2> QED BY <1>1, <2>1, <2>2, <2>3
<1>4. CASE K * d + 1 < h
  <2>1. c = K * d + 1
    BY <1>4
  <2>2. ASSUME K * (w + e) + (h - c + K * n) > K * i PROVE h - c >= K
    <3>1. e = d
      BY <1>1, <1>3, <2>1, <2>2
    <3>2. K * w + (h + K * n) > K * i /\ K * d + K <= h
      BY <1>1, <1>2, <2>1, <2>2, <3>1
    <3>3. h # K * d + K
      <4>1. SUFFICES ASSUME h = K * d + K PROVE FALSE
        OBVIOUS
      <4>2. K * (w + d + 1 + n) = K * w + (h + K * n)
        BY <4>1
      <4>3. K * (w + d + 1 + n) <= K * i
        BY <4>2, MulLess
      <4> QED BY <1>1, <3>2, <4>2, <4>3
    <3> QED BY <1>1, <2>1, <3>2, <3>3
  <2> QED BY <1>1, <1>3, <2>1, <2>2
<1>5. CASE ~ (K * d + 1 < h)
  <2>1. c = h
    BY <1>5
  <2>2. K * (w + e) + (h - c + K * n) <= K * i
    <3>1. K * w + K * e + K * n < K * i + K
      BY <1>1, <1>2
    <3>2. K * (w + e + n) = K * w + K * e + K * n
      OBVIOUS
    <3>3. K * (w + e + n) <= K * i
      BY <3>1, <3>2, MulLess
    <3> QED BY <1>1, <2>1, <3>2, <3>3
  <2> QED BY <1>1, <2>2
<1> QED BY <1>4, <1>5

(* When OSTime wrapped during the wait it is at most one tick less.        *)
LEMMA CutAfterWrap ==
    ASSUME NEW K \in Nat \ {0}, NEW i \in Int, NEW w \in Int, NEW n \in Int,
           NEW h \in Nat, NEW e \in Nat, NEW d \in Nat, NEW c \in Nat,
           e <= d + 1, Budget(K, e + 1, h),
           c = IF K * d + 1 < h THEN K * d + 1 ELSE h,
           K * w + (h + K * n) <= K * i
    PROVE  /\ K * (w + e) + (h - c + K * n) < K * i + K
           /\ K * (w + e) + (h - c + K * n) > K * i => h - c >= K
<1>1. /\ K * w \in Int /\ K * n \in Int /\ K * i \in Int /\ K * e \in Int /\ K * d \in Int /\ K \in Int
      /\ K * (w + e) = K * w + K * e
  OBVIOUS
<1>2. K * e <= h /\ (e > 0 => K * e + K <= h)
  BY WithinFirst
<1>3. K * e <= K * d + K /\ (e <= d => K * e <= K * d)
  <2>1. K * (d + 1 - e) = K * d + K - K * e /\ K * (d + 1 - e) >= 0
    OBVIOUS
  <2>2. ASSUME e <= d PROVE K * (d - e) >= 0
    BY <2>2
  <2>3. K * (d - e) = K * d - K * e
    OBVIOUS
  <2> QED BY <1>1, <2>1, <2>2, <2>3
<1>4. CASE K * d + 1 < h
  <2>1. c = K * d + 1
    BY <1>4
  <2>2. ASSUME K * (w + e) + (h - c + K * n) > K * i PROVE h - c >= K
    <3>1. e = d + 1
      BY <1>1, <1>3, <2>1, <2>2
    <3>2. K * e = K * d + K /\ K * e + K <= h
      <4>1. e > 0 /\ K * (d + 1) = K * d + K
        BY <3>1
      <4> QED BY <1>2, <3>1, <4>1
    <3> QED BY <1>1, <2>1, <3>2
  <2> QED BY <1>1, <1>3, <2>1, <2>2
<1>5. CASE ~ (K * d + 1 < h)
  BY <1>1, <1>2, <1>5
<1> QED BY <1>4, <1>5

(* A message of the same tick takes off something and counts no wait.      *)
LEMMA CutAtOnce ==
    ASSUME NEW K \in Nat \ {0}, NEW i \in Int, NEW w \in Int, NEW n \in Int,
           NEW h \in Nat, NEW c \in 1..h,
           K * w + (h + K * n) < K * i + K,
           K * w + (h + K * n) > K * i => h >= K
    PROVE  /\ K * w + (h + K * n) <= K * i => K * w + (h - c + K * n) <= K * i
           /\ K * w + (h - c + K * n) < K * i + K
           /\ K * w + (h - c + K * n) > K * i => h - c >= K
<1>1. /\ K * w \in Int /\ K * n \in Int /\ K * i \in Int /\ K \in Int /\ c \in Nat /\ c <= h
      /\ K * (w + n) = K * w + K * n
  OBVIOUS
<1>2. ASSUME K * w + (h - c + K * n) > K * i, h - c < K PROVE FALSE
  <2>1. K * i < K * (w + n) + K
    BY <1>1, <1>2
  <2>2. K * i <= K * (w + n)
    BY <2>1, MulLess
  <2>3. h >= K
    BY <1>1, <1>2
  <2>4. K * (w + n) < K * i
    BY <1>1, <2>3
  <2> QED BY <1>1, <2>2, <2>4
<1> QED BY <1>1, <1>2

(* Division by a positive number, as a product and a rest.                 *)
LEMMA DivFacts ==
    ASSUME NEW x \in Nat, NEW b \in Nat \ {0}
    PROVE  x \div b \in Nat /\ b * (x \div b) <= x /\ x < b * (x \div b) + b
<1> DEFINE q == x \div b
           r == x % b
<1>1. q \in Int /\ r \in 0..(b - 1)
  OBVIOUS
<1>2. x = b * q + r
  OBVIOUS
<1>3. q \in Nat
  <2>1. q <= x /\ q >= 0
    OBVIOUS
  <2> QED BY <1>1, <2>1
<1> HIDE DEF q, r
<1>4. b * q \in Int
  BY <1>1
<1>5. b * q <= x /\ x < b * q + b
  BY <1>1, <1>2, <1>4
<1> QED BY <1>3, <1>5, Zenon DEF q

(* A multiple divided.                                                     *)
LEMMA DivMul == ASSUME NEW a \in Nat, NEW b \in Nat \ {0} PROVE (b * a) \div b = a
<1> DEFINE q == (b * a) \div b
<1>1. b * a \in Nat
  OBVIOUS
<1>2. q \in Nat /\ b * q <= b * a /\ b * a < b * q + b
  BY <1>1, DivFacts
<1> HIDE DEF q
<1>3. a <= q
  BY <1>2, MulLess
<1>4. b * q < b * a + b
  BY <1>1, <1>2
<1>5. q <= a
  BY <1>2, <1>4, MulLess
<1> QED BY <1>2, <1>3, <1>5 DEF q

(* A value below the modulus.                                              *)
LEMMA ModSmall == ASSUME NEW x \in Nat, NEW m \in Nat \ {0}, x < m PROVE x % m = x
OBVIOUS

-----------------------------------------------------------------------------
(* What WholeTicks says of a tick of K milliseconds.                       *)
TickOf(K) ==
    /\ K \in Nat \ {0} /\ MsPerSec = K * TicksPerSec
    /\ \A t \in Timers : Whole(K, Interval[t]) /\ Interval[t] * TicksPerSec < Word

(* The types of the constants.                                             *)
LEMMA ConstantFacts ==
    /\ MsPerSec \in Nat \ {0} /\ TicksPerSec \in Nat \ {0} /\ Word \in Nat \ {0}
    /\ \A t \in Timers : Interval[t] \in Nat /\ Interval[t] >= 1 /\ Interval[t] < Word
    /\ Timers # {} /\ NoTimer \notin Timers
BY SysTimeoutsAssumption

(* A wait for a time that an interval bounds is within its budget.         *)
LEMMA WaitTicks ==
    ASSUME NEW K, TickOf(K), NEW t \in Timers, NEW h \in Nat, h <= Interval[t]
    PROVE  /\ AtLeast1(Ticks(h)) \in Nat /\ AtLeast1(Ticks(h)) >= 1
           /\ Budget(K, AtLeast1(Ticks(h)), h)
<1>1. /\ K \in Nat \ {0} /\ MsPerSec = K * TicksPerSec /\ MsPerSec \in Nat \ {0}
      /\ TicksPerSec \in Nat \ {0} /\ Word \in Nat \ {0}
      /\ Interval[t] \in Nat /\ Interval[t] * TicksPerSec < Word
  BY ConstantFacts DEF TickOf
<1> DEFINE x == h * TicksPerSec
           q == x \div MsPerSec
<1>2. x \in Nat /\ x < Word
  <2>1. (Interval[t] - h) * TicksPerSec >= 0
    BY <1>1
  <2>2. (Interval[t] - h) * TicksPerSec = Interval[t] * TicksPerSec - x
    BY <1>1
  <2>3. x \in Nat
    BY <1>1
  <2> HIDE DEF x
  <2>4. Interval[t] * TicksPerSec \in Nat
    BY <1>1
  <2> QED BY <1>1, <2>1, <2>2, <2>3, <2>4
<1>3. Ticks(h) = q
  <2> HIDE DEF x
  <2>1. x % Word = x
    BY <1>1, <1>2, ModSmall
  <2> QED BY <2>1, Zenon DEF Ticks, x, q
<1>4. q \in Nat /\ MsPerSec * q <= x
  <2> HIDE DEF x
  <2> QED BY <1>1, <1>2, DivFacts, Zenon DEF q
<1> HIDE DEF q
<1>5. K * q <= h
  <2>1. MsPerSec * q = TicksPerSec * (K * q)
    BY <1>1, <1>4
  <2>2. K * q \in Nat /\ x = TicksPerSec * h
    BY <1>1, <1>4
  <2>3. TicksPerSec * (K * q) < TicksPerSec * h + TicksPerSec
    <3> HIDE DEF x
    <3>1. TicksPerSec * h \in Nat /\ TicksPerSec * (K * q) \in Nat
      BY <1>1, <2>2
    <3> QED BY <1>1, <1>4, <2>1, <2>2, <3>1
  <2> QED BY <1>1, <2>2, <2>3, MulLess
<1> QED BY <1>3, <1>4, <1>5 DEF AtLeast1, Budget

(* An interval's ticks.                                                    *)
LEMMA TicksOfInterval ==
    ASSUME NEW K, TickOf(K), NEW t \in Timers
    PROVE  /\ IntervalTicks(t) \in Nat /\ Interval[t] = K * IntervalTicks(t)
           /\ K \in Nat \ {0} /\ Interval[t] >= 1
<1>1. /\ K \in Nat \ {0} /\ MsPerSec = K * TicksPerSec /\ MsPerSec \in Nat \ {0}
      /\ TicksPerSec \in Nat \ {0} /\ Word \in Nat \ {0}
      /\ Interval[t] \in Nat /\ Interval[t] >= 1 /\ Interval[t] * TicksPerSec < Word
  BY ConstantFacts DEF TickOf
<1>2. PICK i \in Int : Interval[t] = K * i
  BY DEF TickOf, Whole
<1>3. i \in Nat
  <2>1. SUFFICES ASSUME i < 0 PROVE FALSE
    BY <1>2
  <2>2. K * (0 - i) >= 0 /\ K * (0 - i) = 0 - K * i
    BY <1>1, <2>1
  <2> QED BY <1>1, <1>2, <2>2
<1> DEFINE x == Interval[t] * TicksPerSec
<1>4. x = MsPerSec * i /\ x \in Nat /\ x < Word
  <2>1. (K * i) * TicksPerSec = (K * TicksPerSec) * i
    BY <1>1
  <2> QED BY <1>1, <1>2, <2>1
<1> HIDE DEF x
<1>5. x % Word = x
  BY <1>1, <1>4, ModSmall
<1>6. x \div MsPerSec = i
  BY <1>1, <1>3, <1>4, DivMul
<1>7. IntervalTicks(t) = i
  BY <1>5, <1>6, Zenon DEF IntervalTicks, Ticks, x
<1> QED BY <1>1, <1>2, <1>3, <1>7

(* The milliseconds that sys_arch_mbox_fetch reports for d ticks.          *)
LEMMA ReportedMs ==
    ASSUME NEW K, TickOf(K), NEW from \in Nat, NEW to \in Nat, NEW d \in Nat,
           d = IF to > from THEN to - from ELSE Word - 1 - from + to,
           d * MsPerSec < Word
    PROVE  WaitedMs(from, to) = K * d + 1
<1>1. /\ K \in Nat \ {0} /\ MsPerSec = K * TicksPerSec /\ MsPerSec \in Nat \ {0}
      /\ TicksPerSec \in Nat \ {0} /\ Word \in Nat \ {0}
  BY ConstantFacts DEF TickOf
<1> DEFINE x == d * MsPerSec
<1>2. x \in Nat /\ x < Word /\ x = TicksPerSec * (K * d) /\ K * d \in Nat
  BY <1>1
<1> HIDE DEF x
<1>3. x % Word = x
  BY <1>1, <1>2, ModSmall
<1>4. x \div TicksPerSec = K * d
  BY <1>1, <1>2, DivMul
<1> QED BY <1>3, <1>4, Zenon DEF WaitedMs, x

-----------------------------------------------------------------------------
(* Punctuality: the invariant, for ticks of K milliseconds.                *)

Waiting == pc \in {"wait", "woken", "late"}

(* The time a timer waited but for e ticks, and has left.                  *)
Spent(K, t, e) == K * (waited[t] - e) + Left(list)[t]

(* That is never more than its interval: all a message takes off was       *)
(* waited.  But once OSTime has wrapped during a wait since the timer was  *)
(* set it may be more by less than a tick, while the first timer has a     *)
(* tick left.                                                              *)
InTime(K, e) ==
    \A t \in Ids(list) :
        /\ wraps[t] = 0 \/ now < start => Spent(K, t, e) <= Interval[t]
        /\ Spent(K, t, e) < Interval[t] + K
        /\ Spent(K, t, e) > Interval[t] => First >= K

(* The wait that goes on has taken e ticks.                                *)
Elapsed(K, e) ==
    /\ pc = "wait" => dly >= 1 /\ Budget(K, e + dly, First) /\ e = Since
    /\ pc = "woken" => Budget(K, e + 1, First) /\ e <= Since
    /\ pc = "late" => Budget(K, e, First)
    /\ ~ Waiting => e = 0

(* The counts, and what a wrap during a wait does to them.                 *)
Counted ==
    /\ waited \in [Timers -> Nat] /\ wraps \in [Timers -> Nat]
    /\ now < start => \A t \in Timers : wraps[t] >= 1
    /\ ~ Waiting => start = 0
    /\ pc = "init" => \A t \in Timers : waited[t] = 0

(* The timers are whole ticks apart, and no interval is exceeded.          *)
Aligned(K) ==
    /\ \A t, u \in Ids(list) : Whole(K, Left(list)[t] - Left(list)[u])
    /\ pc \in {"init", "run"} => \A t \in Ids(list) : Whole(K, Left(list)[t])
    /\ \A t \in Ids(list) : Left(list)[t] <= Interval[t]
    /\ pc = "run" => K * waited[handler] <= Interval[handler]

OnTime(K) ==
    /\ Counted /\ Aligned(K)
    /\ \E e \in Nat : Elapsed(K, e) /\ InTime(K, e)

(* A shorter wait has the budget of a longer one.                          *)
LEMMA BudgetLess ==
    ASSUME NEW K \in Nat \ {0}, NEW h \in Nat, NEW e \in Nat, NEW f \in Nat, f <= e,
           Budget(K, e, h)
    PROVE  Budget(K, f, h)
<1>1. K * (e - f) >= 0 /\ K * (e - f) = K * e - K * f
  OBVIOUS
<1>2. K * e \in Int /\ K * f \in Int
  OBVIOUS
<1> QED BY <1>1, <1>2 DEF Budget

(* A timer's time left is the first timer's and whole ticks.               *)
LEMMA Ahead ==
    ASSUME NEW K, TickOf(K), IInv, Aligned(K), NEW t \in Ids(list)
    PROVE  \E n \in Nat : Left(list)[t] = First + K * n
<1>1. K \in Nat \ {0}
  BY DEF TickOf
<1>2. /\ list \in Seq(Entries) /\ Distinct(list) /\ list # <<>>
      /\ Left(list)[t] \in Nat /\ First \in Nat /\ First <= Left(list)[t]
  BY ListFacts, FirstFacts DEF IInv
<1>3. list[1].id \in Ids(list) /\ Left(list)[list[1].id] = First
  BY <1>2, HeadIsNext, Zenon DEF First
<1>4. PICK n \in Int : Left(list)[t] - First = K * n
  BY <1>3 DEF Aligned, Whole
<1>5. n >= 0
  <2>1. SUFFICES ASSUME n < 0 PROVE FALSE
    BY <1>1
  <2>2. K * (0 - n) > 0 /\ K * (0 - n) = 0 - K * n
    BY <1>1, <2>1
  <2> QED BY <1>1, <1>2, <1>4, <2>2
<1>6. K * n \in Int
  BY <1>1
<1> QED BY <1>2, <1>4, <1>5, <1>6

(* The ticks that have passed are within the first timer's time.           *)
LEMMA ElapsedBudget ==
    ASSUME NEW K, TickOf(K), IInv, NEW e \in Nat, Elapsed(K, e), list # <<>>
    PROVE  Budget(K, e, First) /\ (First > 0 \/ e = 0)
<1>1. K \in Nat \ {0} /\ First \in Nat /\ (Waiting => First > 0) /\ dly \in Nat
  BY FirstFacts, ConstantFacts DEF TickOf, Waiting, IInv, TypeOK
<1>2. CASE pc = "wait"
  <2>1. Budget(K, e + dly, First)
    BY <1>2 DEF Elapsed
  <2>2. e + dly \in Nat /\ e <= e + dly
    BY <1>1
  <2>3. Budget(K, e, First)
    BY <1>1, <2>1, <2>2, BudgetLess
  <2> QED BY <1>1, <1>2, <2>3 DEF Waiting
<1>3. CASE pc = "woken"
  <2>1. Budget(K, e + 1, First)
    BY <1>3 DEF Elapsed
  <2>2. e + 1 \in Nat /\ e <= e + 1
    OBVIOUS
  <2>3. Budget(K, e, First)
    BY <1>1, <2>1, <2>2, BudgetLess
  <2> QED BY <1>1, <1>3, <2>3 DEF Waiting
<1>4. CASE pc = "late"
  BY <1>1, <1>4 DEF Elapsed, Waiting
<1>5. CASE ~ Waiting
  BY <1>5 DEF Elapsed, Budget
<1> QED BY <1>2, <1>3, <1>4, <1>5 DEF Waiting

(* So much as a timer waited and still has after this wait is in time.     *)
LEMMA HandlersInTime ==
    ASSUME NEW K, TickOf(K), IInv, Counted, Aligned(K), NEW e \in Nat, InTime(K, e),
           NEW t \in Ids(list), Budget(K, e, First), First > 0 \/ e = 0
    PROVE  /\ t \in Timers /\ waited[t] \in Nat
           /\ waited[t] <= IntervalTicks(t)
           /\ \E n \in Nat : /\ Left(list)[t] = First + K * n
                             /\ K * waited[t] + K * n <= Interval[t]
<1>1. K \in Nat \ {0} /\ t \in Timers /\ First \in Nat /\ waited[t] \in Nat
  BY FirstFacts DEF TickOf, Counted
<1>2. PICK n \in Nat : Left(list)[t] = First + K * n
  BY Ahead
<1> DEFINE i == IntervalTicks(t)
           w == waited[t] - e
           h == First
<1>3. i \in Nat /\ Interval[t] = K * i
  BY <1>1, TicksOfInterval
<1>4. w \in Int /\ w + e = waited[t]
  BY <1>1
<1>5. Spent(K, t, e) = K * w + (h + K * n)
  BY <1>2 DEF Spent
<1>6. /\ Spent(K, t, e) < Interval[t] + K
      /\ Spent(K, t, e) > Interval[t] => h >= K
  BY DEF InTime
<1>7. Budget(K, e, h) /\ (h > 0 \/ e = 0) /\ h \in Nat
  BY <1>1
<1> HIDE DEF i, w, h
<1>8. K * w + (h + K * n) < K * i + K /\ (K * w + (h + K * n) > K * i => h >= K)
  BY <1>3, <1>5, <1>6
<1>9. i \in Int /\ n \in Int /\ n >= 0
  BY <1>3
<1>10. K * (w + e) + K * n <= K * i /\ w + e <= i
  BY <1>1, <1>4, <1>7, <1>8, <1>9, Punctual
<1> QED BY <1>1, <1>2, <1>3, <1>4, <1>10 DEF i

(* No wait goes past a timer's interval.                                   *)
LEMMA OnTimeNeverLate ==
    ASSUME NEW K, TickOf(K), IInv, OnTime(K) PROVE WithinInterval
<1> SUFFICES ASSUME NEW t \in Timers PROVE waited[t] <= IntervalTicks(t)
  BY DEF WithinInterval
<1>1. /\ IntervalTicks(t) \in Nat /\ Interval[t] = K * IntervalTicks(t)
      /\ K \in Nat \ {0} /\ waited[t] \in Nat
  BY TicksOfInterval DEF OnTime, Counted
<1>2. CASE t \in Ids(list)
  <2>1. PICK e \in Nat : Elapsed(K, e) /\ InTime(K, e)
    BY DEF OnTime
  <2>2. list # <<>>
    BY <1>2, FirstFacts
  <2>3. Budget(K, e, First) /\ (First > 0 \/ e = 0)
    BY <2>1, <2>2, ElapsedBudget
  <2> QED BY <1>2, <2>1, <2>3, HandlersInTime DEF OnTime
<1>3. CASE t \notin Ids(list) /\ pc = "init"
  <2>1. waited[t] = 0
    BY <1>3 DEF OnTime, Counted
  <2> QED BY <1>1, <2>1
<1>4. CASE t \notin Ids(list) /\ pc # "init"
  <2>1. Ids(list) = Timers \ {handler}
    BY <1>4 DEF IInv, TypeOK
  <2>2. t = handler
    BY <1>4, <2>1
  <2>3. (pc = "run") <=> (handler # NoTimer)
    BY Zenon DEF IInv, TypeOK
  <2>4. pc = "run"
    BY <2>2, <2>3, ConstantFacts
  <2>5. K * waited[t] <= K * IntervalTicks(t)
    BY <1>1, <2>2, <2>4 DEF OnTime, Aligned
  <2> DEFINE a == waited[t]
             b == IntervalTicks(t)
  <2>6. a \in Nat /\ b \in Nat /\ K * a <= K * b
    BY <1>1, <2>5
  <2> HIDE DEF a, b
  <2>7. K * a < K * b + K
    BY <1>1, <2>6
  <2>8. a <= b
    BY <1>1, <2>6, <2>7, MulLess
  <2> QED BY <2>8 DEF a, b
<1> QED BY <1>2, <1>3, <1>4

-----------------------------------------------------------------------------
(* The steps are punctual.                                                 *)

(* A tick counts for the wait, and may wrap the clock.                     *)
LEMMA TickOnTime ==
    ASSUME NEW K, TickOf(K), IInv, OnTime(K), Timely, Timely', Tick
    PROVE  OnTime(K)'
<1>1. /\ now \in Nat /\ now < Word /\ start \in Nat /\ start < Word /\ dly \in Nat
      /\ Word \in Nat /\ Word >= 2 /\ MsPerSec \in Nat \ {0} /\ K \in Nat \ {0}
      /\ waited \in [Timers -> Nat] /\ wraps \in [Timers -> Nat]
      /\ Ids(list) \subseteq Timers
  <2>1. /\ now \in 0..(Word - 1) /\ start \in 0..(Word - 1) /\ dly \in 0..Word
        /\ waited \in [Timers -> Nat] /\ wraps \in [Timers -> Nat]
        /\ Ids(list) \subseteq Timers
    BY ListFacts DEF IInv, TypeOK, OnTime, Counted
  <2>2. PICK t \in Timers : Interval[t] >= 1 /\ Interval[t] < Word /\ Interval[t] \in Nat
    BY ConstantFacts
  <2> QED BY <2>1, <2>2, ConstantFacts DEF TickOf
<1>2. /\ now' = (now + 1) % Word
      /\ dly' = IF pc = "wait" /\ dly > 0 THEN dly - 1 ELSE dly
      /\ pc' = IF pc = "wait" /\ dly = 1 THEN "late" ELSE pc
      /\ waited' = IF pc = "wait" THEN [t \in Timers |-> waited[t] + 1] ELSE waited
      /\ wraps' = IF now = Word - 1
                  THEN [t \in Timers |-> IF wraps[t] = 0 THEN 1 ELSE 2] ELSE wraps
      /\ UNCHANGED <<list, start, handler>>
  <2>1. \A t \in Timers : Another(t) = waited[t] + 1
    BY OnTimeNeverLate DEF WithinInterval, Another
  <2>2. [t \in Timers |-> Another(t)] = [t \in Timers |-> waited[t] + 1]
    BY <2>1
  <2> QED BY <2>2 DEF Tick
<1>3. PICK e \in Nat : Elapsed(K, e) /\ InTime(K, e)
  BY DEF OnTime
<1>4. now' = IF now = Word - 1 THEN 0 ELSE now + 1
  BY <1>1, <1>2
<1>5. Left(list)' = Left(list) /\ Ids(list)' = Ids(list) /\ First' = First
  BY <1>2 DEF First
<1>6. Waiting' <=> Waiting
  BY <1>2 DEF Waiting
<1>7. /\ wraps' \in [Timers -> Nat]
      /\ \A t \in Timers : /\ wraps'[t] >= wraps[t]
                           /\ now = Word - 1 => wraps'[t] >= 1
                           /\ now = Word - 1 /\ wraps'[t] <= 1 => wraps[t] = 0
  <2>1. \A t \in Timers : wraps[t] \in Nat
    BY <1>1
  <2>2. CASE now = Word - 1
    <3>1. wraps' = [t \in Timers |-> IF wraps[t] = 0 THEN 1 ELSE 2]
      BY <1>2, <2>2
    <3>2. \A t \in Timers : wraps'[t] >= 1 /\ (wraps'[t] <= 1 => wraps[t] = 0)
      BY <2>1, <3>1
    <3>3. \A t \in Timers : wraps'[t] <= 1
      BY DEF Timely
    <3> QED BY <2>1, <3>1, <3>2, <3>3
  <2>3. CASE now # Word - 1
    BY <1>1, <1>2, <2>1, <2>3
  <2> QED BY <2>2, <2>3
<1>8. waited' \in [Timers -> Nat]
  BY <1>1, <1>2
<1>9. Counted'
  <2>1. now' < start' => \A t \in Timers : wraps'[t] >= 1
    <3>1. CASE now < start
      BY <1>1, <1>7, <3>1 DEF OnTime, Counted
    <3>2. CASE ~ (now < start)
      BY <1>1, <1>2, <1>4, <1>7, <3>2
    <3> QED BY <3>1, <3>2
  <2>2. ~ Waiting' => start' = 0
    BY <1>2, <1>6 DEF OnTime, Counted
  <2>3. pc' = "init" => \A t \in Timers : waited'[t] = 0
    BY <1>2 DEF OnTime, Counted
  <2> QED BY <1>7, <1>8, <2>1, <2>2, <2>3 DEF Counted
<1>10. Aligned(K)'
  <2>1. pc' = "run" => pc = "run" /\ waited' = waited
    BY <1>2
  <2>2. pc' \in {"init", "run"} => pc \in {"init", "run"}
    BY <1>2
  <2> QED BY <1>2, <1>5, <2>1, <2>2 DEF OnTime, Aligned
<1>11. PICK f \in Nat : f = IF pc = "wait" THEN e + 1 ELSE e
  OBVIOUS
<1>12. InTime(K, f)'
  <2> SUFFICES ASSUME NEW t \in Ids(list)
               PROVE  /\ wraps'[t] = 0 \/ now' < start' => Spent(K, t, f)' <= Interval[t]
                      /\ Spent(K, t, f)' < Interval[t] + K
                      /\ Spent(K, t, f)' > Interval[t] => First' >= K
    BY <1>5 DEF InTime
  <2>1. t \in Timers
    BY <1>1
  <2>2. Spent(K, t, f)' = Spent(K, t, e)
    <3>1. waited'[t] - f = waited[t] - e
      BY <1>1, <1>2, <1>11, <2>1
    <3> QED BY <1>5, <3>1 DEF Spent
  <2>3. wraps'[t] = 0 \/ now' < start' => wraps[t] = 0 \/ now < start
    <3>1. wraps'[t] <= 1
      BY <2>1 DEF Timely
    <3>2. wraps'[t] = 0 => wraps[t] = 0
      BY <1>1, <1>7, <2>1
    <3>3. now' < start' /\ ~ (now < start) => now = Word - 1
      BY <1>1, <1>2, <1>4
    <3> QED BY <1>7, <2>1, <3>1, <3>2, <3>3
  <2> QED BY <1>3, <1>5, <2>2, <2>3 DEF InTime
<1>13. Elapsed(K, f)'
  <2>1. CASE pc = "wait"
    <3>1. dly >= 1 /\ Budget(K, e + dly, First) /\ e = Since
      BY <1>3, <2>1 DEF Elapsed
    <3>2. CASE dly = 1
      <4>1. pc' = "late" /\ f = e + dly
        BY <1>2, <1>11, <2>1, <3>2
      <4> QED BY <1>5, <3>1, <4>1 DEF Elapsed, Waiting
    <3>3. CASE dly # 1
      <4>1. pc' = "wait" /\ dly' = dly - 1 /\ f = e + 1 /\ dly' >= 1 /\ f + dly' = e + dly
        BY <1>1, <1>2, <1>11, <2>1, <3>1, <3>3
      <4>2. list # <<>> /\ First \in Nat /\ First < Word
        <5>1. list \in Seq(Entries) /\ list # <<>>
          BY <2>1, ListFacts DEF IInv
        <5>2. Len(list) >= 1
          BY <5>1
        <5> QED BY <5>1, <5>2, EntryFacts DEF First
      <4>3. e + 1 < Word
        <5>1. K * (e + dly) <= First
          BY <1>1, <3>1, <3>3 DEF Budget
        <5>2. K * (e + dly) >= e + dly
          BY <1>1
        <5>3. K * (e + dly) \in Int
          BY <1>1
        <5> QED BY <1>1, <3>1, <3>3, <4>2, <5>1, <5>2, <5>3
      <4>4. e + 1 = Since'
        BY <1>1, <1>2, <1>4, <3>1, <4>3 DEF Since
      <4> QED BY <1>5, <3>1, <4>1, <4>4 DEF Elapsed, Waiting
    <3> QED BY <3>2, <3>3
  <2>2. CASE pc = "woken"
    <3>1. Budget(K, e + 1, First) /\ e <= Since /\ f = e /\ pc' = "woken"
      BY <1>2, <1>3, <1>11, <2>2 DEF Elapsed
    <3>2. (Since + 1) * MsPerSec < Word
      BY <2>2 DEF Timely
    <3>3. Since \in Nat
      BY <1>1 DEF Since
    <3>4. Since + 1 < Word
      <4> DEFINE x == Since + 1
      <4>1. x \in Nat /\ x * MsPerSec < Word
        BY <3>2, <3>3
      <4> HIDE DEF x
      <4>2. x * MsPerSec >= x /\ x * MsPerSec \in Int
        BY <1>1, <4>1
      <4>3. x < Word
        BY <1>1, <4>1, <4>2
      <4> QED BY <4>3 DEF x
    <3>5. Since' = Since + 1
      BY <1>1, <1>2, <1>4, <3>4 DEF Since
    <3> QED BY <1>5, <3>1, <3>3, <3>5 DEF Elapsed, Waiting
  <2>3. CASE pc = "late"
    BY <1>2, <1>3, <1>5, <1>11, <2>3 DEF Elapsed, Waiting
  <2>4. CASE ~ Waiting
    BY <1>2, <1>3, <1>6, <1>11, <2>4 DEF Elapsed, Waiting
  <2> QED BY <2>1, <2>2, <2>3, <2>4 DEF Waiting
<1> QED BY <1>9, <1>10, <1>11, <1>12, <1>13 DEF OnTime

(* A wait begins.                                                          *)
LEMMA WaitOnTime ==
    ASSUME NEW K, TickOf(K), IInv, OnTime(K), pc = "fetch", pc' = "wait", list # <<>>,
           First > 0, start' = now, dly' = AtLeast1(Ticks(First)),
           UNCHANGED <<now, list, handler, waited, wraps>>
    PROVE  OnTime(K)'
<1>1. list \in Seq(Entries) /\ Distinct(list) /\ now \in Nat /\ start = 0 /\ First \in Nat
  BY ListFacts, FirstFacts, ConstantFacts DEF IInv, TypeOK, OnTime, Counted, Waiting
<1>2. PICK e \in Nat : Elapsed(K, e) /\ InTime(K, e)
  BY DEF OnTime
<1>3. e = 0
  BY <1>2 DEF Elapsed, Waiting
<1>4. Left(list)' = Left(list) /\ Ids(list)' = Ids(list) /\ First' = First
  BY DEF First
<1>5. Counted'
  BY <1>1 DEF OnTime, Counted, Waiting
<1>6. Aligned(K)'
  BY <1>4 DEF OnTime, Aligned
<1>7. InTime(K, 0)'
  BY <1>1, <1>2, <1>3, <1>4 DEF InTime, Spent
<1>8. Elapsed(K, 0)'
  <2>1. /\ list[1].id \in Timers /\ list[1].id \in Ids(list) /\ Left(list)[list[1].id] = First
    BY <1>1, HeadIsNext, Zenon DEF First
  <2>2. First <= Interval[list[1].id]
    BY <2>1 DEF OnTime, Aligned
  <2>3. dly' \in Nat /\ dly' >= 1 /\ Budget(K, dly', First)
    BY <1>1, <2>1, <2>2, WaitTicks
  <2>4. Since' = 0
    BY <1>1 DEF Since
  <2>5. 0 + dly' = dly'
    BY <2>3
  <2> QED BY <1>4, <2>3, <2>4, <2>5 DEF Elapsed, Waiting
<1> QED BY <1>5, <1>6, <1>7, <1>8 DEF OnTime

(* A message ends the wait.                                                *)
LEMMA MessageOnTime ==
    ASSUME NEW K, TickOf(K), IInv, OnTime(K), Message
    PROVE  OnTime(K)'
<1>1. pc = "wait" /\ pc' = "woken" /\ UNCHANGED <<now, list, start, handler, waited, wraps>>
  BY DEF Message
<1>2. PICK e \in Nat : Elapsed(K, e) /\ InTime(K, e)
  BY DEF OnTime
<1>3. Left(list)' = Left(list) /\ Ids(list)' = Ids(list) /\ First' = First /\ Since' = Since
  BY <1>1 DEF First, Since
<1>4. Counted' /\ Aligned(K)'
  BY <1>1, <1>3 DEF OnTime, Counted, Aligned, Waiting
<1>5. InTime(K, e)'
  BY <1>1, <1>2, <1>3 DEF InTime, Spent
<1>6. Elapsed(K, e)'
  <2>1. dly \in Nat /\ K \in Nat \ {0} /\ First \in Nat
    BY <1>1, FirstFacts, ListFacts, ConstantFacts DEF IInv, TypeOK, TickOf
  <2>2. dly >= 1 /\ Budget(K, e + dly, First) /\ e = Since
    BY <1>1, <1>2 DEF Elapsed
  <2>3. Budget(K, e + 1, First)
    <3>1. e + dly \in Nat /\ e + 1 \in Nat /\ e + 1 <= e + dly
      BY <2>1, <2>2
    <3> QED BY <2>1, <2>2, <3>1, BudgetLess
  <2>4. e <= Since
    BY <2>2
  <2> QED BY <1>1, <1>3, <2>3, <2>4 DEF Elapsed, Waiting
<1> QED BY <1>4, <1>5, <1>6 DEF OnTime

(* The first timer's handler runs.                                         *)
LEMMA RunOnTime ==
    ASSUME NEW K, TickOf(K), IInv, OnTime(K), pc \in {"fetch", "late"}, list # <<>>,
           pc = "fetch" => First = 0,
           RunFirst, start' = 0, UNCHANGED <<now, waited, wraps>>
    PROVE  OnTime(K)'
<1>1. /\ now \in Nat /\ K \in Nat \ {0} /\ Ids(list) \subseteq Timers /\ pc' = "run"
      /\ waited \in [Timers -> Nat] /\ ~ Waiting'
  BY ListFacts, ConstantFacts DEF IInv, TypeOK, OnTime, Counted, TickOf, RunFirst, Waiting
<1>2. PICK e \in Nat : Elapsed(K, e) /\ InTime(K, e)
  BY DEF OnTime
<1>3. Budget(K, e, First) /\ (First > 0 \/ e = 0)
  BY <1>2, ElapsedBudget
<1>4. \A t \in Ids(list) :
         /\ t \in Timers /\ waited[t] \in Nat
         /\ \E n \in Nat : /\ Left(list)[t] = First + K * n
                           /\ K * waited[t] + K * n <= Interval[t]
  BY <1>2, <1>3, HandlersInTime DEF OnTime
<1>5. /\ handler' \in Ids(list) /\ First \in Nat /\ Left(list)[handler'] = First
      /\ Ids(list)' = Ids(list) \ {handler'}
      /\ Left(list)' = [u \in Ids(list) \ {handler'} |-> Left(list)[u] - First]
  BY RunLeft DEF IInv
<1>6. \A t \in Ids(list)' :
         /\ t \in Ids(list) /\ t \in Timers /\ waited[t] \in Nat
         /\ Left(list)[t] \in Nat /\ Left(list)'[t] = Left(list)[t] - First
         /\ \E n \in Nat : /\ Left(list)'[t] = K * n
                           /\ K * waited[t] + K * n <= Interval[t]
  <2> SUFFICES ASSUME NEW t \in Ids(list)'
               PROVE  /\ t \in Ids(list) /\ t \in Timers /\ waited[t] \in Nat
                      /\ Left(list)[t] \in Nat /\ Left(list)'[t] = Left(list)[t] - First
                      /\ \E n \in Nat : /\ Left(list)'[t] = K * n
                                        /\ K * waited[t] + K * n <= Interval[t]
    OBVIOUS
  <2>1. t \in Ids(list) /\ Left(list)'[t] = Left(list)[t] - First
    BY <1>5
  <2>2. Left(list)[t] \in Nat
    BY <2>1, FirstFacts
  <2>3. PICK n \in Nat : /\ Left(list)[t] = First + K * n
                         /\ K * waited[t] + K * n <= Interval[t]
    BY <1>4, <2>1
  <2>4. K * n \in Int
    BY <1>1
  <2>5. Left(list)'[t] = K * n
    BY <1>5, <2>1, <2>3, <2>4
  <2> QED BY <1>4, <2>1, <2>2, <2>3, <2>5
<1>7. Counted'
  BY <1>1 DEF OnTime, Counted
<1>8. Aligned(K)'
  <2>1. ASSUME NEW t \in Ids(list)', NEW u \in Ids(list)'
        PROVE  Whole(K, Left(list)'[t] - Left(list)'[u])
    <3>1. Left(list)'[t] - Left(list)'[u] = Left(list)[t] - Left(list)[u]
      BY <1>5, <1>6
    <3>2. Whole(K, Left(list)[t] - Left(list)[u])
      BY <1>6 DEF OnTime, Aligned
    <3> QED BY <3>1, <3>2
  <2>2. \A t \in Ids(list)' : Whole(K, Left(list)'[t])
    BY <1>6 DEF Whole
  <2>3. ASSUME NEW t \in Ids(list)' PROVE Left(list)'[t] <= Interval[t]
    <3>1. Left(list)[t] <= Interval[t] /\ Interval[t] \in Nat
      BY <1>6, ConstantFacts DEF OnTime, Aligned
    <3> QED BY <1>5, <1>6, <3>1
  <2>4. K * waited[handler'] <= Interval[handler']
    <3>1. PICK n \in Nat : /\ Left(list)[handler'] = First + K * n
                           /\ K * waited[handler'] + K * n <= Interval[handler']
      BY <1>4, <1>5
    <3>2. K * n \in Int /\ K * waited[handler'] \in Int
      BY <1>1, <1>4, <1>5
    <3> QED BY <1>5, <3>1, <3>2
  <2> QED BY <2>1, <2>2, <2>3, <2>4 DEF Aligned
<1>9. InTime(K, 0)'
  <2> SUFFICES ASSUME NEW t \in Ids(list)' PROVE Spent(K, t, 0)' <= Interval[t]
    <3>1. ASSUME NEW t \in Ids(list)', Spent(K, t, 0)' <= Interval[t]
          PROVE  Spent(K, t, 0)' < Interval[t] + K /\ ~ (Spent(K, t, 0)' > Interval[t])
      <4>1. PICK n \in Nat : Left(list)'[t] = K * n
        BY <1>6
      <4>2. Spent(K, t, 0)' \in Int
        BY <1>1, <1>6, <4>1 DEF Spent
      <4>3. Interval[t] \in Nat
        BY <1>6, ConstantFacts
      <4> QED BY <1>1, <3>1, <4>2, <4>3
    <3> QED BY <3>1 DEF InTime
  <2>1. PICK n \in Nat : Left(list)'[t] = K * n /\ K * waited[t] + K * n <= Interval[t]
    BY <1>6
  <2>2. waited[t] - 0 = waited[t]
    BY <1>6
  <2> QED BY <2>1, <2>2 DEF Spent
<1>10. Elapsed(K, 0)'
  BY <1>1 DEF Elapsed, Waiting
<1> QED BY <1>7, <1>8, <1>9, <1>10 DEF OnTime

(* A timer is set, by sys_timeouts_init or by its handler.                 *)
LEMMA ArmOnTime ==
    ASSUME NEW K, TickOf(K), IInv, OnTime(K), NEW t \in Timers, t \notin Ids(list),
           pc \in {"init", "run"}, pc' \in {"init", "fetch"}, pc' = "init" => pc = "init",
           list' = Inserted(list, t),
           waited' = [waited EXCEPT ![t] = 0], wraps' = [wraps EXCEPT ![t] = 0],
           UNCHANGED <<now, start>>
    PROVE  OnTime(K)'
<1>1. /\ now \in Nat /\ start = 0 /\ K \in Nat \ {0} /\ Ids(list) \subseteq Timers
      /\ waited \in [Timers -> Nat] /\ wraps \in [Timers -> Nat] /\ ~ Waiting'
      /\ list \in Seq(Entries) /\ Distinct(list)
  BY ListFacts, ConstantFacts DEF IInv, TypeOK, OnTime, Counted, TickOf, Waiting
<1>2. PICK e \in Nat : Elapsed(K, e) /\ InTime(K, e)
  BY DEF OnTime
<1>3. e = 0
  BY <1>2 DEF Elapsed, Waiting
<1>4. /\ Ids(list)' = Ids(list) \cup {t}
      /\ Left(list)' = [u \in Ids(list) \cup {t} |-> IF u = t THEN Interval[t] ELSE Left(list)[u]]
  BY <1>1, InsertedArms, Zenon
<1>5. /\ waited' \in [Timers -> Nat] /\ wraps' \in [Timers -> Nat]
      /\ waited'[t] = 0 /\ \A u \in Timers : u # t => waited'[u] = waited[u]
  BY <1>1
<1>6. Left(list)'[t] = Interval[t] /\ \A u \in Ids(list) : Left(list)'[u] = Left(list)[u]
  BY <1>4
<1>7. \A u \in Ids(list)' :
         /\ u \in Timers /\ Left(list)'[u] \in Nat /\ Whole(K, Left(list)'[u])
         /\ Left(list)'[u] <= Interval[u]
  <2> SUFFICES ASSUME NEW u \in Ids(list)'
               PROVE  /\ u \in Timers /\ Left(list)'[u] \in Nat /\ Whole(K, Left(list)'[u])
                      /\ Left(list)'[u] <= Interval[u]
    OBVIOUS
  <2>1. CASE u = t
    <3>1. Interval[t] \in Nat /\ Whole(K, Interval[t])
      BY ConstantFacts DEF TickOf
    <3> QED BY <1>6, <2>1, <3>1
  <2>2. CASE u # t
    <3>1. u \in Ids(list)
      BY <1>4, <2>2
    <3> QED BY <1>6, <3>1, FirstFacts DEF OnTime, Aligned
  <2> QED BY <2>1, <2>2
<1>8. Counted'
  <2>1. pc' = "init" => \A u \in Timers : waited'[u] = 0
    BY <1>5 DEF OnTime, Counted
  <2> QED BY <1>1, <1>5, <2>1 DEF Counted
<1>9. Aligned(K)'
  <2>1. ASSUME NEW u \in Ids(list)', NEW v \in Ids(list)'
        PROVE  Whole(K, Left(list)'[u] - Left(list)'[v])
    <3>1. PICK a \in Int : Left(list)'[u] = K * a
      BY <1>7 DEF Whole
    <3>2. PICK b \in Int : Left(list)'[v] = K * b
      BY <1>7 DEF Whole
    <3>3. K * (a - b) = K * a - K * b /\ a - b \in Int
      BY <1>1
    <3> QED BY <3>1, <3>2, <3>3 DEF Whole
  <2>2. pc' # "run"
    OBVIOUS
  <2> QED BY <1>7, <2>1, <2>2 DEF Aligned
<1>10. InTime(K, 0)'
  <2> SUFFICES ASSUME NEW u \in Ids(list)'
               PROVE  Spent(K, u, 0)' <= Interval[u] /\ Spent(K, u, 0)' \in Int
    <3>1. ASSUME NEW u \in Ids(list)', Spent(K, u, 0)' <= Interval[u], Spent(K, u, 0)' \in Int
          PROVE  Spent(K, u, 0)' < Interval[u] + K /\ ~ (Spent(K, u, 0)' > Interval[u])
      <4>1. Interval[u] \in Nat
        BY <1>7, ConstantFacts
      <4> QED BY <1>1, <3>1, <4>1
    <3> QED BY <3>1 DEF InTime
  <2>1. waited'[u] \in Nat /\ waited'[u] - 0 = waited'[u] /\ K * waited'[u] \in Int
    BY <1>1, <1>5, <1>7
  <2>2. Spent(K, u, 0)' = K * waited'[u] + Left(list)'[u]
    BY <2>1 DEF Spent
  <2>3. CASE u = t
    <3>1. K * waited'[u] = 0
      BY <1>1, <1>5, <2>3
    <3> QED BY <1>7, <2>1, <2>2, <3>1
  <2>4. CASE u # t
    <3>1. u \in Ids(list) /\ waited'[u] = waited[u] /\ Left(list)'[u] = Left(list)[u]
      BY <1>4, <1>5, <1>6, <1>7, <2>4
    <3>2. Spent(K, u, 0)' = Spent(K, u, 0)
      BY <3>1 DEF Spent
    <3>3. Spent(K, u, 0) < Interval[u] + K
      BY <1>2, <1>3, <3>1 DEF InTime
    <3>4. PICK n \in Int : Left(list)[u] = K * n
      BY <3>1 DEF OnTime, Aligned, Whole
    <3>5. PICK i \in Int : Interval[u] = K * i
      BY <1>7 DEF TickOf, Whole
    <3>6. K * (waited[u] + n) = Spent(K, u, 0) /\ waited[u] + n \in Int
      <4>1. waited[u] \in Nat
        BY <2>1, <3>1
      <4>2. K * (waited[u] + n) = K * waited[u] + K * n
        BY <1>1, <4>1
      <4> QED BY <2>1, <2>2, <3>1, <3>2, <3>4, <4>1, <4>2
    <3> DEFINE a == waited[u] + n
    <3>7. K * a < K * i + K /\ a \in Int
      BY <3>3, <3>5, <3>6
    <3> HIDE DEF a
    <3>8. K * a <= K * i
      BY <1>1, <3>7, MulLess
    <3>9. Spent(K, u, 0) = K * a
      BY <3>6 DEF a
    <3> QED BY <1>1, <3>2, <3>5, <3>7, <3>8, <3>9
  <2> QED BY <2>3, <2>4
<1>11. Elapsed(K, 0)'
  BY <1>1 DEF Elapsed, Waiting
<1> QED BY <1>8, <1>9, <1>10, <1>11 DEF OnTime

(* What a message takes off the first timer, for the three readings of the *)
(* clock.                                                                  *)
LEMMA CutCases ==
    ASSUME NEW K, TickOf(K), IInv, Timely, pc = "woken"
    PROVE  /\ Since \in Nat /\ now \in Nat /\ start \in Nat
           /\ now > start => Cut = IF K * Since + 1 < First THEN K * Since + 1 ELSE First
           /\ now = start => Since = 0
           /\ now < start => \E d \in Nat :
                 /\ Since = d + 1
                 /\ Cut = IF K * d + 1 < First THEN K * d + 1 ELSE First
<1>1. /\ now \in Nat /\ now < Word /\ start \in Nat /\ start < Word /\ Word \in Nat
      /\ MsPerSec \in Nat \ {0}
  BY ConstantFacts DEF IInv, TypeOK
<1>2. Since \in Nat
  BY <1>1 DEF Since
<1>3. ASSUME NEW d \in Nat, d <= Since PROVE d * MsPerSec < Word
  <2> DEFINE x == Since + 1
  <2>1. x \in Nat /\ x * MsPerSec < Word /\ d <= x
    BY <1>2, <1>3 DEF Timely
  <2> HIDE DEF x
  <2>2. (x - d) * MsPerSec >= 0 /\ (x - d) * MsPerSec = x * MsPerSec - d * MsPerSec
    BY <1>1, <2>1
  <2>3. x * MsPerSec \in Int /\ d * MsPerSec \in Int
    BY <1>1, <2>1
  <2> QED BY <1>1, <2>1, <2>2, <2>3
<1>4. CASE now > start
  <2>1. Since = IF now > start THEN now - start ELSE Word - 1 - start + now
    BY <1>1, <1>4 DEF Since
  <2>2. Since * MsPerSec < Word
    BY <1>2, <1>3
  <2>3. WaitedMs(start, now) = K * Since + 1
    BY <1>1, <1>2, <2>1, <2>2, ReportedMs
  <2> QED BY <1>1, <1>2, <1>4, <2>3 DEF Cut
<1>5. CASE now = start
  BY <1>1, <1>2, <1>5 DEF Since
<1>6. CASE now < start
  <2> DEFINE d == Word - 1 - start + now
  <2>1. d \in Nat /\ Since = d + 1 /\ d <= Since
    BY <1>1, <1>6 DEF Since
  <2>2. d = IF now > start THEN now - start ELSE Word - 1 - start + now
    BY <1>1, <1>6
  <2> HIDE DEF d
  <2>3. d * MsPerSec < Word
    BY <1>3, <2>1
  <2>4. WaitedMs(start, now) = K * d + 1
    BY <1>1, <2>1, <2>2, <2>3, ReportedMs
  <2>5. Cut = IF K * d + 1 < First THEN K * d + 1 ELSE First
    BY <2>4 DEF Cut
  <2> QED BY <1>1, <1>2, <1>6, <2>1, <2>5
<1> QED BY <1>1, <1>4, <1>5, <1>6

(* A message's time is taken off.                                          *)
LEMMA WokenOnTime ==
    ASSUME NEW K, TickOf(K), IInv, OnTime(K), Timely, Woken
    PROVE  OnTime(K)'
<1>1. /\ pc = "woken" /\ pc' = "fetch" /\ start' = 0
      /\ UNCHANGED <<now, dly, handler, waited, wraps>>
  BY DEF Woken
<1>2. /\ K \in Nat \ {0} /\ waited \in [Timers -> Nat] /\ wraps \in [Timers -> Nat]
      /\ ~ Waiting' /\ Ids(list) \subseteq Timers
  BY <1>1, ListFacts DEF IInv, OnTime, Counted, TickOf, Waiting
<1>3. PICK e \in Nat : Elapsed(K, e) /\ InTime(K, e)
  BY DEF OnTime
<1>4. Budget(K, e + 1, First) /\ e <= Since
  BY <1>1, <1>3 DEF Elapsed
<1>5. /\ First \in Nat /\ Cut \in 1..First /\ First' = First - Cut
      /\ Ids(list)' = Ids(list)
      /\ Left(list)' = [u \in Ids(list) |-> Left(list)[u] - Cut]
  BY WokenLeft DEF First
<1>6. /\ Since \in Nat /\ now \in Nat /\ start \in Nat
      /\ now > start => Cut = IF K * Since + 1 < First THEN K * Since + 1 ELSE First
      /\ now = start => Since = 0
      /\ now < start => \E d \in Nat :
            /\ Since = d + 1
            /\ Cut = IF K * d + 1 < First THEN K * d + 1 ELSE First
  BY <1>1, CutCases
<1>7. \A t \in Ids(list) : t \in Timers /\ Left(list)[t] \in Nat /\ Left(list)'[t] = Left(list)[t] - Cut
  BY <1>5, FirstFacts
<1>8. Counted'
  BY <1>1, <1>2, <1>6 DEF OnTime, Counted
<1>9. Aligned(K)'
  <2>1. ASSUME NEW t \in Ids(list), NEW u \in Ids(list)
        PROVE  Whole(K, Left(list)'[t] - Left(list)'[u])
    <3>1. Left(list)'[t] - Left(list)'[u] = Left(list)[t] - Left(list)[u]
      BY <1>5, <1>7
    <3> QED BY <3>1 DEF OnTime, Aligned
  <2>2. ASSUME NEW t \in Ids(list) PROVE Left(list)'[t] <= Interval[t]
    <3>1. Left(list)[t] <= Interval[t] /\ Interval[t] \in Nat
      BY <1>7, ConstantFacts DEF OnTime, Aligned
    <3> QED BY <1>5, <1>7, <3>1
  <2> QED BY <1>1, <1>5, <2>1, <2>2 DEF Aligned
<1>10. InTime(K, 0)'
  <2> SUFFICES ASSUME NEW t \in Ids(list)
               PROVE  /\ wraps[t] = 0 => Spent(K, t, 0)' <= Interval[t]
                      /\ Spent(K, t, 0)' < Interval[t] + K
                      /\ Spent(K, t, 0)' > Interval[t] => First' >= K
    BY <1>1, <1>5, <1>6 DEF InTime
  <2> DEFINE i == IntervalTicks(t)
             w == waited[t] - e
             h == First
             c == Cut
  <2>1. PICK n \in Nat : Left(list)[t] = First + K * n
    BY Ahead DEF OnTime
  <2>2. t \in Timers /\ i \in Nat /\ Interval[t] = K * i
    BY <1>7, TicksOfInterval
  <2>3. w \in Int /\ w + e = waited[t] /\ waited[t] \in Nat
    BY <1>2, <2>2
  <2>4. h \in Nat /\ c \in 1..h /\ First' = h - c /\ c \in Nat
    BY <1>5
  <2>5. Spent(K, t, e) = K * w + (h + K * n)
    BY <2>1 DEF Spent
  <2>6. Spent(K, t, 0)' = K * (w + e) + (h - c + K * n)
    <3>1. K * n \in Int
      BY <1>2
    <3>2. Left(list)'[t] = h - c + K * n
      BY <1>7, <2>1, <2>4, <3>1
    <3>3. Spent(K, t, 0)' = K * (waited[t] - 0) + Left(list)'[t]
      BY <1>1 DEF Spent
    <3>4. waited[t] - 0 = w + e
      BY <2>3
    <3> QED BY <3>2, <3>3, <3>4
  <2>7. /\ wraps[t] = 0 \/ now < start => Spent(K, t, e) <= Interval[t]
        /\ Spent(K, t, e) < Interval[t] + K
        /\ Spent(K, t, e) > Interval[t] => First >= K
    BY <1>3 DEF InTime
  <2>8. /\ now > start => c = IF K * Since + 1 < h THEN K * Since + 1 ELSE h
        /\ now < start => \E d \in Nat : /\ Since = d + 1
                                         /\ c = IF K * d + 1 < h THEN K * d + 1 ELSE h
        /\ Budget(K, e + 1, h)
    BY <1>4, <1>6
  <2>9. now < start => wraps[t] >= 1
    BY <2>2 DEF OnTime, Counted
  <2> DEFINE ok == K * w + (h + K * n)
             okNext == K * (w + e) + (h - c + K * n)
  <2>10. /\ wraps[t] = 0 \/ now < start => ok <= K * i
         /\ ok < K * i + K
         /\ ok > K * i => h >= K
    BY <2>2, <2>5, <2>7
  <2> HIDE DEF i, w, h, c
  <2>11. i \in Int /\ n \in Int
    BY <2>2
  <2>12. /\ wraps[t] = 0 => okNext <= K * i
         /\ okNext < K * i + K
         /\ okNext > K * i => h - c >= K
    <3>1. CASE now > start
      <4> DEFINE d == Since
      <4>1. d \in Nat /\ e <= d /\ d >= 1
        BY <1>4, <1>6, <3>1 DEF Since
      <4>2. c = IF K * d + 1 < h THEN K * d + 1 ELSE h
        BY <2>8, <3>1
      <4> HIDE DEF d
      <4> QED BY <1>2, <2>3, <2>4, <2>8, <2>10, <2>11, <4>1, <4>2, CutInTime
    <3>2. CASE now = start
      <4>1. e = 0
        BY <1>4, <1>6, <3>2
      <4>2. w + e = w
        BY <2>3, <4>1
      <4>3. /\ ok <= K * i => K * w + (h - c + K * n) <= K * i
            /\ K * w + (h - c + K * n) < K * i + K
            /\ K * w + (h - c + K * n) > K * i => h - c >= K
        BY <1>2, <2>3, <2>4, <2>10, <2>11, CutAtOnce
      <4> QED BY <2>10, <4>2, <4>3
    <3>3. CASE now < start
      <4>1. PICK d \in Nat : Since = d + 1 /\ c = IF K * d + 1 < h THEN K * d + 1 ELSE h
        BY <2>8, <3>3
      <4>2. e <= d + 1 /\ ok <= K * i
        BY <1>4, <2>10, <3>3, <4>1
      <4>3. okNext < K * i + K /\ (okNext > K * i => h - c >= K)
        BY <1>2, <2>3, <2>4, <2>8, <2>11, <4>1, <4>2, CutAfterWrap
      <4>4. wraps[t] # 0
        BY <2>9, <3>3
      <4> QED BY <4>3, <4>4
    <3> QED BY <1>6, <3>1, <3>2, <3>3
  <2> QED BY <2>2, <2>4, <2>6, <2>12
<1>11. Elapsed(K, 0)'
  BY <1>2 DEF Elapsed, Waiting
<1> QED BY <1>8, <1>9, <1>10, <1>11 DEF OnTime

(* Every step is punctual while the clock is.                              *)
LEMMA StepsOnTime ==
    ASSUME NEW K, TickOf(K), IInv, OnTime(K), Timely, Timely', [Next]_vars
    PROVE  OnTime(K)'
<1>1. CASE SetTimer
  <2>1. PICK t \in Timers \ Ids(list) :
              /\ list' = Inserted(list, t) /\ wraps' = [wraps EXCEPT ![t] = 0]
              /\ pc' = IF Ids(list) \cup {t} = Timers THEN "fetch" ELSE "init"
    BY <1>1, Zenon DEF SetTimer
  <2>2. pc = "init" /\ UNCHANGED <<now, start, waited>>
    BY <1>1 DEF SetTimer
  <2>3. waited \in [Timers -> Nat] /\ waited[t] = 0
    BY <2>1, <2>2 DEF OnTime, Counted
  <2>4. waited' = [waited EXCEPT ![t] = 0]
    BY <2>1, <2>2, <2>3
  <2>5. pc' \in {"init", "fetch"}
    BY <2>1
  <2> QED BY <2>1, <2>2, <2>4, <2>5, ArmOnTime
<1>2. CASE Tick
  BY <1>2, TickOnTime
<1>3. CASE Message
  BY <1>3, MessageOnTime
<1>4. CASE Fetch
  <2>1. pc = "fetch" /\ UNCHANGED <<now, waited, wraps>> /\ list # <<>>
    BY <1>4, ListFacts DEF Fetch, IInv
  <2>2. list \in Seq(Entries) /\ Head(list) = list[1]
    BY <2>1, ListFacts DEF IInv
  <2>3. CASE Head(list).time = 0 /\ RunFirst /\ UNCHANGED <<start, dly>>
    <3>1. start' = 0
      BY <2>1, <2>3 DEF OnTime, Counted, Waiting
    <3>2. First = 0
      BY <2>2, <2>3 DEF First
    <3> QED BY <2>1, <2>3, <3>1, <3>2, RunOnTime
  <2>4. CASE /\ Head(list).time > 0 /\ start' = now
             /\ dly' = AtLeast1(Ticks(Head(list).time))
             /\ pc' = "wait" /\ UNCHANGED <<list, handler>>
    <3>1. First > 0 /\ dly' = AtLeast1(Ticks(First))
      BY <2>2, <2>4 DEF First
    <3> QED BY <2>1, <2>4, <3>1, WaitOnTime
  <2> QED BY <1>4, <2>1, <2>3, <2>4 DEF Fetch
<1>5. CASE TimedOut
  <2>1. pc = "late" /\ RunFirst /\ start' = 0 /\ UNCHANGED <<now, waited, wraps>>
    BY <1>5 DEF TimedOut
  <2>2. list # <<>>
    BY <2>1, ListFacts DEF IInv
  <2> QED BY <2>1, <2>2, RunOnTime
<1>6. CASE Woken
  BY <1>6, WokenOnTime
<1>7. CASE Rearm
  <2>1. /\ pc = "run" /\ pc' = "fetch" /\ list' = Inserted(list, handler)
        /\ waited' = [waited EXCEPT ![handler] = 0] /\ wraps' = [wraps EXCEPT ![handler] = 0]
        /\ UNCHANGED <<now, start>>
    BY <1>7 DEF Rearm
  <2>2. (pc = "run") <=> (handler # NoTimer)
    BY Zenon DEF IInv, TypeOK
  <2>3. /\ handler \in Timers \cup {NoTimer}
        /\ pc # "init" => Ids(list) = Timers \ {handler}
    BY DEF IInv, TypeOK
  <2>4. handler \in Timers /\ handler \notin Ids(list)
    BY <2>1, <2>2, <2>3
  <2> QED BY <2>1, <2>4, ArmOnTime
<1>8. CASE UNCHANGED vars
  <2>1. UNCHANGED <<now, list, pc, start, dly, handler, waited, wraps>>
    BY <1>8 DEF vars
  <2>2. Left(list)' = Left(list) /\ Ids(list)' = Ids(list) /\ First' = First /\ Since' = Since
    BY <2>1 DEF First, Since
  <2>3. PICK e \in Nat : Elapsed(K, e) /\ InTime(K, e)
    BY DEF OnTime
  <2>4. Elapsed(K, e)' /\ InTime(K, e)'
    BY <2>1, <2>2, <2>3 DEF Elapsed, InTime, Waiting, Spent
  <2>5. Counted' /\ Aligned(K)'
    BY <2>1, <2>2 DEF OnTime, Counted, Aligned, Waiting
  <2> QED BY <2>4, <2>5 DEF OnTime
<1>9. \/ SetTimer \/ Tick \/ Message \/ Fetch \/ TimedOut \/ Woken \/ Rearm
      \/ UNCHANGED vars
  BY Zenon DEF Next, TcpipThread
<1> QED BY <1>1, <1>2, <1>3, <1>4, <1>5, <1>6, <1>7, <1>8, <1>9, Zenon

(* At the start nothing has been waited for.                               *)
LEMMA StartOnTime == ASSUME NEW K, TickOf(K), Init PROVE OnTime(K)
<1>1. /\ list = <<>> /\ pc = "init" /\ start = 0 /\ now = 0
      /\ waited = [t \in Timers |-> 0] /\ wraps = [t \in Timers |-> 0]
  BY DEF Init
<1>2. Ids(list) = {}
  BY <1>1 DEF Ids
<1>3. Counted
  BY <1>1 DEF Counted, Waiting
<1>4. Aligned(K)
  BY <1>1, <1>2 DEF Aligned
<1>5. Elapsed(K, 0) /\ InTime(K, 0)
  BY <1>1, <1>2 DEF Elapsed, InTime, Waiting
<1> QED BY <1>3, <1>4, <1>5 DEF OnTime

(* With ticks of whole milliseconds and intervals of whole ticks,          *)
(* tcpip_thread never waits past a timer's interval, whenever messages     *)
(* come and OSTime wraps: what sys_arch_mbox_fetch rounds, and the tick it *)
(* loses in a wrap, never add up.                                          *)
THEOREM Punctuality == ASSUME WholeTicks PROVE Spec => NeverLate
<1>1. PICK K \in 1..MsPerSec :
         /\ MsPerSec = K * TicksPerSec
         /\ \A t \in Timers : /\ \E n \in 1..Interval[t] : Interval[t] = K * n
                              /\ Interval[t] * TicksPerSec < Word
  BY DEF WholeTicks
<1>2. TickOf(K)
  <2>1. K \in Nat \ {0}
    BY <1>1, ConstantFacts
  <2>2. ASSUME NEW t \in Timers PROVE Whole(K, Interval[t])
    <3>1. PICK n \in 1..Interval[t] : Interval[t] = K * n
      BY <1>1
    <3>2. n \in Int
      BY ConstantFacts
    <3> QED BY <3>1, <3>2 DEF Whole
  <2> QED BY <1>1, <2>1, <2>2 DEF TickOf
<1>3. Init => IInv /\ OnTime(K)
  BY <1>2, Start, StartOnTime
<1>4. IInv /\ OnTime(K) /\ Timely /\ Timely' /\ [Next]_vars => IInv' /\ OnTime(K)'
  BY <1>2, Steps, StepsOnTime
<1>5. IInv /\ OnTime(K) => WithinInterval
  BY <1>2, OnTimeNeverLate
<1>6. Spec /\ []Timely => []WithinInterval
  BY <1>3, <1>4, <1>5, PTL DEF Spec
<1> QED BY <1>6, PTL DEF NeverLate
=============================================================================
