---------------------------- MODULE SysTimeouts ----------------------------
(***************************************************************************)
(* The stack's timers: tcpip_thread waits for messages and for the next    *)
(* timer in one call (timers.c, sys_timeouts_mbox_fetch), on top of the    *)
(* port's mailbox and clock (sys_arch.c, sys_arch_mbox_fetch) and of the   *)
(* kernel's tick.  tcpip_thread has the highest priority of the tasks, so  *)
(* a message is posted to it while it waits, or lies in the mailbox when   *)
(* it begins to wait.                                                      *)
(***************************************************************************)
EXTENDS Integers, Sequences

CONSTANTS
    Timers,       \* the periodic timers of the stack
    Interval,     \* their intervals, in milliseconds
    MsPerSec,     \* 1000
    TicksPerSec,  \* OS_TICKS_PER_SEC
    Word          \* 2^32: OSTime and the port's arithmetic are u32_t

NoTimer == "none"

ASSUME SysTimeoutsAssumption ==
    /\ Timers # {} /\ NoTimer \notin Timers
    /\ MsPerSec \in Nat \ {0} /\ TicksPerSec \in Nat \ {0} /\ Word \in Nat \ {0}
    /\ Interval \in [Timers -> 1..(Word - 1)]

VARIABLES
    now,       \* OSTime
    list,      \* next_timeout: the timers with the time after the one before
    pc,        \* init (before tcpip_thread), fetch, wait, woken, late or run
    start,     \* "timeout" of sys_arch_mbox_fetch: OSTime when the wait began
    dly,       \* OSTCBDly: ticks left of the wait, 0 for ever
    handler,   \* the timer whose handler runs
    fresh,     \* ghost: the timers set since the last tick
    waited,    \* ghost: ticks tcpip_thread waited since a timer was set
    wraps      \* ghost: wraps of OSTime since then, 2 for two and more

vars == <<now, list, pc, start, dly, handler, fresh, waited, wraps>>

(* Milliseconds as ticks, and ticks in whole milliseconds.                 *)
Ticks(ms) == ((ms * TicksPerSec) % Word) \div MsPerSec
IntervalTicks(t) == Ticks(Interval[t])
AtLeast1(n) == IF n < 1 THEN 1 ELSE n

-----------------------------------------------------------------------------
(* sys_timeout: the list holds each time relative to the timer before.     *)

Ids(s) == {s[i].id : i \in DOMAIN s}

(* The time left to each entry: its own and the times of those before it.  *)
Due(s) == LET due[i \in 0..Len(s)] == IF i = 0 THEN 0 ELSE due[i - 1] + s[i].time
          IN due

(* The entries that expire no later than msecs from now.                   *)
NotAfter(s, msecs) == {i \in 0..Len(s) : \A k \in 0..i : Due(s)[k] <= msecs}
Place(s, msecs) == CHOOSE i \in NotAfter(s, msecs) : \A k \in NotAfter(s, msecs) : k <= i

(* A new timer goes after every timer that expires no later; the one after *)
(* it is now relative to it.                                               *)
Inserted(s, t) ==
    LET n   == Place(s, Interval[t])
        own == Interval[t] - Due(s)[n]
    IN [i \in 1..(Len(s) + 1) |->
          IF i <= n THEN s[i]
          ELSE IF i = n + 1 THEN [id |-> t, time |-> own]
          ELSE IF i = n + 2 THEN [s[n + 1] EXCEPT !.time = @ - own]
          ELSE s[i - 1]]

Init ==
    /\ now = 0 /\ list = <<>>
    /\ pc = "init" /\ start = 0 /\ dly = 0 /\ handler = NoTimer
    /\ fresh = {} /\ waited = [t \in Timers |-> 0]
    /\ wraps = [t \in Timers |-> 0]

(* sys_timeouts_init, before tcpip_thread is created: one sys_timeout after *)
(* the other, here in any order.                                           *)
SetTimer ==
    /\ pc = "init"
    /\ \E t \in Timers \ Ids(list) :
          /\ list' = Inserted(list, t)
          /\ pc' = IF Ids(list) \cup {t} = Timers THEN "fetch" ELSE "init"
          /\ fresh' = fresh \cup {t}
          /\ wraps' = [wraps EXCEPT ![t] = 0]
    /\ UNCHANGED <<now, start, dly, handler, waited>>

-----------------------------------------------------------------------------
(* The ghost count of a timer's ticks stops one past its interval.         *)
Another(t) == IF waited[t] <= IntervalTicks(t) THEN waited[t] + 1 ELSE waited[t]

(* The tick interrupt: OSTime advances, and the wait may time out.         *)

Tick ==
    /\ now' = (now + 1) % Word
    /\ dly' = IF pc = "wait" /\ dly > 0 THEN dly - 1 ELSE dly
    /\ pc' = IF pc = "wait" /\ dly = 1 THEN "late" ELSE pc
    /\ fresh' = {}
    /\ waited' = IF pc = "wait" THEN [t \in Timers |-> Another(t)] ELSE waited
    /\ wraps' = IF now = Word - 1
                THEN [t \in Timers |-> IF wraps[t] = 0 THEN 1 ELSE 2] ELSE wraps
    /\ UNCHANGED <<list, start, handler>>

-----------------------------------------------------------------------------
(* sys_timeouts_mbox_fetch.                                                *)

(* Seeded fault: the timer whose handler is called stays in the list.      *)
RunFirstKept ==
    /\ handler' = Head(list).id /\ list' = list
    /\ pc' = "run"

(* The first timer leaves the list and its handler is called.              *)
RunFirst ==
    /\ handler' = Head(list).id /\ list' = Tail(list)
    /\ pc' = "run"

(* again: a timer with no time left runs at once; otherwise OSQPend, until *)
(* the first timer is due or, with no timer, for ever.                     *)
Fetch ==
    /\ pc = "fetch"
    /\ \/ /\ list # <<>> /\ Head(list).time = 0
          /\ RunFirst
          /\ UNCHANGED <<start, dly>>
       \/ /\ list = <<>> \/ Head(list).time > 0
          /\ start' = now
          /\ dly' = IF list = <<>> THEN 0 ELSE AtLeast1(Ticks(Head(list).time))
          /\ pc' = "wait"
          /\ UNCHANGED <<list, handler>>
    /\ UNCHANGED <<now, fresh, waited, wraps>>

(* A message is there, or comes, before the time is up.                    *)
Message ==
    /\ pc = "wait"
    /\ pc' = "woken" /\ dly' = 0
    /\ UNCHANGED <<now, list, start, handler, fresh, waited, wraps>>

TimedOut ==
    /\ pc = "late"
    /\ RunFirst
    /\ start' = 0
    /\ UNCHANGED <<now, dly, fresh, waited, wraps>>

(* Seeded fault: the ticks that passed and nothing for a part of one, so a *)
(* message in the tick in which the wait began takes no time.              *)
WaitedMsExact(from, to) == ((((to - from) % Word) * MsPerSec) % Word) \div TicksPerSec

(* Seeded fault: whole ticks only, without the millisecond that makes up   *)
(* for the tick lost when OSTime wraps.                                    *)
WaitedMsNoRound(from, to) ==
    LET d == IF to >= from THEN to - from ELSE Word - 1 - from + to
    IN ((d * MsPerSec) % Word) \div TicksPerSec

(* The time sys_arch_mbox_fetch reports for a message, in u32_t arithmetic *)
(* and with ">" where the semaphores' wait has ">=".                       *)
WaitedMs(from, to) ==
    LET d == IF to > from THEN to - from ELSE Word - 1 - from + to
    IN ((d * MsPerSec) % Word) \div TicksPerSec + 1

(* Seeded fault: the first timer's u32_t time goes below zero.             *)
WokenUnderflow ==
    /\ pc = "woken"
    /\ LET ms == WaitedMs(start, now)
       IN list' = IF list = <<>> THEN list
                  ELSE [list EXCEPT ![1].time = (@ + Word - ms) % Word]
    /\ pc' = "fetch" /\ start' = 0
    /\ UNCHANGED <<now, dly, handler, fresh, waited, wraps>>

(* The time waited is taken off the first timer; the message is handled.   *)
Woken ==
    /\ pc = "woken"
    /\ LET ms == WaitedMs(start, now)
       IN list' = IF list = <<>> THEN list
                  ELSE [list EXCEPT ![1].time = IF ms < @ THEN @ - ms ELSE 0]
    /\ pc' = "fetch" /\ start' = 0
    /\ UNCHANGED <<now, dly, handler, fresh, waited, wraps>>

(* The handler sets its timer again as the last thing it does.             *)
Rearm ==
    /\ pc = "run"
    /\ list' = Inserted(list, handler)
    /\ fresh' = fresh \cup {handler}
    /\ waited' = [waited EXCEPT ![handler] = 0]
    /\ wraps' = [wraps EXCEPT ![handler] = 0]
    /\ handler' = NoTimer /\ pc' = "fetch"
    /\ UNCHANGED <<now, start, dly>>

TcpipThread == Fetch \/ TimedOut \/ Woken \/ Rearm

Next == SetTimer \/ Tick \/ Message \/ TcpipThread

Spec == Init /\ [][Next]_vars

(* The tick comes, and tcpip_thread, of the highest priority, runs, once   *)
(* the stack is initialised.                                               *)
FairSpec == Spec /\ WF_vars(SetTimer) /\ WF_vars(Tick) /\ WF_vars(TcpipThread)

-----------------------------------------------------------------------------
(* Properties.                                                             *)

(* The shapes of the clock, the list and the wait; once the timers are set *)
(* a handler is running exactly while its timer is not in the list         *)
(* (arp_timer, ip_reass_timer), where no timer is twice.                   *)
Entries == [id : Timers, time : 0..(Word - 1)]
TypeOK ==
    /\ now \in 0..(Word - 1) /\ start \in 0..(Word - 1)
    /\ pc \in {"init", "fetch", "wait", "woken", "late", "run"}
    /\ dly \in 0..Word
    /\ list \in Seq(Entries)
    /\ \A i, j \in DOMAIN list : list[i].id = list[j].id => i = j
    /\ pc # "init" => Ids(list) = Timers \ {handler}
    /\ handler \in Timers \cup {NoTimer}
    /\ (pc = "run") = (handler # NoTimer)

(* The delta list of sys_timeout and sys_timeouts_mbox_fetch is a set of   *)
(* timers that expire in the order of their times left.                    *)
Left(s) == [t \in Ids(s) |-> Due(s)[CHOOSE i \in DOMAIN s : s[i].id = t]]
Set == INSTANCE TimerSet WITH left <- Left(list)
ExpireInOrder == Set!Spec

(* A tick is a whole number of milliseconds (5 on the board), every        *)
(* interval whole ticks (5000 and 1000 ms), and the conversion to ticks    *)
(* does not overflow.                                                      *)
WholeTicks ==
    \E ms \in 1..MsPerSec :
        /\ MsPerSec = ms * TicksPerSec
        /\ \A t \in Timers : /\ \E n \in 1..Interval[t] : Interval[t] = ms * n
                             /\ Interval[t] * TicksPerSec < Word

(* OSTime wraps at most once between two runs of a timer's handler (it     *)
(* wraps after 248 days) and the clock is read again, after a message,     *)
(* before the conversion to milliseconds overflows (six hours).            *)
Since == IF now >= start THEN now - start ELSE Word - start + now
Timely == /\ \A t \in Timers : wraps[t] <= 1
          /\ pc = "woken" => (Since + 1) * MsPerSec < Word

(* tcpip_thread never waits past a timer's interval while that is so: what *)
(* sys_arch_mbox_fetch rounds for each message that ends a wait, and the   *)
(* tick it loses when OSTime wraps around, do not add up.                  *)
WithinInterval == \A t \in Timers : waited[t] <= IntervalTicks(t)
NeverLate == []Timely => []WithinInterval

(* However many messages sys_timeouts_mbox_fetch gets, every timer runs    *)
(* again and again.                                                        *)
TimersRun == \A t \in Timers : []<>(handler = t)

(* timers.c:257 says of sys_timeout's msecs that the timer expires after   *)
(* that time: a timer of two ticks or more does not run in the tick in     *)
(* which it was set.                                                       *)
NotAtOnce ==
    [][\A t \in Timers : handler' = t /\ handler # t /\ IntervalTicks(t) >= 2 => t \notin fresh]_vars
=============================================================================
