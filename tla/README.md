# YH: a verification project for the intercom

YH is an audio intercom over UDP.  The device is an STM32F103 with uC/OS-II,
lwIP 1.4.1, an ENC28J60 Ethernet chip and two VS1053 codecs (one plays, one
records); its peer is a Windows program, YHServer.  The PC sends `AT1` to open
the line and `AT2` to close it; while the line is open both ends send audio in
datagrams.

This directory holds TLA+ modules translated from the source, the TLC
configurations that check them on small instances, and theorems about them whose
proofs TLAPS checks.  `PROJECT.json` lists every run, the definition-by-definition
map to source lines, the hazards and which property is aimed at which, and the
disagreements between the code and what it says of itself.  Paths below are
relative to the repository.

To check a run: `tlc -config NAME.cfg MODULE`.  To check a module of proofs:
`tlapm MODULE.tla`.

## 1. The system

### Scheduling

One core, fixed-priority preemption, a 200 Hz tick.

| priority | task | file |
|---|---|---|
| 4 | `startup_task`, deletes itself | src/task/task_startup.c |
| 5 | `tcpip_thread` | lwIP api/tcpip.c |
| 6 | network card input | src/LWIP/lwip_app/lwip_comm/lwip_comm.c |
| 16 | `task_udpserver` | src/task/task_udpserver.c |
| 17 | `task_play` | src/task/task_play.c |
| 18 | `task_udpclient` | src/task/task_udpclient.c |
| 62, 63 | statistics, idle | uC/OS-II |

So a task sees the tasks above it at any machine instruction and those below it
only while it is blocked.  Every model uses exactly that: what a high task does
between two blocking calls is one step for a lower one; the lower one's accesses
to shared memory are a step each.

### Components

| component | state | operations | talks to | what makes it correct |
|---|---|---|---|---|
| Application tasks (`task_udpserver`, `task_play`, `task_udpclient`) | three receive buffers, `s_rcv_queue`, `is_line_established`, `g_remote_sin`, two semaphores | receive and parse, play, record and send | each other through shared memory without a lock; sockets; codecs | no buffer is lost, handed out twice or NULL; frames whole and in order; stopping stops |
| Receive queue (`collect/deque.c`, `queue.c`) | ring: first, last, size, buffer | add and remove at both ends, grow | called by two tasks | a FIFO, whatever the wrap-around |
| Network interface (`netif/ethernetif.c`, `HARDWARE/ENC28J60/enc28j60.c`) | `s_lwip_buf`, `NextPacketPtr`, `sem_enc28j60lock`, the chip | output, poll, receive, initialise again | `tcpip_thread` above, chip below | two lossy links that damage nothing; polling always gets through |
| Stack time (`core/timers.c`, `arch/sys_arch.c`) | delta list of timers, the mailbox wait, the tick | set, wait, expire | the kernel's queue and tick | timers expire in order, never late, and always again |
| Heap (`mem/lib_mem.c`) | headers in the heap, free byte count | malloc, calloc, free | every task at its start, mailboxes | blocks disjoint, nothing lost |
| Mailboxes and sockets (`arch/sys_arch.c`, lwIP api) | queues of 20 messages, pools of cells and netbufs, messages on callers' stacks, kernel blocks | post, fetch, new, call, answer | netcard, `tcpip_thread`, tasks | never full, so the spinning post never spins; nothing leaks; every call is answered once |
| Boot (`init/main.c`, `task_startup.c`, `lwip_comm.c`) | the kernel's fixed pools | creation of everything above | all | pools suffice; a failure is noticed |
| Codecs (`HARDWARE/VS10XX`) | chip registers, DMA | reset, play, record | `task_play`, `task_udpclient` | bounded retries; a chunk is not overwritten in flight |
| PC peer (`server/YHServer`) | two queues of three blocks, flags, threads | start, shut down, callbacks | the device over UDP | the header first; both ends agree on the line; the unlocked queues stay within their arrays |
| Kernel (`ucosii`) | ready list, wait lists, counts | post, pend, tick, schedule | all | external code; its behaviour is in the guards of the models |

The rest of the tree is vendored or unused: the STM32 library, the other
Collections-C containers, lwIP's TCP, DHCP, SNMP and PPP, the HTTP demo, and the
TCP server whose creation is commented out.

### What is hard here

* The deque between `task_udpserver` and `task_play` has no lock; either NULL
  that it could return is dereferenced.
* `task_play` gives a buffer back before it copies it.
* `s_lwip_buf` is one array for both directions; the lock that should protect it
  is taken inside the driver, after the array was filled and given back before it
  was read.
* The chip is polled, and may stop receiving; its pointers may go astray.
* 32-bit arithmetic on ticks and milliseconds, rounded both ways, for each message.
* A heap whose lock is commented out and whose free count nothing recomputes.
* A control protocol without acknowledgement: `AT1` once, `AT2` three times, late.
* Threads of the PC program that outlive their session and share unlocked queues.
* Messages that lie on the stack of their caller, and one pool of two netbufs for
  two sockets, one of which nobody reads.
* A DMA transfer that only a delay separates from the next filling of its buffer.
* A recorder that fills at its own pace, read by the task of the lowest priority.
* Start-up loops that wait for a chip without a bound, above tasks that have not
  begun.

Each is listed with its line under "hazards" in `PROJECT.json`.

## 2. Modules

| module | models | states |
|---|---|---|
| Deque | collect/deque.c, as operators on a record | |
| Intercom (EXTENDS Deque) | the three application tasks | 12 variables |
| MCIntercom | its instances | |
| IntercomProofs | theorems about Intercom | |
| NetLink | abstract: two lossy links | |
| NetIf | ethernetif.c, the ENC28J60 driver and the chip | 10 variables |
| NetIfProofs | theorems about NetIf | |
| TimerSet | abstract: a set of timers | |
| SysTimeouts | timers.c over sys_arch.c over the tick | 9 variables |
| MCSysTimeouts | its instances | |
| SysTimeoutsProofs | theorems about SysTimeouts | |
| Heap | mem/lib_mem.c | 5 variables |
| MCHeap | its instance | |
| HeapProofs | theorems about Heap | |
| Stack | the tasks' beginnings, sockets, mailboxes and pools, tcpip_thread | 14 variables |
| MCStack | its instance | |
| StackProofs | theorems about Stack | |
| VS10XXPlay | the decoder's restart, the DMA transfer of chunks | 12 variables |
| VS10XXRecord | the recorder's buffer and the loop that reads it | 5 variables |
| VS10XX (EXTENDS both) | the two codecs and their tasks on one processor | |
| VS10XXProofs | theorems about VS10XX | |
| YHbuffer | YHbuffer.cs over `Queue<T>`, access by access | 4 variables |
| YHServer (EXTENDS YHbuffer) | the PC program: YHnet.cs, the button | 10 more, 2 of them the network's |
| EndToEnd (EXTENDS YHServer) | the PC program, the network and the device's line | 4 more |
| MCEndToEnd | its instance | |
| EndToEndProofs | theorems about EndToEnd: types, arrays, the recorder | |
| CallProofs (EXTENDS EndToEndProofs) | theorems about EndToEnd: header, line | |

Definitions commented "Seeded fault" are never used by a specification: each is
a plausible bug in the definition that follows it, and `PROJECT.json` says which
property finds it.

### Intercom

`dq` is `s_rcv_queue`, `buf` the three buffers, `held` the server's `pbuff`, `line`
the flag, `remote` `g_remote_sin`, `semPlay` and `semClient` the two counts;
`play` and `client` hold a program counter and locals.  `nextTag`, `played` and
`burst` are ghosts.

* `ServerReceive` is a turn of `task_udpserver`'s loop, from the return of
  `recvfrom` to the next call: parse, set the line, post both semaphores, give the
  buffer back, take the oldest.  Datagrams are commands, wave headers, audio and
  empty datagrams (which leave the old bytes in the buffer, as `recvfrom` does).
* `task_play` is broken at each access to shared memory: six steps of
  `deque_remove_last`, six of `deque_add_first`, the length, the RIFF test, the copy
  in two halves, the chunks with their `OSTimeDly`, the test of the line.  Where
  the compiler may keep a loaded value or load it again, the step chooses.
* `task_udpclient` runs only while `task_play` is blocked.
* A NULL or unwritten pointer, dereferenced, stops the board (`Halted`): the
  HardFault handler loops.

Bytes are abstracted to what the code can tell apart: which command, a header, or
other; an optional tag identifies a datagram for the ordering properties.  The
recorder's readings are left out.

### NetIf

`chip` is the ENC28J60: receive-enable, packet FIFO, transmit request, abort,
flags; `sbuf` is `s_lwip_buf` as two halves, so that a mixture shows; `net` and
`tcpip` are the two tasks.  `Packet_Receive` is cut at the lock, at the snapshot of
registers (which its retry loop never refreshes), at the reset with its blocking
delays, at the pointer, at both halves of the read, at the release of the packet
and at the post of the lock; `low_level_input` at allocation, both halves of the
copy, and the hand-over.  `LowLevelOutput` fills the array and asks for the lock in
one step because nothing runs above `tcpip_thread`.

`MayOutput` says when the stack may send.  For an application task or in answer
to a frame it can only while the netcard task is blocked or between two frames.
A timer (`ip_reass_tmr` reporting an incomplete datagram) can at any moment;
the constant `TimerOutput` chooses.

### SysTimeouts

Before `tcpip_thread` begins, `SetTimer` is one `sys_timeout` of `sys_timeouts_init`, in
any order.  `now` is `OSTime`, `list` the delta list, `dly` the kernel's countdown of
the wait.
`Fetch` begins a wait or runs a timer whose time is 0; `Message`, `TimedOut` and
`Woken` are the ends of a wait; `Rearm` is the handler, which sets its own timer
again as `arp_timer` and the others do.  `fresh`, `waited` and `wraps` are ghosts: the
timers set since the last tick, and for each timer the ticks `tcpip_thread` waited and
the wraps of `OSTime` since it was set (`waited` counts to one past the interval, which is all
that is asked of it).  The longest wait is 1000 ticks, so the cast of
the wait to `u16_t` (sys_arch.c:130) changes nothing and is left out.  `WaitedMs` is the port's computation with
its wrap-around and its `+ 1`.  The word, the tick rate and the milliseconds of a
second are constants; the wrap of the clock happens within a run.  `Due` is the sums
of the list's times, which `sys_timeout` compares with the new timer's one entry
after the other; `Place` is where its loop stops.

### Heap

`header` maps the address of every header in use to the record in it: a header
merged away is bytes of a block again and leaves the domain.  `InsertBlockIntoFreeList`
is the two merge tests in the code's order; `MallocBlock` is the whole of
`pvPortMalloc` with `prvHeapInit` on the first call (`Heap0`, `Free0`); `MallocNull`
is every path that returns NULL; `pvPortCalloc` adds the write through NULL.
Loops that walk the list are a `CHOOSE` of the node they stop at, which is unique
because the list is in address order: `Structure` states that, and it is proved.

Calls are atomic although `OSSchedLock` is commented out: that no two tasks are
ever inside the allocator is `HeapAlone` of Stack, checked and proved.

`Word` stands for 2^32; the assumption that twice the heap fits in a word holds of
the board's 1 000 000 bytes.

### Stack

`mbox` is `tcpip_thread`'s mailbox, `freeIn` and `packet` the pool of INPKT cells and
what is in them, `freeNetbuf` the pool of netbufs, `recvmbox`, `sem` and `call` the
mailbox, `op_completed` and message of each socket, `kernel` the free event and
queue blocks.  `pc` runs over the places of the three tasks from "start" to their
loops.

* `Netcard` is `tcpip_input`, cut at the test of the mailbox, the allocation and the
  post; `Tcpip` fetches and handles one message: a packet for a bound socket
  (`RecvUdp` with its three ways to drop it), for nobody or for the stack itself, or
  a call (`Api`).
* `Calls` is the path of a call: semaphore, mailbox, the test in `tcpip_apimsg`, the
  post, the wait; `socket`, then `bind`, then for the client `sendto`.  `Recv` is
  `recvfrom`.
* `Begin` is what surrounds the calls: the allocations, `VS_Restart_Play` with its
  reset, the recorder's fill level.  `chips` says which codec answers.
* `MayRun` is the scheduler: a task runs while those above it are `Blocked`.
  netcard and `tcpip_thread` may interleave with the tasks anywhere, which is more
  than the kernel allows; `tcpip_thread` handles one message in one step.  In its
  loop `task_play` is taken to be blocked: Intercom says when it is not.

A mailbox counts a message until its reader runs (the kernel hands it over at
once): fuller mailboxes, so `NeverFull` is no weaker.  Receive counts
(`rcvevent`), the pbuf pool and the pcbs, of which there are five, are left out.

### VS10XXPlay, VS10XXRecord and VS10XX

`VS10XXPlay` follows `task_play` from `VS_Restart_Play` to its loop, with `mode` for
SPI_MODE and `retry`, `i` for the counters, and then frame after frame: `Copy` fills
the DMA buffer, `Look` looks at DREQ once and starts the transfer or drops the chunk,
`Sleep` and `Wake` are `OSTimeDly(2)`.  The DMA channel (`Transfer`), the tick and the
chip are processes of their own.  Lengths count 32 bytes.  That a transfer does not
see two ticks is an assumption about time: 160 bytes at 4.5 MHz take 0.3 ms, a tick is
5.  Intercom has the same loop with the frame's bytes and one chunk; here the bytes
are left out.

`VS10XXRecord` is the recorder's buffer (`fill` is SPI_HDAT1) against the polls and
reads of `task_udpclient`.  `MaxLate` bounds the words that arrive from the look that
begins a block to the end of the block, preemption included.  That the chip starts
again empty when it overflows is external.

`VS10XX` composes them: the codecs share no pin and no SPI, so what one task does
bears on the other only through the processor, and `task_udpclient` runs only while
`task_play` is `PlayBlocked`.  The model counts the whole of a reset as blocked
although only its delays are, which lets the client run more often than it can.

### YHbuffer, YHServer and EndToEnd

`YHServer` has the UI thread (`ui`: Start, ShutDown and NAudio's callbacks, which WPF
dispatches to it), the one receiving thread and, for each session, a playing and a
recording thread.  Each queue has one producer (thread 0), and as consumers the
threads of all sessions that have not ended.

Nothing locks a `YHbuffer`, and .NET promises nothing of a `Queue<T>` that two threads
use.  `YHbuffer` therefore has `queue` as the array, head, tail and size that `Queue<T>`
of the .NET Framework keeps, and `thread` with a program counter and the registers
of each producer and consumer.  A call is cut at every access to memory another
thread may see: an element is written, read and cleared as two words (`m_data`,
`m_len`), a `size++` or `size--` is a load and a store, and where a method has read a
field before, the step chooses between that value and the field's.  So an update of
`size` may be lost, an element overwritten, played twice, or handed out torn; a
`Dequeue` of an empty queue ends the process (`crash`), and so does a block whose
`m_data` is null.  Neither the order of blocks nor a list of the ways in which the
process can end is a property of this code, and none is claimed.  `MinSize` bounds how
far below zero a size is followed; it saturates there, where the code's would go on.
`Array.Clear` within `Clear` is one step.  Its failure for a head, tail and size that
do not fit together is modelled and not reached within the bounds.

`SystemThrows` is the calls that may throw unhandled at any time: `StartRecording`
without a device, `ReceiveFrom` of a datagram longer than its buffer, `AddSamples` to a
full buffer, `Send`.  After an exception the process is gone and nothing moves; the
device, which stays, is not followed further.

The recording thread of an ended session sends its `ShutDowns` commands from
`LineShutDown`.  A block is named by its session and kind.  A queue that a scenario
does not follow (`queues`) stays empty: its producer's calls return at once, its
consumers only test their flag.

Taken from how the code uses them: NAudio 1.8's WaveIn, whose `DataAvailable` may
still be raised inside `StopRecording`, and whose `RecordingStopped` is posted to
the dispatcher and handled before the next click; `Queue<T>` as written, over
memory that is sequentially consistent; threads scheduled fairly.  The PC's audio
is not sent through `net`, which carries the commands only.

`EndToEnd` adds the commands' network, which loses up to `loss` of them, and the
device's side of a call (`line`, `sending`); Intercom has that side in full.
`scenario` bounds a behaviour: sessions, callbacks, failures of the microphone,
datagrams of the device, losses.  `ghost` records what happened in a session.

## 3. Runs

| run | configuration | question | instance | distinct states |
|---|---|---|---|---|
| race | MCIntercomRace | do the unlocked deque operations keep the count and the indices? | 2 buffers, ring of 4, arrivals anywhere | 1.2 M |
| frames | MCIntercomFrames | are frames whole, in order, and each buffer in one place? | 3 buffers, 2 tags, at most 2 arrivals in a copy | 2.1 M |
| stop | MCIntercomStop | does closing the line park both tasks? | 2 buffers, fairness | 1.1 M |
| removed | MCIntercomRemoved | can one buffer be removed twice? (yes) | 3 buffers, ring of 8 | violation |
| netif_link | NetIfLink | does the interface implement two lossy links, recover and drain? | 3 frames in, 2 out, 1 fault, 1 glitch | 91 k |
| netif_timer | NetIfTimer | is what is sent what was given, with a timer that sends? (no) | 1 in, 1 out | violation |
| timers | MCSysTimeoutsRun | order, punctuality, recurrence of timers | the 2 timers, of 3 and 4 ticks, 16-value clock | 354 k |
| timer_early | MCSysTimeoutsEarly | can a timer run in the tick that set it? (yes) | the same | violation |
| heap | MCHeap | disjoint blocks, exact count, nothing lost | 136 bytes, 6 request sizes | 49 k |
| stack | MCStack | start-up, sockets, mailboxes, pools | 1 cell, 2 netbufs, blocks for 2, 1 or no sockets | 92 k |
| codecs | VS10XX | is a transfer left alone, is the decoder ready, are blocks consecutive? | chunks of 3, frames of up to 7; 6 words, blocks of 2, limit 4 | 398 k |
| endtoend | MCEndToEnd | when do the ends agree, and what do the unlocked queues keep? | 4 scenarios, queues of 3 blocks | 400 k |

### What the properties say

* **CountConserved** (race): the deque's `size` is the number of buffers nobody has
  out, at every instruction, although two tasks change it without a lock.  So
  neither NULL is ever dereferenced and the deque never grows.  It holds because
  the server, above `task_play`, puts back one buffer and takes one each time it
  runs, so a value in a register of `task_play` is never stale.
* **RemovedOnce** (removed): the same cannot be said of the elements; see section 4.
* **RingIntact** (frames): with no arrival inside a queue operation every buffer
  is in exactly one place.
* **FrameWhole**, **PlayedInOrder** (frames): three buffers are enough for two
  arrivals during a copy.  Both are sharp: with `MaxBurst = 3`, or with
  arrivals inside the queue operations, TLC finds `FrameWhole` violated.
* **Quiesce** (stop): liveness; the header branch of `play` skips the test of the line,
  so a stream of headers is excluded.
* **Interlock** (netif_link): the lock is held by exactly the task inside the
  driver, on every return path and through the re-initialisation.
* **LinkSpec** (netif_link): refinement of `NetLink`.  `rx` is the packet the driver
  just took, then the chip's FIFO; a frame that is a mixture of two is mapped to
  a frame that does not exist, which no step of `NetLink` allows.  It holds until
  the driver misreads a packet pointer, after which the length is unassigned
  (section 6).
* **SentAsGiven**: what goes on the wire is what the stack gave, without timers
  that send (netif_link), and not with them (netif_timer).
* **ReceptionRecovers**, **PacketsDrained** (netif_link): liveness of polling through
  faults, bad packets, a failing pbuf pool and a busy chip.
* **ExpireInOrder** (timers): refinement of `TimerSet`; the absolute times left are
  the sums of the delta list.
* **NeverLate**, **TimersRun** (timers): as long as the clock is read in time (`Timely`,
  section 5) the errors of rounding and of the wrap never add up to a late timer, and
  messages cannot starve one.
* **BytesApart**, **FreeBytesExact**, **MergedWhenAllFree**, **Structure** (heap): what
  the callers rely on and the structure it rests on.
* **NeverFull** (stack): what can be queued is what the pools and the two callers
  have, so the loop of `sys_mbox_post` never turns and no call is refused.
* **OnePlace** (stack): each cell and netbuf is in its pool, in one slot of one
  mailbox or in one task's hands, on every path that drops a packet.
* **CallMatched**, **CallsAnswered** (stack): a caller waits exactly while its
  message or its answer is about; and it is answered.
* **BothSockets**, **KernelKept** (stack): the ten events of os_cfg.h leave four,
  which is just enough for two sockets; a socket that fails gives back all.
* **HeapAlone** (stack): the allocator's missing lock does no harm, because each
  task makes its last allocation before it first waits.
* **StartsUp** (stack): who depends on whom to reach its loop.  The server on
  nobody; the client on the decoder above it as well as on the recorder.
* **NetbufsReturn** (stack): the server goes deaf only if two datagrams were sent
  to the client's port, whose socket nobody reads.
* **BufferSafe** (codecs): nothing asks the DMA channel whether it is done; two ticks,
  of which the first may come at once, are just enough, and one is not.
* **DecoderReady** (codecs): the nested loops of the restart leave the decoder
  uncancelled only if `VS_Soft_Reset` ran out of retries, which it does not report.
* **BlocksWhole** (codecs): the limit of 896 leaves room for what arrives while 256
  words are read.
* **NeverGrows** (endtoend): whatever the threads lose of a queue's size, its array
  is never replaced under them: only the producer raises the size, and by one from a
  value it found below the capacity.
* **NullAfterFailure** (endtoend): `ShutDown` finds no recorder only after a recording
  that failed, never because an earlier session's `RecordingStopped` came late.
* **LineAgrees** (endtoend): when nothing is under way both ends agree on the
  line, but for four causes, each of which does occur: the one `AT1` lost, a late
  `AT2` of the session before, a recording that failed, a session that ended before
  it recorded.  **LineGoesDown**: a call ended for good ends on the device.
* **HeaderFirst** (endtoend): the wave header is sent before any audio of its session,
  although the thread that sends it starts before the first callback has added its two
  halves and takes from the queue meanwhile.  A second callback, which may drop the
  header, and an older thread on the queue are excepted; the run's recording scenario
  has one callback and one thread, and the theorem has any number.

### Bounds, and why they are enough

* Intercom: two buffers are the fewest with which each task can have one and the
  deque be empty; three are what the code has.  A ring of 4 wraps around
  as one of 8 does, with more wraps in fewer steps; RingIntact and the
  removed run need no more.  Semaphore counts saturate at 1: more would repeat
  rounds of the same loop.  One chunk stands for any number: chunks differ in no
  guard.  Two tags show order and duplication; untagged audio fills the gaps.
* NetIf: two halves of a buffer show a mixture; a FIFO of 2 overflows; one fault
  and one glitch are followed by enough frames to see the recovery.
* SysTimeouts: 3 ms to a tick makes rounding matter for every message; waits last one,
  two or three ticks, so that a message ends a wait after none, some or all but one
  of its ticks and `WaitedMs` decides what is left.  The 16-value word wraps after a
  few waits, and more than once in a timer's life, where `NeverLate` promises nothing.
  The instance satisfies `WholeTicks`.  The list holds at most two timers, as on the
  board; that an insertion between two leaves a third alone is in `ListIsSet`.
* Heap: 136 bytes hold the smallest block several times, so that frees merge with
  no, one or two neighbours; requests of 9 and 120 exercise rounding and the
  block that is not split, 300 the top bit.
* Stack: one cell makes the pool run out while a packet is queued; a mailbox is one
  longer than all that can be queued, the tightest case of the assumption.  Two
  netbufs are what the code has.  Blocks for both sockets, for one, for a
  semaphore only and for nothing take every failing path.
* VS10XX: frames of one, two and three chunks with a full and a short last one;
  each loop runs to its limit and one less.  The recorder's margin is exactly
  `MaxLate`, the tightest case of the assumption.
* EndToEnd: queues of three blocks and three shut-downs, as in the code.  Four
  scenarios: two calls with two commands lost (one less than the shut-downs) and a
  microphone that fails, queues aside; two calls whose playing threads overlap on one
  queue; one call that plays four datagrams, one more than the queue holds, so that
  the producer drops while the consumer takes; one call that records.  No action
  touches both queues, so they are followed one at a time.  A `size` of -1 is reached
  when two consumers take one block; from there each `Dequeue` finds `Count` not 0 and
  takes one off, which -2 stands for.
* The theorems below remove the bounds for the properties they state.

### Fairness, and why the code justifies it

* Intercom: weak fairness of `task_play`, which the scheduler runs whenever
  nothing above it does and arrivals are finite between any two of its steps;
  weak fairness of the tick; strong fairness of `task_udpclient`, which gets the CPU
  only while `task_play` is blocked, that is again and again but never for good.
  Nothing makes a datagram arrive or a client hang up: `Quiesce` assumes the line
  stays down.
* NetIf: weak fairness of both tasks, of the end of a transmission and of the
  chip's clock; strong fairness of "the chip is not busy receiving when it is
  polled" and of "its clock is up in time", since each poll is a new try and no
  cause makes all fail.
* SysTimeouts: the tick comes, the stack is initialised, and `tcpip_thread`, the
  highest task, runs.  No
  fairness of messages, and no bound on them.
* Heap: safety only.
* Stack: weak fairness of the driver in the middle of a frame, of `tcpip_thread` and
  of the server; strong fairness of the two tasks below the server, which run
  when it waits.  `StartsUp` speaks of the runs in which it waits again and again.
  Nothing makes a frame arrive or the client send.
* VS10XX: safety only.
* EndToEnd: weak fairness of each PC thread (Windows schedules them all), of the UI
  thread once it has begun an event, and of the device, so that commands arrive
  or are lost.  Nobody need click.

Deadlock is checked except where the program may stop: a dereferenced NULL in
Intercom's race runs, a write through NULL in Heap, and the end of the PC process
or of a scenario's bounds in EndToEnd.

## 4. Disagreements found

* **A buffer is handed out twice** (removed).  queue.c:136 says `queue_poll` gets and
  removes an element.  When a datagram arrives between `task_play`'s load of
  `deque->last` and its store, both tasks get the same buffer, and audio is lost or
  torn.  The counts stay right (`CountConserved`), so neither gets NULL.  The slots
  need not be: two datagrams between deque.c:168 and 169, where `first` is
  already moved and the slot not yet written, make the server take a slot that was
  never written, if the ring has not gone round once, and use it as a pointer.
* **A received frame is sent** (netif_timer).  lwip_comm.c:61 calls
  `sem_enc28j60lock` the lock between reading and writing the card;
  `low_level_output` fills the shared array before taking it.
* **A timer at once** (timer_early).  timers.c:257 promises a timer after its time;
  `sys_arch_mbox_fetch` compares with `>` where `sys_arch_sem_wait` has `>=`, takes a
  message in the same tick for a wrap of the clock, and the next timer fires.

## 5. Proofs

All for every value of the constants that satisfies the named assumptions.

| theorem | statement | assumptions |
|---|---|---|
| IntercomProofs!TypeCorrect | `Spec => []TypeOK`: every index stays in the ring | BuffersAssumption, BoundsAssumption |
| IntercomProofs!CountIsConserved | `Spec => []CountConserved` | the same |
| IntercomProofs!NoNullBuffer | `task_play` never finds the deque empty or full | the same |
| IntercomProofs!EveryBufferInOnePlace | `Spec /\ NeverTorn => []RingIntact`, with datagrams inside the queue operations too | the same |
| IntercomProofs!BufferOutOnce | `Spec /\ NeverTorn => [](RemovedOnce /\ play.pc # "fault")` | the same |
| IntercomProofs!FramesAreWhole | `Spec => []FrameWhole` | the same, `~PreemptQueue`, `MaxBurst < RcvBufferNum` |
| IntercomProofs!FramesInOrder | `Spec => PlayedInOrder` | as FramesAreWhole |
| NetIfProofs!TypeCorrect | `Spec => []TypeOK` | NetIfAssumption |
| NetIfProofs!LockInterlocks | `Spec => []Interlock`, also with timers | the same |
| NetIfProofs!WireAsGiven | without timers that send, `Spec => SentAsGiven` | the same, `~TimerOutput` |
| NetIfProofs!DriverIsLink | without timers that send, `Spec => LinkSpec`: the driver implements NetLink until a pointer is misread | the same, `~TimerOutput` |
| HeapProofs!TypeCorrect | `Spec => []TypeOK` | HeapSizeAssumption, WordAssumption, RequestsAssumption |
| HeapProofs!StructureKept | `Spec => []Structure` | the same |
| HeapProofs!CallersApart | `Spec => []BytesApart` | the same |
| HeapProofs!NothingLost | `Spec => []MergedWhenAllFree` | the same |
| HeapProofs!CountIsExact | `Spec => []FreeBytesExact` | the same |
| SysTimeoutsProofs!TypeCorrect | `Spec => []TypeOK` | SysTimeoutsAssumption |
| SysTimeoutsProofs!ListIsSet | `Spec => ExpireInOrder`: the delta list implements TimerSet | the same |
| SysTimeoutsProofs!Punctuality | `Spec => NeverLate` | the same, `WholeTicks` |
| StackProofs!TypeCorrect | `Spec => []TypeOK`: no answer is counted twice | StackAssumption |
| StackProofs!MailboxesNeverFull | `Spec => []NeverFull` | the same: pools smaller than a mailbox |
| StackProofs!PoolsKept | `Spec => []OnePlace` | the same |
| StackProofs!CallersWait | `Spec => []CallMatched` | the same |
| StackProofs!KernelBlocksKept | `Spec => KernelKept` | the same |
| StackProofs!BothSocketsCreated | `Spec => []BothSockets` | the same |
| StackProofs!HeapNeedsNoLock | `Spec => []HeapAlone` | the same |
| VS10XXProofs!TypesCorrect | `CodecsSpec => [](TypeOK /\ RecordTypeOK)` | VS10XXAssumption, RecordAssumption |
| VS10XXProofs!TransferUndisturbed | `CodecsSpec => []BufferSafe` | the same: a delay of 2 or more |
| VS10XXProofs!DecoderIsReady | `CodecsSpec => []DecoderReady` | the same |
| VS10XXProofs!BlocksAreWhole | `CodecsSpec => []BlocksWhole` | the same: the words of a block's time fit above `High` |
| EndToEndProofs!TypeCorrect | `Spec => []TypeOK`: head and tail stay in the array, no size exceeds the blocks | YHbufferAssumption, ShutDownsAssumption |
| EndToEndProofs!ArraysNeverGrow | `Spec => []NeverGrows` | the same |
| EndToEndProofs!RecorderGoneAfterFailure | `Spec => []NullAfterFailure` | the same |
| CallProofs!HeaderGoesFirst | `Spec => HeaderFirst` | the same, `Blocks >= 3` |
| CallProofs!BothEndsAgree | `Spec => []LineAgrees` | the same; in every scenario `loss < ShutDowns` |

**Intercom.**  `CountConserved` is not inductive: a step that stores a register
back preserves it only if the register is what memory still holds.  The
invariant adds `RegisterFresh`, which says so at each program point, and
`LocalsOK`, that the buffer in hand is a buffer.  The server's turn keeps both
because `RemoveLast(RcvEnqueue(d, b))` has the size of `d` (`ServerTurn`).  One lemma
for each of `task_play`'s actions.

`RingIntact` is about the contents.  `Ring` is the sequence of the buffers in the
ring at each program point: it starts one word late between the stores of `first`
and of the element, and ends one early from the store of `last` on.  A step then
moves the buffers in one of four ways (`Kept`, `Taken`, `Given`, `Rotated`), and each
way keeps `Distinct` and `NoneLost` (lemmas `KeptPlaces` to `RotatedPlaces`).  What
remains for each action is which way it is, and that `Shape` holds: the indices in
the ring and in `task_play`'s registers are where `Ring` begins and ends, through
the masks (`PrevOfIndex`, `IndexFromPrev`).

The code lets a datagram be handled anywhere, and then both `RingIntact` and
`RemovedOnce` are false (section 4).  `NeverTorn` says where it would have to be: at one of
the four of `task_play`'s twelve steps in which it holds an index of the ring that a
turn of the server makes stale, between the load of `last` and its store and between
the load of `first` and the store of the element (`Torn`).  The two theorems say that
these four are all: a datagram at any other point of the two operations, where `size`
and the ring disagree, does no harm, and no sequence of datagrams elsewhere does.
None of the four can be spared: letting datagrams in at any single one of them, TLC
finds one of the two properties violated with three buffers.  `FrameWhole` and
`PlayedInOrder` are proved with no datagram inside a queue operation (`~PreemptQueue`).

`FrameWhole` needs `Copying`: at the RIFF test and during the copy the buffer given
back is `burst` places from the front of the ring, or is the one the server holds
when `burst` is the last place; so with `MaxBurst < RcvBufferNum` no arrival writes
it.  `PlayedInOrder` needs `Ordered`, that the unread frames in the ring are in the
order of arrival and after the last one played, and `NextToPlay`, that the frame in
`task_play`'s hands is older than all of them.

**NetIf.**  `Interlock` needs `PacketThere`: the driver reads from the FIFO only
when it is not empty, which holds since only the driver empties it and the chip
is reset only by it.  `WireAsGiven` needs `Holding`: while `tcpip_thread` has a
frame the array holds it whole.  It can only wait for the lock while the netcard
task sleeps inside the chip's initialisation, from where that task reaches its
post without touching the array; this is the step that fails with timers.
`DriverIsLink` is the refinement of NetLink, which promises something until a packet
pointer is misread.  `Heard` says for each program point which half of the array
holds the oldest packet's bytes and whether the length is the packet's; with it
every step is one of NetLink's or a stutter: a packet's arrival, its reading or
loss (a reset loses all, as a set of positions kept: `LinkSteps`), the frame
submitted and transmitted.

**Heap.**  `Structure` with `TypeOK` is inductive.  Its four parts: `Tiled` (blocks
tile the heap), `Linked` (the list is exactly the free blocks in address order),
`Merged` (no two free blocks touch) and `InUse` (a block in use is the block of one
pointer and has its bytes).  The operations are composed of three moves,
unlink, split and insert, and between two moves one block is neither in the
list nor in use; `Good(H, u)` is the structure but for that block `u`, and each move
has a lemma (`UnlinkKeeps`, `SplitKeeps`, `InsertKeeps`; `CarveKeeps` and
`ReleaseKeeps` compose them).  That the loops stop (`BeforeIsThere`, `LowestExists`)
is proved, not assumed.  `BytesApart` and `MergedWhenAllFree` follow from the
structure alone.

`FreeBytesExact` counts bytes.  Since the blocks tile the heap, the free bytes are
those no block in use has (`FreeIsRest`); the moves leave the blocks in use alone
but one, so what a call adds or removes is that block's interval (`FreeLess`), and
no merge has to be looked at again.

**SysTimeouts.**  `Due` is a recursive function, so each fact about it is an
induction over the list.  The lemmas do it by the least counterexample
(`LowestExists`, from the well-foundedness of inclusion on finite sets): that the
sums exist (`SumsExist`), that nothing else satisfies their equations (`DueUnique`),
that they grow (`DueGrows`).  With `DueUnique` the sums of a changed list are known
once they are guessed: an insertion leaves all others (`InsertedFacts`), the first
entry's expiry takes its time off all (`TailExpires`), a shortened first entry takes
the difference off all (`CutPasses`).  The refinement needs `Pending`: during a wait the
first timer has time left, so a message, reported as at least a millisecond, is a
`Pass` of TimerSet.  For these two the constants are free: the clock may wrap at any
value.

`NeverLate` (`[]Timely => []WithinInterval`) is not true of every value of the constants: a timer due within a tick is
waited for a whole tick (`AtLeast1`), so timers due within one tick of each other
each delay the rest (TLC finds intervals of 4, 5 and 6 ms late with a tick of 5 ms).
`Punctuality` therefore takes the board's arithmetic as a hypothesis, `WholeTicks`: a
tick is a whole number of milliseconds (1000 / 200) and each interval (1000 and
5000 ms) a whole number of ticks.  `Timely` says of the run that `OSTime` wraps at most
once between two runs of a timer's handler, and that after a message the clock is
read before the ticks times 1000 overflow.  Both are needed: with one timer of 5
ticks of 4 ms TLC finds it late when a message is handled 8 ticks after the wait
began and the word holds 7, and when the clock wraps in two waits.

The invariant `OnTime` is an account.  For each timer the time waited, but for the
wait that goes on (`e` ticks, an existential: the counter is lost when a message
ends the wait), and the time left (`Spent`) do not exceed the interval (`InTime`):
what a message takes off is more than what was waited, by the `+ 1`.  A wrap in a
wait takes off a tick too little; after it the account may be over by less than a
tick, and then only while the first timer has a whole tick left, so that no wait is
rounded up to a tick before it is settled.  The times left are whole ticks apart
(`Aligned`), so at each expiry they are whole ticks and less than one over is none
(`MulLess`).  `Punctual`, `CutInTime`, `CutAfterWrap` and `CutAtOnce` are this
arithmetic for an expiry and for the three outcomes of comparing the clocks.

**Stack.**  The properties count; the inductive invariant does not.  `Cells`,
`Messages` and `Bufs` say of each cell, caller and netbuf where it can be at the
same time, and that mailboxes repeat nothing (`Distinct`); the counts follow from
`CountDistinct`.  `NeverFull` follows as well: a sequence without repetition is no
longer than the set it is over (`DistinctBounded`, by the pigeonhole principle),
and the sets are smaller than a mailbox.  Since a post therefore never fails, the
steps that would lose a message are not steps.  `KernelSums` adds up what each
call does to the kernel's blocks.  `HeapAlone` needs `Order`: a task that has begun
finds those above it past their last allocation; it is kept because a step of a
lower task happens only while the upper are blocked, which is after it.

**VS10XX.**  `BufferSafe` needs `Asleep`: once a sleeping task has seen a tick, a
transfer that is still running has seen it too, so the tick that wakes the task
waits for its end; that some of the frame is left bounds the last chunk.
`DecoderReady` needs `Cancelling`, which follows SM_CANCEL through the loops of the
restart.  For the recorder, `Margin`: while a block is read, `fill + idx - late` is
the level of the look, so between `Block` and `High`.

**EndToEnd.**  The base is `Base`, three parts that only together are inductive:
`Typed`; `Room`; `Control` (which button, recording and flag states go together).
`Room` is what a test of `Count` is worth without a lock.  Between its test and its
store of `size` the producer relies on `size` being at most `Blocks - 1`, in memory and
in its register.  A consumer can do what it likes to the size but raise it to `Blocks`:
it stores one less than a value it read, and all values are at most `Blocks`.  So
`NeverGrows`, `TypeOK` and nothing stronger about the size: that it counts the
elements is false.

`HeaderFirst` needs `Recording`, access by access.  `Solo`: until two threads meet on
the queue, the one in its loop is the running session's.  `Zeroed`: after `Clear` the
queue stays empty until the first callback, since no thread takes.  `Filling(d)` and
`InSlot(d)`: in the producer's call `d + 1` head is 0, tail and size are `d` or on their
way to `d + 1`, and the header's two words are in slot 0 from the first call on; with
`Blocks >= 3` none of the three calls drops.  `Fresh` says that this lasts until the
sending thread has read the header, because before that it stores nothing, and it
begins only after the first call; `Taken`, that it keeps what it read until it sends
it.  What the thread does to the size from then on may be lost, which no longer
matters to the header.  With two blocks the property is false.

`LineAgrees` needs `Sending` (when a session's sending thread exists, and that it
leaves its loop in a connected session only after a failure) and `Commands`: where
the `AT1` of the running session is, that no `AT1` follows an `AT2` of that session,
and `Down`: the `AT2` in the network, those lost and those left to send are at
least `ShutDowns`, or one has arrived and no `AT1` comes after it.  Settled, the
network is empty and nothing is left, so with fewer losses the second holds.

**Only model-checked.**  Liveness under fairness (Quiesce, ReceptionRecovers,
PacketsDrained, TimersRun, StartsUp, CallsAnswered, NetbufsReturn, LineGoesDown):
leads-to under WF and SF is out of the prover's reach.  Every invariant and every
action property of the passing runs, and every refinement, has a theorem.

## 6. Not modelled

`PROJECT.json` gives each part with its reason.  In short: the boot sequence up to
the creation of the tasks runs once, in a straight line; the kernel's and lwIP's
own algorithms are external code taken at their interfaces; `pvPortMemDeinit` and
the deque's iterators and filters have no caller; other registers,
GPIO, wave headers and debug output carry no state that another component reads.

Of the codecs the tests of the boot, volume, tone and effect registers and the SPI's
clock rates are left out, and that the restart ends, which depends on the chip
alone.  How much the decoder's buffer holds is external, so what it drops of the
160 bytes it gets for a DREQ that promises room for 32 is not modelled.

Seen in reading, and without a run of its own:

* enc28j60.c:594 promises the length of the packet; in the branch for an invalid
  pointer (645-654) `len` is never assigned.  `NetIf` has both outcomes, a length of
  0 and stale bytes of `s_lwip_buf` passed up, and `LinkSpec` promises nothing then.
* vs10xx_core.c:380 resets when SM_CANCEL failed; the test `i<2048` (368) also sends
  it there when the 64th turn read SM_CANCEL clear.  `VS10XXPlay` has this path.
* vs10xx_core.c:362 counts 32 bytes for a frame of 160; 298 says 32 as well, and
  `vsbuf` has 32.  `VS_Send_MusicData2` is given a header of 44 bytes where 322 says
  at most 32.
* `VS_Set_Effect` sets bit 4 for LO but clears bit 5 (vs10xx_core.c:474-475).
* `lwip_comm_init` documents a return value 3 that no path
  returns.

## 7. Plan

In this order; each item names what it composes and what it should show.

1. **Boot**.  The straight line from `main` to the deletion of `startup_task`, with
   each allocation from Heap's interface and the kernel's pools able to fail.
2. **Kernel objects**.  Semaphores and queues of os_sem.c and os_q.c with their wait
   lists, as the refinement the guards of Intercom, NetIf, SysTimeouts and Stack
   rest on.
3. **Codec liveness**.  The restart ends if DREQ keeps rising, a frame ends whatever
   the decoder does, and blocks keep coming while the line is up.
