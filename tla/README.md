# TLA+ models of the RabbitECU kernel

RabbitECU is firmware for engine controllers: a kernel ("a monolithic kernel
that provides all of the services", README.txt) and, on top of it, client
functions that reach it "via system calls, pointers to shared data and
callbacks". These modules model the parts of the kernel whose correctness
depends on the order of events or on arithmetic at its limits: the scheduler and
the start-up, the queues between interrupts and tasks, diagnostics reception,
crank decoding and the timed outputs it drives, analogue conversions, the saving of the
calibration, and the lookups every calibration goes through. TLC checks them on
small instances; TLAPS proves every one of their safety properties, and the
refinements but for their liveness, for every instance.

The source modelled is the build of the Atmel project file: Arduino Due
(SAM3X8E), `BUILD_KERNEL_APP`, `BUILD_PACKED`. Paths below are relative to
`src/ECUHost Atmel Kernel/`. `PROJECT.json` lists for every definition the
source lines it stands for.

- [1. The system](#1-the-system)
- [2. The modules](#2-the-modules)
- [3. What the runs check](#3-what-the-runs-check)
- [4. What is proved](#4-what-is-proved)
- [5. Where the code differs from its own words](#5-where-the-code-differs-from-its-own-words)
- [6. What is not modelled](#6-what-is-not-modelled)
- [7. What is left](#7-what-is-left)
- [8. Running](#8-running)

## 1. The system

`main.c` calls `EFIMain` (ECUHostEFI.c), which sets the SysTick to 1 ms and
calls `OS_vStart` and `OS_vRun`. There is one core. Concurrency comes from
interrupt levels, a smaller number being the more urgent one:

| level | source |
| --- | --- |
| 0 | SVC: the system calls, so that a system call is not interrupted |
| 3 | timer input capture (crank and cam) |
| 5 | USB |
| 8 | converter (ADC) |
| 15 | timer outputs (TEPM), the missing-tooth timer, CAN, SPI, and the SysTick |
| below | the dispatcher: cyclic tasks, client callbacks, threads |

Interrupts of one level do not preempt one another. A critical section disables
all interrupts, and leaving one enables them, nested or not
(System/CPUAbstract.h 28-29).

### Inventory

For each component: the state it keeps, its operations, whom it interacts with,
what is hard, and what makes it correct.

**Scheduler and dispatcher** (OS.c, OS/tqueue.c, OS/tqueueHA.c, System/IRQ.c).
The tick counter, linked queues of task nodes, the thread queue with a saved stack
pointer for each thread. The SysTick releases the cyclic tasks that are due,
rotates the threads and returns into the dispatcher, which runs the kernel's
tasks, then the client's, then loads a thread. The tick comes between any two steps
of the dispatcher, which holds a part of a list in locals. Correct when no list is
corrupted, no released task is dropped, a schedule is complete, and each
thread resumes its own context.

**Start order and client registration** (`OS_vPrioritiseQueue`, `OS_vStart`,
Client/USER.c, OS/client.c). The linked start queue, sorted in place by its next
pointers; the pool of client task nodes with a count for each kind. `USER_vStart`
registers start, cyclic and terminate tasks by system calls, from a kernel start task;
`OS_vSchedule` later finds the cyclic ones by counting nodes. The pool can fill
anywhere, and two components agree on its layout only by the order of three loops.

**Client callback queue** (OS/client.c, Support/cqueue.h, OS/MSG.c). A ring of
callbacks and mailboxes. Interrupt handlers and the diagnostic write service post, the
dispatcher takes, between cyclic tasks. Handlers preempt the dispatcher and one another
inside the unprotected part of an enqueue. Correct when the ring is a FIFO and the
client gets the callback that was posted.

**Diagnostic network layer and kernel timer** (Suites/UDS/UDSNL.c,
KernelServices/timer.c). Two reception buffers, the mode of the segmented
reception, the tester being served and the alarm that ends its turn. Several
testers, lost and repeated frames, timeouts between two frames, a counter that wraps.
Correct when messages come out whole and no tester keeps the channel.

**Data link layer** (KernelServices/DLL.c). A byte ring for each channel and a
table of work buffers. CAN interrupts queue answers, clients queue frames, the
cyclic task `DLL_vRun` takes frames out. Correct when each channel is a queue of whole
frames and buffers come back.

**Crank and cam decoding** (UserServices/CEM.c). An edge counter, the fraction of the engine
cycle, the phase taken from the cam with its count of errors, and the counters of
teeth. Edges come as interrupts, the missing teeth are counted by a timer of a lower
level. Correct when, once disturbances are over, edge counter, angle, revolution and
sequences are the engine's.

**Timed outputs** (UserServices/TEPM.c, TEPMHA.c). A queue of events and a compare register for
each output. Crank edges start, move and recover the queues; the compare switches
the output and interrupts; a handler of a lower level writes the next event. Correct
when no coil is left charging and no injector open.

**Analogue conversions** (Peripherals/PERADC.c, ADCHA.c). Queues triggered by system calls,
one converter, its interrupt, and a guard that frees it when it hangs. Correct when a
result reaches the client it was converted for and no queue waits for ever.

**Non-volatile memory** (Peripherals/FEE.c, FEEHA.c, CRC16.c; Client/USERCAL.c). The working page, its
copy in flash with a checksum. Power may be lost between erase and write; the
scheduler is turned off on the way. Correct when the client never works with a torn page.

**Calibration lookup** (UserServices/spreads.c, tables.c, maps.c). Pure calculations
over control blocks: a spread is searched by bisection, and a table or map interpolated
between the breakpoints found. The ends of the spread, equality, wide cells, signs,
halved data, termination.

**Diagnostic services** (UDSAL.c), **system calls** and **resource ownership** (SYSAPI.c,
resm.c), **closed-loop control** (CTRL.c), **serial transfers** (SRLTFR.c) and the **drivers**: section 6.

Of the forty hazards in `PROJECT.json`, seven have no property, because the code gives
way there and no line of the repository says it would not; each has a note, and so have those
that their properties cover in part. They are taken up in section 5.

## 2. The modules

A module `MCX` gives a component values for TLC, with one `.cfg` for each run. A definition
marked "a mutant" is a plausible mistake in the code, defined just before the
definition it is a mistake of; each property is known to fail when one of them takes
its place.

| module | of | composed with |
| --- | --- | --- |
| `TaskScheduler` | scheduler, dispatcher, tick | implements `CooperativeKernel` |
| `TickTiming` | the scheduler under ticks that land anywhere or only outside the hand-over | extends `TaskScheduler` |
| `PrioritiseQueue` | the sort of the start queue | extended by `ClientStart` |
| `ClientStart` | `OS_vStart`, `USER_vStart`, what `OS_vSchedule` makes of it | |
| `ClientCallback` | callback ring and its producers | implements `CallbackFifo` |
| `DiagnosticReceive` | reception of requests, the timer and its alarm | |
| `DataLink` | rings, work buffers, `DLL_vRun` | implements `FrameQueue` |
| `CrankDecoder` | CEM.c with the missing-tooth timer of TEPM.c | |
| `OutputEvents` | two outputs of one timer | |
| `ConversionQueue` | triggered conversions | |
| `WorkingPage` | the calibration in RAM and flash | implements `CalibrationStore` |
| `SpreadSearch` | `SPREAD_vCalculate` | extended by `TableLookup` |
| `TableLookup` | `TABLE_vCalculate`, `MAP_vCalculate` | |
| `TaskSchedulerProofs` | theorems about `TaskScheduler`, `TickTiming` | |
| `ClientStartProofs` | about `PrioritiseQueue`, `ClientStart` | |
| `ClientCallbackProofs` | about `ClientCallback`, and the converter that posts, `ConversionQueue` | |
| `DiagnosticReceiveProofs`, `DataLinkProofs`, `CrankDecoderProofs` | about the module of that name | |
| `WorkingPageProofs` | about `WorkingPage`, and the outputs that end before a save, `OutputEvents` | |
| `SpreadSearchProofs` | about `SpreadSearch`, `TableLookup` | |

### TaskScheduler, implementing CooperativeKernel

| module | source |
| --- | --- |
| `queue`, `threadQ`, `saved` | the cyclic queues and the thread queue of `OS_apstTaskQueue`, `tTaskStackPointer` |
| `LoadQueue` .. `EndQueue` | `run_cooperative_task_queue`, for the kernel queue and then the client's; `p`, `save_p` are its locals |
| `LoadThread` | `run_thread_task_queue` |
| `TickStartsOS`, `TickOverruns`, `TickDisabled`, `TickSchedules` | the branches of `SysTick_Handler` |
| `ScheduleTask`, `ScheduleClients` | the loops of `OS_vSchedule`, one turn each |
| `SuspendThread` | `IRQ_vSuspendThread` and the return into `OS_vBackgroundDispatcher` |
| `DisableRTOS` | `IRQ_boEnableRTOS` set FALSE on the way to a flash write, and never TRUE again |

A linked list is the sequence of its nodes. The tick may come between any two
steps of the dispatcher, and the handler's own steps exclude the dispatcher's.
When a thread is loaded whose saved context is the dispatcher's own, what runs
is undefined: the model goes to `pc = "lost"` and stops following the core.
`TickTiming` chooses once, in the first state, whether the ticks of a behaviour are
timely, that is, never come between the end of the last cyclic task and the load of
the thread.
`CooperativeKernel` says the same without queues, locals or interrupts.

### PrioritiseQueue and ClientStart

One action for each turn of the loops of `OS_vPrioritiseQueue`. `next` holds the
links, and the head pointer is a node of its own, as in the code, which casts its
address to a node. `ClientStart` goes on where the sort ends: `RunKernelStart`
runs the sorted queue; when the task that calls `CLIENT_vStart` is run,
`RegisterModule` and `NextLoop` are the turns of the three loops of `USER_vStart`,
system call and `OS_enAddTaskToQueue` included; `RunClientStart` is the client's start
queue, and `Schedule` the client loop of `OS_vSchedule` at a tick every rate divides.
Which modules have start and run functions, the number and priorities of the
kernel's start tasks and the place of `CLIENT_vStart` among them are free.

### ClientCallback, implementing CallbackFifo

The active interrupt handlers are a stack, `handlers`; each is at one of the four
steps of `CLIENT_enEnqueueCB`. `ConversionDone`, `OutputEvent` and `WriteRequest` are
the posts of the converter, the timers and the diagnostic write service, and
`Dispatch` .. `RemoveItem` the steps of `CLIENT_vRunUserCBQueue`, which runs only when
no handler does. `CallbackFifo` is a bounded FIFO that does not keep a message for
ever.

### DiagnosticReceive

`ReceiveUnsegmented` .. `ReceiveNextIgnored` are the branches of `UDSNL_vReceiveFrame`,
`CheckActiveResource` the lock on the channel being served, `Tick` is `TIMER_vRun`
with its only alarm. The testers are the environment: they begin messages at any
time, repeat frames, lose them, give up. CAN interrupts and the tick have one
level, so a frame is received in one step. The contents of a buffer are the
sequence of the parts copied into it, a part being known by its tester and its
number.

### DataLink, implementing FrameQueue

`ReceiveFrame` is the CAN interrupt that answers a request
(`DLL_vFrameRXCB`), `QueueCANMessage` a client's frame, and `Start` ..
`ReleaseBuffer` the steps of `DLL_vRun`, between any two of which interrupts come.
A byte is known by its frame, the frame's length and its place in it, so a
torn or mixed frame is seen. The buffers' release scans in strides of
`ScanBytes`, as the code does. `FrameQueue` is a bounded FIFO of whole frames for each
channel.

### CrankDecoder

The engine is a wheel at a place, turning at a speed of a small set; `Edge` and
its variants are the handler of a crank edge (`CEM_vEdgeEventCB` and what it calls), told
the time since the edge before. `LostEdge`, `FalseEdge`, `CrankEdgeWrongCam`,
`RejectedEdge` are the disturbances, each of a bounded number; `MissingTooth`,
`HeldUp`, `MissingToothLate` the timer that counts the teeth of the gap, `CEM_vRun`
the cyclic task that finds the engine standing. The angle is a fraction of
0x10000 for each revolution, as in the code. The origins since the start are counted
to 9, which is as far as the code distinguishes them in what is modelled. `CEM_vRun`'s
three writes (CEM.c 93-95) are one step: an edge between them would leave at most one origin
counted, and the edges that must come before decoding resumes pass the gap before they
could count a second. An increment of the tooth counter that the timer's handler tears
(TEPM.c 422) has the outcome of the two handlers in the other order, which is `HeldUp`. `clean` and
`calm` count the edges without a disturbance and the revolutions in which the
cam was read rightly: the properties speak of them, no action does.
`CalibrationsAssumption` says of each calibration that it is `WellCalibrated`: one group of
missing teeth, not in front of the first edge; edges in their order; speeds that
change less between two edges than a gap amounts to; and that the
unsigned index in front of edge 0, `(0 - 1) % n`, hits a gap as large as the one meant
or larger by one, which is true of the default calibration and which nothing in the
code sees to.

### OutputEvents

Two outputs of one timer. The handlers of crank edges (level 3) are one step; the
interrupt handler of the timer (level 15) handles the first channel in one piece and the
second step by step, since the queue macro leaves the critical section the handler
entered. A compare is the hardware's step: the output is switched, the flag set. Time
is abstracted to the order of events: a compare may come at any moment after it
was written. An output's events are scheduled by time, to teeth, or the first to a tooth and the
second by time. `orderly` is chosen in the first state: whether the engine is one that
gives the outputs the time to end (`InTime`).

### ConversionQueue

A queue is a fixed list that is either waiting, its head moved back to 0, or at
its tail. `Trigger` is the system call and what it starts (`TriggerLatched`, when
the conversion ends meanwhile), `Converted` the end of a conversion in the hardware and
`ConversionLost` one that never ends; `InterruptHandler` hands the results over and
starts the next queue, and `RunCount` and `RunReset` are
the guard in `ADC_vRun`. `early` remembers that a reset has hit a healthy conversion.

### WorkingPage, implementing CalibrationStore

The page in RAM, the pages of the flash one by one, a checksum that fits only
the image it was made for. `PowerUp` is `FEE_vStart`, `SetWorkingData` and `Load` are `USERCAL_vStart`; a save is
`BeginSave`, `EraseAll` and `WritePage` for each page, with `PowerLoss` possible at every step.
`EraseRefused` and `WriteRefused` are the errors of the flash that nobody looks at; the controller
reports only commands it has refused, which leave the flash as it was. `Run`
is the count of runs by which the code keeps saves apart. The checksum is taken
as ideal: a page torn by a power loss has the right one of 16 bits with
probability 1/65536. The client boots within the ten seconds before the first save is
allowed; a save runs inside one interrupt, so no other request comes in
between.

### SpreadSearch and TableLookup

One call of `SPREAD_vCalculate`: `Below`, `Above`, `NotSearched` for values and types
that are not searched, the moves of the bisection, and the two steps of the
offset. The branches for the three types differ in one comparison (`IsHere`) and in
the offset. What the code does where the arithmetic leaves it undefined or
wraps is modelled as such: the `uint16` branch divides by values it never read, so
its offset is any; the branches that take the next breakpoint for the end of
the cell store a whole cell, which does not fit 16 bits, as 0. `TableLookup` goes on with
the cell and the offset: the loop that halves data until they fit, the weighted sum in the
unsigned arithmetic of the code, for each type of data, and for a map
the four corners. Widths are scaled from 16 bits to 4.

## 3. What the runs check

Every property is explained, and tied to the code, where it is defined.

| run | properties | bounds |
| --- | --- | --- |
| `scheduler` | `QueuesDescending`, `ScheduleReleasesDue`, `ImplementsCooperative`; with timely ticks `ContextsIntactIfTimely`, `ReleasedTaskRunsIfTimely`, `ThreadsRoundRobinIfTimely` | kernel tasks at 1 and 2 ms, client tasks at 3 and 1 ms, two threads, a counter that stops at 7 |
| `scheduler_handover` | `ContextsIntact`, violated | the same, ticks anywhere |
| `startup` | `ReleasesCyclicTasks`, `StartedInOrder`, `StartsThenSchedules` | up to 4 kernel start tasks, 3 priorities; every table of 2 modules, a pool of 3 |
| `callback` | `WriteDataKept`, `ImplementsFifo` | ring of 4; producers of one level |
| `callback_nested` | `ImplementsFifo`, violated | ring of 4; converter above timers |
| `receive` | `LockHasAlarm`, `RequestWhole`, `BlockWhole`, `OneTester`, `LockReleased` | 2 testers, see below |
| `datalink` | `FirstBufferReturns`, `ImplementsQueues`, `QueuesMove` | 2 channels, 2 buffers, frames of 2 units, ring of 5 |
| `crank` | `Locked`, `PhaseRight`, `SequencesInPlace`, `StartsInStep`, `ToothRight`, `SequencesGoOn` | 4 calibrations, see below |
| `outputs` | `EndAheadIfOrderly`, `DisabledLow`, `OutputFalls` | 3 pairs of kinds, 4 edges a cycle |
| `conversions` | `ResultsOwn`, `EachServed` | 3 queues, the guard's limit of 5 |
| `working_page` | `LoadsWhole`, `SavesOnce`, `ImplementsStore` | 3 pages, 2 contents, saves 2 runs apart |
| `spread` | `ReadsInside`, `Located`, `OffsetIsFraction`, `TableBetween`, `TableExact`, `MapInterpolates`, `Terminates` | spreads of 2 to 17 breakpoints, scale 16 |

### Why the bounds are enough

- *Scheduler.* The rates 1, 2 and 3 give ticks at which any subset that differs
  between the pools is due; a counter of 7 passes their common period once and
  then stops, which the code's stops too, at 0xffffffff. Two tasks in each pool
  give a list with a head and a rest, two threads the two `OS_vStart` creates. The
  theorems of section 4 cover all other values. Whether a behaviour's ticks
  are timely is chosen once, in its first state, so that one run asks both questions.
- *Start-up.* Four nodes give the head pointer as predecessor, a node as
  predecessor, exchanges in a row, and equal priorities around unequal ones. Two modules make
  up to 6 registrations against 3 nodes, so the pool fills among the cyclic
  tasks, among the terminate tasks or not at all.
- *Callbacks.* A ring of 4 wraps, fills and refuses.
- *Reception.* Requests of 14 and 22 bytes: one fits the small buffer (scaled to 20
  bytes) and one does not, and both need two or more consecutive frames. A block of
  27 bytes has as many consecutive frames as there are sequence numbers, three, so
  that the number wraps; two in a row may be lost. (With a loss as long as the
  sequence a block could be completed with frames missing, and the code could not
  tell.) A timeout of 2 ticks and a counter of 3 values make alarms be set across the
  wrap. The bytes in a frame are the code's own, 6 in a first and 7 in a consecutive
  one. Byte counts wrap at 32 instead of 256, above the small buffer as in the code.
- *Data link.* A ring of 5 units holds two frames of 2 and one unit stays free. As 5
  is odd, frames start at every place in turn, and the ring's end cuts one in two
  on every other round; the stride and the buffer size are the source's own 24 and
  256. Two frames on the first channel tell the order,
  one on the second tells channels apart.
- *Crank.* Wheels of twelve with one tooth missing, of twelve with two, and of
  sixteen with two and the second trigger type; one lost, false or rejected edge at any place, a
  change of speed, a restart, or four wrong readings of the cam. A decoder
  is back in step after twice the edges of the wheel without a disturbance, and TLC
  finds one edge less too few. Its teeth are right after three times the edges: a match
  that was set too far ahead is replaced only in front of the next gap. The angle is right after
  twelve revolutions: three to be in step for a whole one, up to eight until errors
  decay, which they do only at every eighth origin, and one for the sequences to begin
  anew. The instances are right after nine, since their errors are few; the proof
  needs twelve, for any number.
- *Outputs.* One output by time beside one of each kind, and origins that are the same
  or half a cycle apart: every order of edge, compare and handler step occurs. An engine
  is orderly when no edge that starts a queue finds it at its end, or the
  first output's anywhere but at its beginning; two outputs by time are also checked on
  engines that are not.
- *Conversions.* The queues the clients trigger (lambda probes 1, sensors 2 and 4), and the
  limit of the source.
- *Working page.* With three pages a power loss falls before, between and after the writes
  of pages and the write of the checksum. Two contents tell an old page from a new one.
- *Lookups.* Clients use 11 and 17 breakpoints; every size up to 17 is checked, with
  cells narrower than the scale, as wide and wider, and with every value in and
  around them. `Terminates` does not hold from 18 breakpoints on (the bisection
  comes back to a pair of places it has been at); no code refuses such a spread. Data
  lie below, at and above the limit from which they are halved.

`CHECK_DEADLOCK FALSE` is set where the system really stops: the one-shot routines
(`startup`, `spread`) at their end, and the scheduler once control is lost.

### Fairness

- *Scheduler:* weak fairness of the dispatcher, the tick and the handler: the core
  runs, the SysTick is periodic, and the handler is not left before its end. Timely
  ticks do not come between the end of the last cyclic task and the load of the
  thread, which is what the comments in `SysTick_Handler` take for granted.
- *ClientCallback:* a handler runs to its end (weak, for each), and the interrupts,
  however many, leave the dispatcher time (strong, as handlers disable its steps
  again and again while it still gets on: interrupts come from converters and
  timers with a period).
- *DataLink:* weak fairness of `DLL_vRun`, a cyclic task; an interrupt is one step here.
- *DiagnosticReceive:* weak fairness of the tick.
- *CrankDecoder:* the engine turns (weak, an edge) and the timer of the missing teeth
  comes to its end (weak).
- *OutputEvents:* the crank turns and the counter counts (weak, for edge and compare); the handler
  once begun goes on (weak); and it is served in the long run before the next edge
  moves the compare again (strong), which its priority makes likely and nothing certain.
- *ConversionQueue:* the interrupt is taken (weak); the guard's task runs (strong, its two
  branches disable one another); each queue is triggered again and again, its clients being cyclic tasks, and of
  the conversions of a queue not all are lost (strong): a converter that never
  completes again serves nobody.
- *ClientStart, SpreadSearch:* weak fairness of the next step of sequential code.
- *WorkingPage* has safety properties only.

## 4. What is proved

In the eight modules of proofs, for all values of the constants that satisfy the named
assumptions: every invariant and action property of section 3 that holds, and the
refinements. The theorems a reader should know of are listed in `PROJECT.json`; each of the
others is a lemma of theirs.

**Scheduler** (from `PoolAssumption`, `ThreadAssumption`, `TickAssumption`: any pools
and rates, at least two threads). `TypeCorrect`, `QueuesStayDescending`,
`LocalsStayMatched`, `ThreadsStayInRing`, `ReleasedTasksComplete`, `SchedulesAreComplete`,
`TimelyContextsIntact` and `SchedulerImplementsCooperative`.
That no node is linked twice is not inductive by itself: a push keeps the order
only if the queue held just the earlier nodes of this schedule, and a
write-back of the dispatcher's local keeps it only if the local is still the rest
of the queue. The inductive invariant is therefore the conjunction of `TypeOK`,
`QueuesDescending`, `LocalsMatchQueue` and `ScheduledSoFar`. The action properties
and the refinement follow from it step by step. `ContextsIntactIfTimely` is about `EitherSpec`, in
which the ticks are timely or not: where they are, a context is the
dispatcher's only while no thread runs.

**Start order and client registration** (from the assumptions of `PrioritiseQueue` and `CountsAssumption`: any
number of kernel start tasks and priorities, any number of modules, any table, any pool).
`StartsInOrder`: the start tasks run by priority, and the modules in the reverse of
their table. The sort is in place over links, and no variable holds the line of nodes
they spell out: the invariant says there is one, in which tasks of one priority keep
their order, the places behind the outer loop's have their tasks, and the three pointers are neighbours,
the middle one at the largest priority the pass has seen. An exchange swaps two neighbours
of the line.
`NoneStartsLate`: once `OS_vSchedule` has taken over, the modules started are exactly
those with a start task in the pool, the half of `StartsThenSchedules` that needs no
fairness: the start queue is run to its end before `stage` is `"scheduled"`.
`CyclicTasksReleased`: the two counts `OS_vSchedule` uses name exactly the cyclic tasks. The
invariant is that the pool lies in the order of the loops, and the counts say where
each kind ends. It asks nothing of the order in which the kernel's start tasks run, and so
holds whatever the sort does. `EveryModuleRegistered`: where the pool has room for two tasks of
each module (the source's has 35 for 16), no module with a cyclic task is left out.

**Callbacks** (from `ProducerAssumption`, `QueueSizeAssumption` and `OneLevelEach`: in each setup all
enabled interrupts have one level). `WriteDataIsKept`, and `RingIsFifo`, the
safety half of `ImplementsFifo`. The invariant says that at most one handler is active, that
it has found a place nobody takes from it, that the dispatcher has the message at the head in
hand, and that a write is in one handler, or once in the ring, or nowhere. `OneLevelEach` is
what `callback_nested` shows to be needed.

**Reception** (from the assumptions of `DiagnosticReceive`: any testers, traffic, lengths, losses, any
timeout shorter than the counter). `LockAlwaysHasAlarm`: channel and alarm go together and
the alarm is never further away than the timeout, across the wrap of the counter.
`RequestOfOneTester`: the parts in the small buffer are of the tester that holds
the lock, until the lock expires. `RequestsWhole` and `BlocksWhole` (with `BufferAssumption`: the small
buffer is shorter than a byte counts, there is more than one sequence number; and
`TrackAssumption`: a tester's parts are numbered as far as its messages need). The
invariant relates the count of bytes and the next sequence number to the parts in
the buffer: of a request nothing happened to, they are all that were sent so far; of a block
they rise, and there are as many as were counted, so that one which ends with the right
number has them all. A loss as long as the sequence would break it, and `TrafficAssumption`
excludes that one.

**Data link** (from `SizeAssumption` and `StrideAssumption`: any number of
channels and buffers, any ring, a release that scans in strides not longer than
the buffers). `TypeCorrect`: indices stay in range and the counts of queued and
free bytes, unsigned in the code, never wrap. `RunNeverWithoutBuffer`:
`FirstBufferReturns`, though the second buffer never comes back. The invariant adds
`FindsFirst`: while `DLL_vRun` looks for a buffer the first one is free, since the
interrupts that come meanwhile give theirs back before they end.
`FramesInOrder` is the refinement, `FullAnswers => (Spec => ImplementsQueues)`: where the
answers have full length (shorter ones break it, section 5), the bytes between head and
tail are those of whole frames in their order, cut where the ring ends, and the work buffer
has the frame that was taken last. Every step maps to a step of `FrameQueue` or to
none. `NothingAssumption` keeps the mark for "no frame" apart from the frames.

**Crank and cam** (from `CalibrationsAssumption`: any wheel, speeds, number of disturbances; calibrations as in section 2).
`InStepAfterTwoRevolutions`, `NothingStartsOutOfStep`, `TeethRunInPlace`, `AngleIsTheEngines`
and `SequencesAreInPlace`. None of the five is inductive, as the
decoder keeps no record of what it has recovered from. The invariant counts for it, from the last
disturbance, in three layers. `Lock`: two edges on, the time measured is that of a whole gap, and so
the missing teeth are recognised, and nothing else is taken for them; once the wheel has turned, passing them
brings the edge counter into step; and after a start at most one origin is seen before.
`Teeth`: a timer armed in step ends within the gap, and behind it the teeth are right; one
armed before may run into the third revolution. `Phase`: in step from an origin to the next, the cam is
read at its edge and the angle is the edge's, in one of the two revolutions. Which one is
settled at the origins (`Converges`): either the revolution is right, or fewer errors are counted than
swap it and the next decisions do, or five are kept and forgotten at the next
multiple of eight. The sequence counter follows.

**Outputs** (from `KindsAssumption`: any kinds of both outputs). `EndStaysAhead`, on an orderly
engine, with the sequences disabled at any time. The invariant says where the first
output's queue and its compare stand to one another: low with nothing to come at the beginning;
behind the first event a compare to come or to be seen; behind the second the compare
that clears, or that one just seen. So the handler can never take the flag of one event for
that of the other, and no step of the second output, in the handler or at an edge, touches
the first.

**Conversions** (from `ConversionAssumption`: any finite set of queues, any limit). `ResultsAreOwn`.
The invariant follows a conversion from its start to its interrupt: unless a reset
came too early, the queue in the converter, and then the one in its registers, is the
active one, still waits, and keeps the converter busy.

**Working page** (from the assumptions of `WorkingPage`: any number of pages and values). `Implements` (the
refinement of `CalibrationStore`), `NeverTorn`, `SavedOnce`, `TypeCorrect`. The invariant says that
a checksum in flash was computed over a whole image, that while a save is under way
the page in RAM is the one its checksum was computed over, and that the pages already written are
copies. Behind an erase that was refused the old checksum is still there, over pages of which
some are new: it fits one image only, so that what power-up would bring back is that image or none.

**Spread search** (from `ScaleAssumption`, `SourcesAssumption`, `SpreadsAssumption`: any
rising spread of two or more breakpoints, any value, any scale). `TypeCorrect`,
`NeverReadsOutside`, `FindsTheCell`, `FindsTheFraction`. The invariant says that a search
still going on has the value within the spread and both places inside it, so that
it never moves beyond an end (`SearchedBetween`); which cell a found place stands
for (`FoundCell`); and what the measured width and increment are (`Measured`). These
are the results for spreads of any size: only that the search ends is limited to
the sizes in use.

**Tables and maps** (with `WidthAssumption`: scales of 3 to 18 bits, the source's 16 among them;
`TablesAssumption`, `MapsAssumption`: data of every value of their type). `TablesStayBetween`,
`TablesAreExact`, `MapsAreMeans`. The invariant adds what a search that ended early
says of the value (`EndOfSpread`), and that on a breakpoint the offset is 0 (`StartOfCell`). The
rest is arithmetic: the number the data are halved by is the least power that brings
both ends of the cell below the limit, the unsigned product of a halved negative number and a
weight is that of signed ones modulo the word, and nothing else wraps. The proof made the loss
of a map exact: two for short data, four for long.

**Only model-checked.** Liveness, and anything about `ENABLED`, is out of the prover's reach:
`ReleasedTaskRunsIfTimely`, `ThreadsRoundRobinIfTimely`, `StartsThenSchedules`, `LockReleased`,
`QueuesMove`, `SequencesGoOn`, `DisabledLow`, `OutputFalls`, `EachServed`, `Terminates` and the
liveness half of `ImplementsFifo`. `Terminates` is not true of every size either. So is
what a definition that recurs over data computes for every input.

## 5. Where the code differs from its own words

Two are runs that TLC must find violated; the quoted lines are in `PROJECT.json`.

1. `scheduler_handover`: a tick between the end of the last cyclic task and the load
   of the thread finds both queues empty and saves the dispatcher's stack pointer
   as that of the thread at the head, which later resumes an overwritten frame
   (System/IRQ.c 406).
2. `callback_nested`: the converter's interrupt preempts the timers' inside
   `CLIENT_enEnqueueCB`; both write one slot and advance the tail twice. A message
   is lost and the slot behind is run with its old contents (OS/client.c 116).

The models carry the following as the code has it, and the properties are stated
around it, since no line of the source claims more:

- *Scheduler.* A tick that finds the tasks of the last one still queued schedules nothing and
  is only counted (System/IRQ.c 381, 394): a task due at it waits its whole period again. The tick counter
  stops at 0xffffffff (KernelServices/timer.c 43), after which a task whose period does not divide that value
  is never released again (OS.c 160). `ScheduleReleasesDue` is about the ticks that do schedule.
- *Callbacks.* The branch for diagnostic writes tests the timer branch's variable
  instead of its own (OS/client.c 91): a write with no timer event before it in the same call
  is taken off the ring without its callback, and every later one is refused.
  So it is with a write whose callback finds the queue full or none installed:
  `boTransferComplete` is cleared before either is known (UDSAL.c 502) and nothing sets it again.
- *Data link.* The release of a CAN work buffer does not set `u32BufferBytes` for CAN
  (KernelServices/DLL.c 1078-1085) and looks for the buffers in the UART's strides of 24 bytes, where
  they were handed out in strides of 256: the second buffer is never released.
  Answers shorter than a frame are taken off the ring with the frame behind
  (DLL.c 401); `ImplementsQueues` is for frames of full length.
- *Reception.* Consecutive frames of a short request are appended whatever their number, and its
  length is cut to a byte (UDSNL.c 126, 104); `RequestWhole` is for shorter ones nothing
  happened to. The expiry of the lock does not end the reception under way (UDSNL.c
  223), so the next tester's frames may be appended to it; `OneTester` says so.
- *Crank.* With five running errors of the cam the decoder is meant to "Keep phase and reset"
  (CEM.c 1096), but its test `0x10000 <= fraction` is true after either revolution: every one is
  taken for the first, and the sequences 4 to 7 are not started until the errors have
  decayed. `PhaseRight` is stated after twelve right revolutions. The tooth counter
  of the engine cycle is never tied to the phase; `ToothRight` is about the wheel.
- *Outputs.* Outputs scheduled to teeth do not ask whether the sequences are disabled, so
  `DisabledLow` is about those scheduled by time. On an engine that is not orderly the second output of a timer
  may be left high, or its queue stuck behind its first event with nothing armed: the
  handler works on it with interrupts enabled, and may read the empty item behind its tail. A forced
  end clears the flag of the other output of the timer.
- *Conversions.* The guard against a stuck queue also counts conversions that are doing well, and
  may reset the converter under one; the interrupt that was on its way then hands over old
  results, or goes on behind the tail of a queue already read and posts what lies there (PERADC.c
  214-258). The head never passes the tail, which is what the model has of it. `ResultsOwn` leaves that
  case out, `EachServed` includes it.
- *Working page.* The errors of erasing and writing are ignored (FEEHA.c 236, 239): a refused
  command leaves the page as it was, and what the checksum then covers may be old, erased or a
  mixture, of which only the one that fits is taken at the next boot. The branch that saves never sets `boCopyOK`, so the tester is told that a save
  that succeeded failed; and it leaves the scheduler off, so that `SavesOnce` holds because no
  task runs any more.
- *Lookups.* The `int32` and `uint16` branches of the spread give the value of the breakpoint
  before at an exact breakpoint; in cells wider than the scale the offset may wrap to 0 just below the
  next. A table's negative 16-bit results come out one too high; maps read 16-bit data without
  their sign; the map of signed 32-bit data leaves out the columns. No client's map
  has such data, and the properties leave them out.

## 6. What is not modelled

- *Left out of modelled components.* Start tasks run before the first tick, so the
  scheduler begins after them; `OS_vSetCyclicTaskList` has no caller and the
  terminate queue is never run. The lists of pins, levels and vectors that start-up
  writes. On the data link, the USB channel (the same ring with one buffer) and the
  IIC, SPI, UART and ENET branches, which have no hardware behind them in this
  build. In reception, the USB tester, whose interrupt is the more urgent one, and the cutting
  of answers into frames, which keeps no state. In the crank decoder the
  autocorrelation mode, the Suzuki wheel, the filter of the cycle time and the frequency input.
  Of the outputs the times themselves, queues of user events and PWM. The cyclic conversion
  queue, which no client's conversion stays in. In the lookups, 32-bit overflow
  of the cells' widths, and the tables of control blocks.
- *Diagnostic services.* Only the write by identifier is an actor (`ClientCallback`). The block transfer
  ends in flash functions that erase and write nothing in this build.
- *System calls and resource ownership.* The services behind them are modelled where they
  belong. The argument block that every caller writes before the trap (Client/USER.c 114) would
  need a thread that makes system calls; the two threads of this build make none. Ownership is a
  test and set inside the SVC handler.
- *Mailboxes* (OS/MSG.c) are allocated when a channel is configured and never freed; a
  mailbox is the identity of its producer.
- *Closed-loop control* is sequential arithmetic of one control block, and *serial transfers* serve
  one client driver (MCP23S08): neither is modelled yet.
- *CAN, UART, USB drivers, pins, clocks, watchdog, DAC, time, vendor code*: register
  access without state that a property could relate. The vendor's drivers, the
  calibration tables and the parts that are not compiled (Ethernet, WiFi, disk, superseded copies)
  are most of the repository's lines.
- *Client functions*: arithmetic over calibrations. Their tasks, callbacks and frames
  are the actors of the models above.

## 7. What is left

Every invariant and action property is proved; what has no theorem is liveness.
Models: the saturated sums and the wind-up rule of CTRL.c, and the
restart of a serial transfer until its interrupt removes it. Properties: what the outputs promise on an
engine that is not orderly.

## 8. Running

In this directory:

    tlc -config TickTiming.cfg MCTickTiming
    tlapm TaskSchedulerProofs.tla

and likewise for the other runs; `PROJECT.json` pairs each `.cfg` with its module. The
longest runs, `receive`, `crank`, `outputs` and `spread`, take one to two and a half
minutes; the proofs, of which `CrankDecoderProofs` and `SpreadSearchProofs` are the longest,
some ten together.
