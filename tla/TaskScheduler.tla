--------------------------- MODULE TaskScheduler ---------------------------
(***************************************************************************)
(* The cyclic scheduler of the kernel (OS.c, OS/tqueue.c, OS/tqueueHA.c    *)
(* and SysTick_Handler in System/IRQ.c).                                   *)
(*                                                                         *)
(* Every millisecond SysTick_Handler runs.  When both cyclic queues are    *)
(* empty it releases the cyclic tasks that are due (OS_vSchedule), swaps   *)
(* out the head of the kernel thread queue (IRQ_vSuspendThread) and        *)
(* returns into OS_vBackgroundDispatcher, which runs the kernel queue,     *)
(* then the client queue, cooperatively, and then loads the thread at the  *)
(* head of the thread queue.  The handler preempts the dispatcher between  *)
(* any two of its steps, which are actions of their own here.              *)
(*                                                                         *)
(* A cyclic task is its position among the cyclic tasks of its node pool;  *)
(* a linked queue is the sequence of its tasks from the head.              *)
(***************************************************************************)
EXTENDS Integers, Sequences

CONSTANTS
  NKernel, NClient,      \* cyclic tasks in the kernel and in the client pool
  KernelRate, ClientRate,\* enTaskRateMS of each of them
  NThread,               \* threads created by OS_vStart
  TickMax                \* where OS_u32TickCounter stops: 0xffffffff in timer.c

ASSUME PoolAssumption ==
  /\ NKernel \in Nat /\ NClient \in Nat
  /\ KernelRate \in [1..NKernel -> Nat \ {0}]
  /\ ClientRate \in [1..NClient -> Nat \ {0}]
\* IRQ_vSuspendThread reads R3 unset when the queue holds a single thread;
\* OS_vStart creates the idle thread and a dummy thread.
ASSUME ThreadAssumption == NThread \in Nat \ {0, 1}
ASSUME TickAssumption == TickMax \in Nat

VARIABLES
  tick,     \* OS_u32TickCounter
  osState,  \* OS_enOSState
  rtosOn,   \* IRQ_boEnableRTOS
  queue,    \* OS_apstTaskQueue: the two cyclic queues
  threadQ,  \* OS_apstTaskQueue[OS_enKERNELQueueThread]
  saved,    \* whose context each thread's tTaskStackPointer holds
  level, pc,\* where the core is below the handler: queue and step
  p, save_p,\* the locals of run_cooperative_task_queue
  isr, idx  \* the pool SysTick_Handler is scheduling, OS_u8SchedulerIDX

vars == <<tick, osState, rtosOn, queue, threadQ, saved, level, pc, p, save_p,
          isr, idx>>
dispatchVars == <<level, pc, p, save_p>>
tickVars == <<tick, osState>>

Level == {"kernel", "client"}
N == [l \in Level |-> IF l = "kernel" THEN NKernel ELSE NClient]
Rate == [l \in Level |-> IF l = "kernel" THEN KernelRate ELSE ClientRate]
Thread == 1..NThread
QueuedTasks(l) == {queue[l][i] : i \in 1..Len(queue[l])}
\* a mutant: only the kernel queue is looked at
KernelQueueEmpty == queue["kernel"] = <<>>
QueuesEmpty == \A l \in Level : queue[l] = <<>>
Due(l) == {t \in 1..N[l] : tick % Rate[l][t] = 0}

-----------------------------------------------------------------------------
(* OS_vStart: the client start tasks have registered the client cyclic     *)
(* tasks, each pushed on the client queue as it was registered; the idle   *)
(* thread was pushed before the dummy thread.                              *)
Init ==
  /\ tick = 0 /\ osState = "StartRequest" /\ rtosOn = TRUE
  /\ queue = [l \in Level |-> IF l = "kernel" THEN <<>>
                              ELSE [i \in 1..NClient |-> NClient + 1 - i]]
  /\ threadQ = [i \in Thread |-> NThread + 1 - i]
  /\ saved = [t \in Thread |-> "thread"]
  /\ level = "kernel" /\ pc = "load" /\ p = <<>> /\ save_p = 0
  /\ isr = "none" /\ idx = 0

-----------------------------------------------------------------------------
(* OS_vBackgroundDispatcher and run_cooperative_task_queue.                *)

Dispatch(from, to) == isr = "none" /\ pc = from /\ pc' = to

LoadQueue ==
  /\ Dispatch("load", "test")
  /\ p' = queue[level]
  /\ UNCHANGED <<tickVars, rtosOn, queue, threadQ, saved, level, save_p, isr, idx>>

StartTask ==
  /\ p # <<>>
  /\ Dispatch("test", "task")
  /\ save_p' = Head(p)
  /\ p' = Tail(p)
  /\ UNCHANGED <<tickVars, rtosOn, queue, threadQ, saved, level, isr, idx>>

\* a mutant: the task after the finished one is skipped
FinishTaskSkips ==
  /\ Dispatch("task", "inter")
  /\ queue' = [queue EXCEPT ![level] = IF p = <<>> THEN p ELSE Tail(p)]
  /\ p' = IF p = <<>> THEN p ELSE Tail(p)
  /\ UNCHANGED <<tickVars, rtosOn, threadQ, saved, level, save_p, isr, idx>>
FinishTask ==
  /\ Dispatch("task", "inter")
  /\ queue' = [queue EXCEPT ![level] = p]
  /\ UNCHANGED <<tickVars, rtosOn, threadQ, saved, level, p, save_p, isr, idx>>

(* OS_vInterCoopTasks drains the user callback queue before the next task. *)
InterTask ==
  /\ Dispatch("inter", "test")
  /\ UNCHANGED <<tickVars, rtosOn, queue, threadQ, saved, level, p, save_p, isr, idx>>

\* a mutant: the client queue is not run
EndQueueKernelOnly ==
  /\ p = <<>> /\ level' = "client" /\ Dispatch("test", "threadLoad")
  /\ UNCHANGED <<tickVars, rtosOn, queue, threadQ, saved, p, save_p, isr, idx>>
EndQueue ==
  /\ p = <<>>
  /\ \/ level = "kernel" /\ level' = "client" /\ Dispatch("test", "load")
     \/ level = "client" /\ level' = "client" /\ Dispatch("test", "threadLoad")
  /\ UNCHANGED <<tickVars, rtosOn, queue, threadQ, saved, p, save_p, isr, idx>>

(* run_thread_task_queue pops the frame at the head thread's saved stack   *)
(* pointer.  A pointer into the dispatcher's own stack names a frame that  *)
(* the restarted dispatcher has overwritten, and what runs then is         *)
(* undefined: control is lost, and the model follows the core no further.  *)
LoadThread ==
  /\ Dispatch("threadLoad",
              IF saved[Head(threadQ)] = "thread" THEN "thread" ELSE "lost")
  /\ UNCHANGED <<tickVars, rtosOn, queue, threadQ, saved, level, p, save_p, isr, idx>>

Dispatcher == LoadQueue \/ StartTask \/ FinishTask \/ InterTask \/ EndQueue \/ LoadThread

-----------------------------------------------------------------------------
(* SysTick_Handler.                                                        *)

CountTick == tick' = IF tick < TickMax THEN tick + 1 ELSE tick

TickBegins == isr = "none" /\ pc # "lost" /\ CountTick

TickStartsOS ==
  /\ TickBegins
  /\ osState = "StartRequest" /\ osState' = "Started"
  /\ UNCHANGED <<rtosOn, queue, threadQ, saved, dispatchVars, isr, idx>>

(* A cyclic queue still holds a task: OS_vOverrunTaskReport, and no call   *)
(* of OS_vSchedule.                                                        *)
TickOverruns ==
  /\ TickBegins
  /\ osState = "Started" /\ rtosOn /\ ~QueuesEmpty
  /\ UNCHANGED <<osState, rtosOn, queue, threadQ, saved, dispatchVars, isr, idx>>

TickDisabled ==
  /\ TickBegins
  /\ osState = "Started" /\ ~rtosOn
  /\ UNCHANGED <<osState, rtosOn, queue, threadQ, saved, dispatchVars, isr, idx>>

\* a mutant: an overrun tick schedules as well
TickSchedulesAlways ==
  /\ TickBegins
  /\ osState = "Started" /\ rtosOn
  /\ isr' = "kernel" /\ idx' = 1
  /\ UNCHANGED <<osState, rtosOn, queue, threadQ, saved, dispatchVars>>
TickSchedules ==
  /\ TickBegins
  /\ osState = "Started" /\ rtosOn /\ QueuesEmpty
  /\ isr' = "kernel" /\ idx' = 1
  /\ UNCHANGED <<osState, rtosOn, queue, threadQ, saved, dispatchVars>>

(* One turn of a loop of OS_vSchedule: queue_task pushes at the head.      *)
ScheduleTask ==
  /\ isr \in Level /\ idx <= N[isr]
  /\ queue' = IF idx \in Due(isr)
              THEN [queue EXCEPT ![isr] = <<idx>> \o @] ELSE queue
  /\ idx' = idx + 1
  /\ UNCHANGED <<tickVars, rtosOn, threadQ, saved, dispatchVars, isr>>

\* a mutant: the kernel loop ends one task early
ScheduleClientsEarly ==
  /\ isr = "kernel" /\ idx >= N[isr]
  /\ isr' = "client" /\ idx' = 1
  /\ UNCHANGED <<tickVars, rtosOn, queue, threadQ, saved, dispatchVars>>
ScheduleClients ==
  /\ isr = "kernel" /\ idx > N[isr]
  /\ isr' = "client" /\ idx' = 1
  /\ UNCHANGED <<tickVars, rtosOn, queue, threadQ, saved, dispatchVars>>

(* IRQ_vSuspendThread: the head thread goes to the end of the queue, the   *)
(* interrupted stack pointer becomes its saved one, and the handler        *)
(* returns into OS_vBackgroundDispatcher.                                  *)
\* a mutant: the queue is not rotated
SuspendThreadStays ==
  /\ isr = "client" /\ idx > N[isr]
  /\ saved' = [saved EXCEPT ![Head(threadQ)] =
                 IF pc = "thread" THEN "thread" ELSE "dispatcher"]
  /\ level' = "kernel" /\ pc' = "load" /\ p' = <<>> /\ save_p' = 0
  /\ isr' = "none" /\ idx' = 0
  /\ UNCHANGED <<tickVars, rtosOn, queue, threadQ>>
SuspendThread ==
  /\ isr = "client" /\ idx > N[isr]
  /\ threadQ' = Append(Tail(threadQ), Head(threadQ))
  /\ saved' = [saved EXCEPT ![Head(threadQ)] =
                 IF pc = "thread" THEN "thread" ELSE "dispatcher"]
  /\ level' = "kernel" /\ pc' = "load" /\ p' = <<>> /\ save_p' = 0
  /\ isr' = "none" /\ idx' = 0
  /\ UNCHANGED <<tickVars, rtosOn, queue>>

Tick == TickStartsOS \/ TickOverruns \/ TickDisabled \/ TickSchedules
Handler == ScheduleTask \/ ScheduleClients \/ SuspendThread

(* FEEHA_boNVMWorkingCopy, called from a client task or from a comms       *)
(* interrupt, which preempts SysTick; nothing ever passes TRUE again.      *)
DisableRTOS ==
  /\ rtosOn /\ pc # "lost"
  /\ rtosOn' = FALSE
  /\ UNCHANGED <<tickVars, queue, threadQ, saved, dispatchVars, isr, idx>>

Next == Dispatcher \/ Tick \/ Handler \/ DisableRTOS

Spec == Init /\ [][Next]_vars

-----------------------------------------------------------------------------
(* The timing the handler relies on: a tick never lands between the end of *)
(* the last cyclic task and the load of the thread.                        *)
Handover == pc # "thread" /\ QueuesEmpty
TimelyTick == Tick /\ ~(osState = "Started" /\ rtosOn /\ Handover)
TimelyNext == Dispatcher \/ TimelyTick \/ Handler \/ DisableRTOS

-----------------------------------------------------------------------------
TypeOK ==
  /\ tick \in 0..TickMax
  /\ osState \in {"StartRequest", "Started"} /\ rtosOn \in BOOLEAN
  /\ queue \in [Level -> Seq(Nat)] /\ p \in Seq(Nat) /\ save_p \in Nat
  /\ threadQ \in Seq(Thread) /\ Len(threadQ) = NThread
  /\ saved \in [Thread -> {"thread", "dispatcher"}]
  /\ level \in Level
  /\ pc \in {"load", "test", "task", "inter", "threadLoad", "thread", "lost"}
  /\ isr \in Level \cup {"none"} /\ idx \in Nat

(* A queue holds each cyclic task of its pool at most once, last pool      *)
(* position first, whatever tick interrupts the dispatcher: queue_task     *)
(* never links a node that is still linked, which would close a cycle in   *)
(* the list.                                                               *)
Descending(s, n) ==
  /\ \A i \in 1..Len(s) : s[i] \in 1..n
  /\ \A i, j \in 1..Len(s) : i < j => s[i] > s[j]
QueuesDescending == \A l \in Level : Descending(queue[l], N[l])

(* The locals the dispatcher will write back agree with the queues, however*)
(* long it was interrupted: nothing is pushed behind its back, and the     *)
(* client queue is only reached once the kernel queue is empty.            *)
LocalsMatchQueue ==
  isr = "none" =>
    /\ pc = "task" => queue[level] = <<save_p>> \o p
    /\ pc \in {"test", "inter"} => queue[level] = p
    /\ level = "client" => queue["kernel"] = <<>>
    /\ pc \in {"threadLoad", "thread", "lost"} => level = "client" /\ QueuesEmpty

(* Inside the handler no task was interrupted, and the queues hold the due *)
(* tasks of the pool positions already passed.                             *)
ScheduledSoFar ==
  /\ isr # "none" => pc \notin {"task", "lost"} /\ idx > 0
  /\ isr = "kernel" => /\ QueuedTasks("kernel") = {t \in Due("kernel") : t < idx}
                       /\ queue["client"] = <<>>
  /\ isr = "client" => /\ QueuedTasks("kernel") = Due("kernel")
                       /\ QueuedTasks("client") = {t \in Due("client") : t < idx}

(* Suspending threads rotates the thread queue and never drops or          *)
(* duplicates a thread.                                                    *)
ThreadRing == \A t \in Thread : \E i \in Thread : threadQ[i] = t

(* A released task leaves its queue only by being run to completion.       *)
LeavesByFinishing ==
  \A l \in Level : \A t \in QueuedTasks(l) :
    t \notin {queue'[l][i] : i \in 1..Len(queue'[l])} =>
      pc = "task" /\ level = l /\ save_p = t
ReleasedUntilRun == [][LeavesByFinishing]_vars

(* When the handler hands over to the dispatcher, exactly the tasks due at *)
(* this tick are queued, in both pools.                                    *)
ScheduleReleasesDue ==
  [][SuspendThread => \A l \in Level : QueuedTasks(l) = Due(l)]_vars

(* The scheduler implements the cooperative kernel.                        *)
Tasks(l) == {<<l, t>> : t \in 1..N[l]}
Ready == IF isr # "none" THEN {}
         ELSE {<<"kernel", t>> : t \in QueuedTasks("kernel")}
                \cup {<<"client", t>> : t \in QueuedTasks("client")}
Cooperative == INSTANCE CooperativeKernel WITH
  KernelTask <- Tasks("kernel"), ClientTask <- Tasks("client"),
  ready <- Ready,
  running <- IF pc = "task" THEN {<<level, save_p>>} ELSE {},
  thread <- pc = "thread"
ImplementsCooperative == Cooperative!Spec

(* Every saved stack pointer is that thread's own: IRQ.c swaps out a       *)
(* thread only when one was running.                                       *)
ContextsIntact == \A t \in Thread : saved[t] = "thread"
=============================================================================
