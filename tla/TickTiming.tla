----------------------------- MODULE TickTiming -----------------------------
(* The scheduler under ticks that land anywhere and under ticks that never *)
(* land in the hand-over, side by side: what it promises in both cases and *)
(* what it promises only in the second.                                    *)
EXTENDS TaskScheduler

VARIABLE timely   \* no tick of this behaviour lands in the hand-over

EitherInit == Init /\ timely \in BOOLEAN
EitherNext == UNCHANGED timely /\ (TimelyNext \/ (~timely /\ Tick))
EitherSpec ==
  EitherInit /\ [][EitherNext]_<<vars, timely>>
    /\ WF_vars(Dispatcher) /\ WF_vars(TimelyTick) /\ WF_vars(Handler)

(* With timely ticks every saved stack pointer is that thread's own: the   *)
(* tick swaps out a thread only when one was running (IRQ.c:398-409).      *)
ContextsIntactIfTimely == timely => ContextsIntact

(* With timely ticks a task that was released is eventually run.           *)
ReleasedTaskRunsIfTimely ==
  \A l \in Level : \A t \in 1..N[l] :
    (timely /\ isr = "none" /\ t \in QueuedTasks(l)) ~>
      (pc = "task" /\ level = l /\ save_p = t)

(* With timely ticks the threads are invoked round robin for as long as    *)
(* the scheduler is enabled.                                               *)
ThreadsRoundRobinIfTimely ==
  \A t \in Thread :
    ([]<>(pc = "thread" /\ Head(threadQ) = t)) \/ <>(~rtosOn \/ ~timely)
=============================================================================
