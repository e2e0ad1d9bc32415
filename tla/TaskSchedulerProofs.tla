------------------------ MODULE TaskSchedulerProofs ------------------------
(* Proofs about TaskScheduler for every pool, rate, number of threads and  *)
(* tick limit.                                                             *)
EXTENDS TickTiming, TLAPS

LEMMA PushDescending ==
  ASSUME NEW s \in Seq(Nat), NEW n \in Nat, NEW x \in 1..n, Descending(s, n),
         \A i \in 1..Len(s) : s[i] < x
  PROVE  Descending(<<x>> \o s, n)
<1>1. /\ <<x>> \o s \in Seq(Nat) /\ Len(<<x>> \o s) = Len(s) + 1
      /\ (<<x>> \o s)[1] = x
      /\ \A i \in 2..(Len(s) + 1) : (<<x>> \o s)[i] = s[i - 1]
  OBVIOUS
<1>2. ASSUME NEW i \in 1..(Len(s) + 1)
      PROVE  i = 1 \/ (i - 1 \in 1..Len(s) /\ i \in 2..(Len(s) + 1))
  OBVIOUS
<1>3. \A i \in 1..(Len(s) + 1) : (<<x>> \o s)[i] \in 1..n
  BY <1>1, <1>2 DEF Descending
<1>4. ASSUME NEW i \in 1..(Len(s) + 1), NEW j \in 1..(Len(s) + 1), i < j
      PROVE  (<<x>> \o s)[i] > (<<x>> \o s)[j]
  <2>1. j - 1 \in 1..Len(s) /\ j \in 2..(Len(s) + 1) /\ (<<x>> \o s)[j] = s[j - 1]
    BY <1>1, <1>4
  <2>2. s[j - 1] \in 1..n
    BY <2>1 DEF Descending
  <2>3. CASE i = 1
    BY <1>1, <2>1, <2>2, <2>3
  <2>4. CASE i # 1
    <3>1. i - 1 \in 1..Len(s) /\ (<<x>> \o s)[i] = s[i - 1] /\ i - 1 < j - 1
      BY <1>1, <1>4, <2>4
    <3>2. QED
      BY <2>1, <3>1 DEF Descending
  <2>5. QED
    BY <2>3, <2>4
<1>5. QED
  BY <1>1, <1>3, <1>4 DEF Descending

LEMMA TailDescending ==
  ASSUME NEW s \in Seq(Nat), NEW n \in Nat, s # <<>>, Descending(s, n)
  PROVE  /\ Tail(s) \in Seq(Nat) /\ Descending(Tail(s), n)
         /\ Head(s) \in 1..n
         /\ s = <<Head(s)>> \o Tail(s)
         /\ \A i \in 1..Len(Tail(s)) : Tail(s)[i] # Head(s)
  BY DEF Descending

LEMMA ConsTail ==
  ASSUME NEW s \in Seq(Nat), NEW x \in Nat
  PROVE  /\ Tail(<<x>> \o s) = s /\ Head(<<x>> \o s) = x /\ <<x>> \o s # <<>>
         /\ {(<<x>> \o s)[i] : i \in 1..Len(<<x>> \o s)} = {s[i] : i \in 1..Len(s)} \cup {x}
<1>1. /\ <<x>> \o s \in Seq(Nat) /\ Len(<<x>> \o s) = Len(s) + 1
      /\ (<<x>> \o s)[1] = x
      /\ \A i \in 1..Len(s) : (<<x>> \o s)[i + 1] = s[i]
  OBVIOUS
<1>2. Tail(<<x>> \o s) \in Seq(Nat) /\ Len(Tail(<<x>> \o s)) = Len(s)
  BY <1>1
<1>3. \A i \in 1..Len(s) : Tail(<<x>> \o s)[i] = s[i]
  BY <1>1, <1>2
<1>4. Tail(<<x>> \o s) = s
  BY <1>2, <1>3
<1>5. \A i \in 1..(Len(s) + 1) : i = 1 \/ (i - 1 \in 1..Len(s) /\ (<<x>> \o s)[i] = s[i - 1])
  BY <1>1
<1>6. Head(<<x>> \o s) = x /\ <<x>> \o s # <<>>
  BY <1>1
<1>7. ASSUME NEW i \in 1..Len(<<x>> \o s)
      PROVE  (<<x>> \o s)[i] \in {s[j] : j \in 1..Len(s)} \cup {x}
  BY <1>1, <1>5
<1>8. ASSUME NEW y \in {s[j] : j \in 1..Len(s)} \cup {x}
      PROVE  \E i \in 1..Len(<<x>> \o s) : (<<x>> \o s)[i] = y
  <2>1. CASE y = x
    BY <1>1, <2>1
  <2>2. CASE y \in {s[j] : j \in 1..Len(s)}
    <3>1. PICK j \in 1..Len(s) : y = s[j]
      BY <2>2
    <3>2. j + 1 \in 1..Len(<<x>> \o s) /\ (<<x>> \o s)[j + 1] = y
      BY <1>1, <3>1
    <3>3. QED
      BY <3>2
  <2>3. QED
    BY <2>1, <2>2
<1>9. QED
  BY <1>4, <1>6, <1>7, <1>8

LEMMA ConsTasks ==
  ASSUME NEW q, NEW s \in Seq(Nat), NEW x \in Nat, q = <<x>> \o s
  PROVE  {q[i] : i \in 1..Len(q)} = {s[i] : i \in 1..Len(s)} \cup {x}
<1>1. {(<<x>> \o s)[i] : i \in 1..Len(<<x>> \o s)} = {s[i] : i \in 1..Len(s)} \cup {x}
  BY ConsTail
<1>2. QED
  BY <1>1, Zenon

-----------------------------------------------------------------------------
(* The inductive invariant: neither LocalsMatchQueue nor QueuesDescending  *)
(* is inductive alone, a push is only known not to repeat a task because   *)
(* the queues hold earlier pool positions only.                            *)
IInv == TypeOK /\ QueuesDescending /\ LocalsMatchQueue /\ ScheduledSoFar

LEMMA Constants ==
  /\ N \in [Level -> Nat]
  /\ Rate["kernel"] \in [1..N["kernel"] -> Nat \ {0}]
  /\ Rate["client"] \in [1..N["client"] -> Nat \ {0}]
  /\ \A l \in Level : Rate[l] \in [1..N[l] -> Nat \ {0}]
  BY PoolAssumption DEF N, Rate, Level

LEMMA InitIInv == Init => IInv
<1> SUFFICES ASSUME Init PROVE IInv
  OBVIOUS
<1> USE DEF Init, Level
<1>1. queue["client"] \in Seq(Nat) /\ Len(queue["client"]) = NClient
  BY PoolAssumption
<1>2. threadQ \in Seq(Thread) /\ Len(threadQ) = NThread
  BY ThreadAssumption DEF Thread
<1>3. TypeOK
  BY <1>1, <1>2, TickAssumption DEF TypeOK
<1>4. QueuesDescending
  BY <1>1, PoolAssumption DEF QueuesDescending, Descending, N
<1>5. QED
  BY <1>3, <1>4 DEF IInv, LocalsMatchQueue, ScheduledSoFar

-----------------------------------------------------------------------------
LEMMA DispatcherIInv ==
  ASSUME IInv, Dispatcher
  PROVE  IInv'
<1> USE DEF IInv, TypeOK, LocalsMatchQueue, ScheduledSoFar, QueuesDescending,
            Dispatch, tickVars, Level, QueuedTasks, QueuesEmpty, Due
<1>1. CASE LoadQueue
  BY <1>1 DEF LoadQueue
<1>2. CASE StartTask
  <2>1. /\ Tail(p) \in Seq(Nat) /\ Head(p) \in Nat
        /\ queue[level] = <<Head(p)>> \o Tail(p)
    <3>1. p \in Seq(Nat) /\ p # <<>> /\ queue[level] = p /\ N[level] \in Nat
          /\ Descending(p, N[level])
      BY <1>2, Constants DEF StartTask
    <3>2. QED
      BY <3>1, TailDescending
  <2>2. TypeOK' /\ QueuesDescending'
    BY <1>2, <2>1 DEF StartTask
  <2>3. LocalsMatchQueue' /\ ScheduledSoFar'
    BY <1>2, <2>1 DEF StartTask
  <2>4. QED
    BY <2>2, <2>3
<1>3. CASE FinishTask
  <2>1. queue[level] = <<save_p>> \o p /\ queue[level] \in Seq(Nat)
        /\ Descending(queue[level], N[level])
    BY <1>3 DEF FinishTask
  <2>2. p = Tail(queue[level]) /\ queue[level] # <<>>
    BY <2>1, ConsTail
  <2>3. Descending(p, N[level])
    BY <2>1, <2>2, TailDescending, Constants
  <2>4. QED
    BY <1>3, <2>3 DEF FinishTask
<1>4. CASE InterTask
  BY <1>4 DEF InterTask
<1>5. CASE EndQueue
  BY <1>5 DEF EndQueue
<1>6. CASE LoadThread
  BY <1>6 DEF LoadThread
<1>7. QED
  BY <1>1, <1>2, <1>3, <1>4, <1>5, <1>6 DEF Dispatcher

LEMMA TickIInv ==
  ASSUME IInv, Tick
  PROVE  IInv'
<1> USE DEF IInv, TypeOK, LocalsMatchQueue, ScheduledSoFar, QueuesDescending,
            TickBegins, CountTick, tickVars, dispatchVars, Level, QueuedTasks,
            QueuesEmpty, Due
<1>1. tick' \in 0..TickMax
  BY TickAssumption DEF Tick, TickStartsOS, TickOverruns, TickDisabled, TickSchedules
<1>2. CASE TickStartsOS
  BY <1>1, <1>2 DEF TickStartsOS
<1>3. CASE TickOverruns
  BY <1>1, <1>3 DEF TickOverruns
<1>4. CASE TickDisabled
  BY <1>1, <1>4 DEF TickDisabled
<1>5. CASE TickSchedules
  <2>1. pc # "task" /\ pc # "lost"
    BY <1>5 DEF TickSchedules
  <2>2. queue["kernel"] = <<>> /\ queue["client"] = <<>>
    BY <1>5 DEF TickSchedules
  <2>3. QED
    BY <1>1, <1>5, <2>1, <2>2 DEF TickSchedules
<1>6. QED
  BY <1>2, <1>3, <1>4, <1>5 DEF Tick

LEMMA ScheduleTaskIInv ==
  ASSUME IInv, ScheduleTask
  PROVE  IInv'
<1> DEFINE s == queue[isr]
           D == {t \in 1..N[isr] : tick % Rate[isr][t] = 0}
<1>1. /\ isr \in Level /\ s \in Seq(Nat) /\ Descending(s, N[isr]) /\ N[isr] \in Nat
      /\ idx \in 1..N[isr]
  BY Constants DEF IInv, TypeOK, QueuesDescending, ScheduleTask, ScheduledSoFar, Level
<1>2. {s[i] : i \in 1..Len(s)} = {t \in D : t < idx}
  <2>1. CASE isr = "kernel"
    BY <2>1 DEF IInv, ScheduledSoFar, QueuedTasks, Due
  <2>2. CASE isr = "client"
    BY <2>2 DEF IInv, ScheduledSoFar, QueuedTasks, Due
  <2>3. QED
    BY <1>1, <2>1, <2>2 DEF Level
<1>3. \A i \in 1..Len(s) : s[i] < idx
  BY <1>2
<1>4. /\ queue' = [queue EXCEPT ![isr] = queue'[isr]]
      /\ queue'[isr] = IF idx \in D THEN <<idx>> \o s ELSE s
  BY <1>1 DEF ScheduleTask, IInv, TypeOK, Due
<1>5. /\ queue'[isr] \in Seq(Nat) /\ Descending(queue'[isr], N[isr])
      /\ {queue'[isr][i] : i \in 1..Len(queue'[isr])} = {t \in D : t < idx + 1}
  <2>1. CASE idx \in D
    <3>1. <<idx>> \o s \in Seq(Nat) /\ Descending(<<idx>> \o s, N[isr])
      <4> HIDE DEF s
      <4> QED
        BY <1>1, <1>3, PushDescending
    <3>2. {(<<idx>> \o s)[i] : i \in 1..Len(<<idx>> \o s)} = {t \in D : t < idx} \cup {idx}
      <4> HIDE DEF s, D
      <4>1. s \in Seq(Nat) /\ idx \in Nat
        BY <1>1
      <4>2. {(<<idx>> \o s)[i] : i \in 1..Len(<<idx>> \o s)} = {s[i] : i \in 1..Len(s)} \cup {idx}
        BY <4>1, ConsTail
      <4> QED
        BY <1>2, <4>2
    <3>3. {t \in D : t < idx} \cup {idx} = {t \in D : t < idx + 1}
      BY <1>1, <2>1
    <3>4. QED
      BY <1>4, <2>1, <3>1, <3>2, <3>3
  <2>2. CASE idx \notin D
    <3>1. {t \in D : t < idx} = {t \in D : t < idx + 1}
      BY <1>1, <2>2
    <3>2. QED
      BY <1>1, <1>2, <1>4, <2>2, <3>1
  <2>3. QED
    BY <2>1, <2>2
<1>6. TypeOK' /\ QueuesDescending'
  BY <1>1, <1>4, <1>5
  DEF IInv, TypeOK, QueuesDescending, ScheduleTask, tickVars, dispatchVars
<1>7. LocalsMatchQueue'
  BY <1>1 DEF LocalsMatchQueue, ScheduleTask, Level
<1>8. ScheduledSoFar'
  <2>1. /\ isr' = isr /\ idx' = idx + 1 /\ pc' = pc /\ tick' = tick
        /\ Due(isr)' = D /\ QueuedTasks(isr)' = {t \in D : t < idx + 1}
    BY <1>5 DEF ScheduleTask, tickVars, dispatchVars, Due, QueuedTasks
  <2>2. CASE isr = "kernel"
    <3>1. queue'["client"] = queue["client"]
      BY <1>1, <1>4, <2>2 DEF IInv, TypeOK, Level
    <3>2. QED
      BY <1>1, <2>1, <2>2, <3>1 DEF IInv, ScheduledSoFar
  <2>3. CASE isr = "client"
    <3>1. queue'["kernel"] = queue["kernel"]
      BY <1>1, <1>4, <2>3 DEF IInv, TypeOK, Level
    <3>2. QueuedTasks("kernel")' = QueuedTasks("kernel") /\ Due("kernel")' = Due("kernel")
      BY <2>1, <3>1 DEF QueuedTasks, Due
    <3>3. QED
      BY <1>1, <2>1, <2>3, <3>2 DEF IInv, ScheduledSoFar
  <2>4. QED
    BY <1>1, <2>2, <2>3 DEF Level
<1>9. QED
  BY <1>6, <1>7, <1>8 DEF IInv

LEMMA HandlerIInv ==
  ASSUME IInv, Handler
  PROVE  IInv'
<1>1. CASE ScheduleTask
  BY <1>1, ScheduleTaskIInv
<1>2. CASE ScheduleClients
  <2> USE <1>2 DEF ScheduleClients, IInv, tickVars, dispatchVars
  <2>1. TypeOK' /\ QueuesDescending' /\ LocalsMatchQueue'
    BY DEF TypeOK, QueuesDescending, LocalsMatchQueue, Level
  <2>2. /\ QueuedTasks("kernel")' = QueuedTasks("kernel") /\ Due("kernel")' = Due("kernel")
        /\ idx' = 1 /\ isr' = "client" /\ pc' = pc
    BY DEF QueuedTasks, Due
  <2>3. QueuedTasks("kernel") = Due("kernel")
    <3>1. \A t \in Due("kernel") : t < idx
      BY Constants DEF Due, TypeOK
    <3>2. QED
      BY <3>1 DEF ScheduledSoFar
  <2>4. QueuedTasks("client")' = {} /\ {t \in Due("client") : t < 1} = {}
    BY Constants DEF ScheduledSoFar, QueuedTasks, Due, Level
  <2>5. {t \in Due("client") : t < idx}' = {}
    BY <2>2, Constants DEF Due, Level
  <2>6. ScheduledSoFar'
    BY <2>2, <2>3, <2>4, <2>5 DEF ScheduledSoFar
  <2>7. QED
    BY <2>1, <2>6
<1> USE DEF IInv, TypeOK, LocalsMatchQueue, ScheduledSoFar, QueuesDescending,
            tickVars, dispatchVars, Level
<1>3. CASE SuspendThread
  <2>1. /\ Append(Tail(threadQ), Head(threadQ)) \in Seq(Thread)
        /\ Len(Append(Tail(threadQ), Head(threadQ))) = NThread
        /\ Head(threadQ) \in Thread
    BY ThreadAssumption DEF Thread
  <2>2. QED
    BY <1>3, <2>1 DEF SuspendThread, QueuedTasks, Due, QueuesEmpty
<1>4. QED
  BY <1>1, <1>2, <1>3 DEF Handler

LEMMA NextIInv == IInv /\ [Next]_vars => IInv'
<1> SUFFICES ASSUME IInv, [Next]_vars PROVE IInv'
  OBVIOUS
<1>1. CASE DisableRTOS
  <2> USE <1>1 DEF DisableRTOS, IInv, tickVars, dispatchVars
  <2>1. TypeOK' /\ QueuesDescending'
    BY DEF TypeOK, QueuesDescending
  <2>2. LocalsMatchQueue' /\ ScheduledSoFar'
    BY DEF LocalsMatchQueue, ScheduledSoFar, QueuedTasks, QueuesEmpty, Due
  <2>3. QED
    BY <2>1, <2>2
<1>2. CASE UNCHANGED vars
  <2> USE <1>2 DEF vars, IInv, tickVars, dispatchVars
  <2>1. TypeOK' /\ QueuesDescending'
    BY DEF TypeOK, QueuesDescending
  <2>2. LocalsMatchQueue' /\ ScheduledSoFar'
    BY DEF LocalsMatchQueue, ScheduledSoFar, QueuedTasks, QueuesEmpty, Due
  <2>3. QED
    BY <2>1, <2>2
<1>3. QED
  BY <1>1, <1>2, DispatcherIInv, TickIInv, HandlerIInv DEF Next

(* The inductive invariant holds throughout.                               *)
LEMMA SpecIInv == Spec => []IInv
  BY InitIInv, NextIInv, PTL DEF Spec

(* Every variable keeps its type, for every pool and tick limit.           *)
THEOREM TypeCorrect == Spec => []TypeOK
  BY SpecIInv, PTL DEF IInv

(* OS_vSchedule never queues a task that is still linked: a tick during    *)
(* the dispatcher, however late, cannot corrupt a cyclic queue.            *)
THEOREM QueuesStayDescending == Spec => []QueuesDescending
  BY SpecIInv, PTL DEF IInv

(* The dispatcher's locals and the queues agree whenever it runs.          *)
THEOREM LocalsStayMatched == Spec => []LocalsMatchQueue
  BY SpecIInv, PTL DEF IInv

-----------------------------------------------------------------------------
LEMMA RotateRing ==
  ASSUME TypeOK, ThreadRing, SuspendThread
  PROVE  ThreadRing'
<1> DEFINE q == Append(Tail(threadQ), Head(threadQ))
<1>1. /\ \A i \in 1..(NThread - 1) : q[i] = threadQ[i + 1]
      /\ q[NThread] = threadQ[1]
  BY ThreadAssumption DEF TypeOK
<1> HIDE DEF q
<1>2. ASSUME NEW t \in Thread PROVE \E i \in Thread : q[i] = t
  <2>1. PICK i \in Thread : threadQ[i] = t
    BY DEF ThreadRing
  <2>2. CASE i = 1
    BY <1>1, <2>1, <2>2, ThreadAssumption DEF Thread
  <2>3. CASE i # 1
    <3>1. i - 1 \in Thread /\ q[i - 1] = t
      BY <1>1, <2>1, <2>3, ThreadAssumption DEF Thread
    <3>2. QED
      BY <3>1
  <2>4. QED
    BY <2>2, <2>3
<1>3. QED
  BY <1>2 DEF q, ThreadRing, SuspendThread

(* No thread is ever lost from, or duplicated in, the thread queue.        *)
THEOREM ThreadsStayInRing == Spec => []ThreadRing
<1>1. Init => ThreadRing
  <2> SUFFICES ASSUME Init, NEW t \in Thread PROVE \E i \in Thread : threadQ[i] = t
    BY DEF ThreadRing
  <2>1. NThread + 1 - t \in Thread /\ threadQ[NThread + 1 - t] = t
    BY ThreadAssumption DEF Init, Thread
  <2>2. QED
    BY <2>1
<1>2. IInv /\ ThreadRing /\ [Next]_vars => ThreadRing'
  <2> SUFFICES ASSUME IInv, ThreadRing, [Next]_vars PROVE ThreadRing'
    OBVIOUS
  <2>1. CASE SuspendThread
    BY <2>1, RotateRing DEF IInv
  <2>2. CASE UNCHANGED threadQ
    BY <2>2 DEF ThreadRing
  <2>3. SuspendThread \/ UNCHANGED threadQ
    BY DEF Next, vars, Dispatcher, LoadQueue, StartTask, FinishTask, InterTask,
           EndQueue, LoadThread, Tick, TickStartsOS, TickOverruns, TickDisabled,
           TickSchedules, Handler, ScheduleTask, ScheduleClients, DisableRTOS
  <2>4. QED
    BY <2>1, <2>2, <2>3
<1>3. QED
  BY <1>1, <1>2, SpecIInv, PTL DEF Spec

-----------------------------------------------------------------------------
LEMMA FinishesHead ==
  ASSUME IInv, FinishTask, NEW l \in Level, NEW t \in QueuedTasks(l),
         t \notin QueuedTasks(l)'
  PROVE  pc = "task" /\ level = l /\ save_p = t
<1>1. /\ pc = "task" /\ level \in Level /\ p \in Seq(Nat) /\ save_p \in Nat
      /\ queue[level] = <<save_p>> \o p /\ queue' = [queue EXCEPT ![level] = p]
      /\ queue \in [Level -> Seq(Nat)]
  BY DEF IInv, TypeOK, LocalsMatchQueue, FinishTask, Dispatch
<1>2. QueuedTasks(level) = {p[i] : i \in 1..Len(p)} \cup {save_p}
  <2> DEFINE q == queue[level]
  <2>1. p \in Seq(Nat) /\ save_p \in Nat /\ q = <<save_p>> \o p
    BY <1>1
  <2> HIDE DEF q
  <2>2. {q[i] : i \in 1..Len(q)} = {p[i] : i \in 1..Len(p)} \cup {save_p}
    BY <2>1, ConsTasks
  <2>3. QED
    BY <2>2 DEF QueuedTasks, q
<1>3. l = level
  BY <1>1 DEF QueuedTasks
<1>4. QueuedTasks(l)' = {p[i] : i \in 1..Len(p)}
  BY <1>1, <1>3 DEF QueuedTasks
<1>5. QED
  BY <1>1, <1>2, <1>3, <1>4

LEMMA ScheduleKeeps ==
  ASSUME IInv, ScheduleTask, NEW l \in Level, NEW t \in QueuedTasks(l)
  PROVE  t \in QueuedTasks(l)'
<1>1. /\ queue \in [Level -> Seq(Nat)] /\ idx \in Nat /\ isr \in Level
      /\ queue' = queue \/ queue' = [queue EXCEPT ![isr] = <<idx>> \o queue[isr]]
  BY DEF IInv, TypeOK, ScheduleTask
<1>2. CASE queue' = queue \/ l # isr
  BY <1>1, <1>2 DEF QueuedTasks
<1>3. CASE l = isr /\ queue' = [queue EXCEPT ![isr] = <<idx>> \o queue[isr]]
  <2>1. queue'[l] = <<idx>> \o queue[l] /\ queue[l] \in Seq(Nat)
    BY <1>1, <1>3
  <2> DEFINE q == queue'[l]
             s == queue[l]
  <2>2. {q[i] : i \in 1..Len(q)} = {s[i] : i \in 1..Len(s)} \cup {idx}
    <3>1. q = <<idx>> \o s /\ s \in Seq(Nat) /\ idx \in Nat
      BY <1>1, <2>1
    <3> HIDE DEF q, s
    <3>2. QED
      BY <3>1, ConsTasks
  <2>3. QED
    BY <2>2 DEF QueuedTasks
<1>4. QED
  BY <1>1, <1>2, <1>3

(* A released task leaves its queue only when it has run to completion.    *)
THEOREM ReleasedTasksComplete == Spec => ReleasedUntilRun
<1>1. IInv /\ [Next]_vars => [LeavesByFinishing]_vars
  <2> SUFFICES ASSUME IInv, Next, NEW l \in Level, NEW t \in QueuedTasks(l),
                      t \notin QueuedTasks(l)'
               PROVE  pc = "task" /\ level = l /\ save_p = t
    BY DEF LeavesByFinishing, QueuedTasks
  <2>1. CASE FinishTask
    BY <2>1, FinishesHead
  <2>2. CASE ScheduleTask
    BY <2>2, ScheduleKeeps
  <2>3. CASE UNCHANGED queue
    BY <2>3 DEF QueuedTasks
  <2>4. FinishTask \/ ScheduleTask \/ UNCHANGED queue
    BY DEF Next, Dispatcher, LoadQueue, StartTask, InterTask, EndQueue, LoadThread,
           Tick, TickStartsOS, TickOverruns, TickDisabled, TickSchedules, Handler,
           ScheduleClients, SuspendThread, DisableRTOS
  <2>5. QED
    BY <2>1, <2>2, <2>3, <2>4
<1>2. QED
  BY <1>1, SpecIInv, PTL DEF Spec, ReleasedUntilRun

(* When a tick hands over to the dispatcher, exactly the due tasks are     *)
(* queued.                                                                 *)
THEOREM SchedulesAreComplete == Spec => ScheduleReleasesDue
<1>1. ASSUME IInv, SuspendThread, NEW l \in Level
      PROVE  QueuedTasks(l) = Due(l)
  <2>1. isr = "client" /\ idx > N["client"] /\ idx \in Nat /\ N["client"] \in Nat
    BY <1>1, Constants DEF SuspendThread, IInv, TypeOK, Level
  <2>2. {t \in Due("client") : t < idx} = Due("client")
    BY <2>1 DEF Due
  <2>3. QED
    BY <1>1, <2>1, <2>2 DEF IInv, ScheduledSoFar, Level
<1>2. IInv => [SuspendThread => \A l \in Level : QueuedTasks(l) = Due(l)]_vars
  BY <1>1
<1>3. QED
  BY <1>2, SpecIInv, PTL DEF Spec, ScheduleReleasesDue

-----------------------------------------------------------------------------
(* When ticks are timely the handler only ever interrupts a thread.        *)
TimelyIInv == IInv /\ ContextsIntact /\ (isr # "none" => pc = "thread")

LEMMA TimelyKeeps == TimelyIInv /\ [TimelyNext]_vars => TimelyIInv'
<1> SUFFICES ASSUME TimelyIInv, [TimelyNext]_vars PROVE TimelyIInv'
  OBVIOUS
<1>1. IInv'
  BY NextIInv DEF TimelyIInv, TimelyNext, TimelyTick, Next
<1>2. CASE Dispatcher
  BY <1>1, <1>2 DEF TimelyIInv, ContextsIntact, Dispatcher, LoadQueue, StartTask,
     FinishTask, InterTask, EndQueue, LoadThread, Dispatch
<1>3. CASE TimelyTick
  BY <1>1, <1>3 DEF TimelyIInv, ContextsIntact, TimelyTick, Tick, TickStartsOS,
     TickOverruns, TickDisabled, TickSchedules, TickBegins, dispatchVars, Handover
<1>4. CASE Handler
  BY <1>1, <1>4 DEF TimelyIInv, IInv, TypeOK, ContextsIntact, Handler, ScheduleTask,
     ScheduleClients, SuspendThread, dispatchVars, Level
<1>5. CASE DisableRTOS
  BY <1>1, <1>5 DEF TimelyIInv, ContextsIntact, DisableRTOS, dispatchVars
<1>6. CASE UNCHANGED vars
  BY <1>1, <1>6 DEF TimelyIInv, ContextsIntact, vars
<1> QED BY <1>2, <1>3, <1>4, <1>5, <1>6 DEF TimelyNext

(* While no tick lands in the hand-over, every saved stack pointer stays   *)
(* that of its thread (IRQ.c:398-409), and whatever the ticks do, the      *)
(* queues and the dispatcher's locals keep agreeing.                       *)
THEOREM TimelyContextsIntact == EitherSpec => []ContextsIntactIfTimely
<1> DEFINE Inv == IInv /\ (timely => TimelyIInv)
<1>1. EitherInit => Inv
  BY InitIInv DEF EitherInit, TimelyIInv, Init, ContextsIntact
<1>2. Inv /\ [EitherNext]_<<vars, timely>> => Inv'
  <2> SUFFICES ASSUME Inv, [EitherNext]_<<vars, timely>> PROVE Inv'
    OBVIOUS
  <2>1. [Next]_vars /\ UNCHANGED timely
    BY DEF EitherNext, TimelyNext, TimelyTick, Next
  <2>2. timely => [TimelyNext]_vars
    BY DEF EitherNext
  <2> QED BY <2>1, <2>2, NextIInv, TimelyKeeps
<1>3. Inv => ContextsIntactIfTimely
  BY DEF TimelyIInv, ContextsIntactIfTimely
<1> QED BY <1>1, <1>2, <1>3, PTL DEF EitherSpec

-----------------------------------------------------------------------------
LEMMA ReadyWhenEmpty ==
  ASSUME QueuesEmpty
  PROVE  Ready = {}
  BY DEF QueuesEmpty, Ready, QueuedTasks, Level

LEMMA ReadyIsTasks ==
  ASSUME IInv
  PROVE  Ready \in SUBSET (Tasks("kernel") \cup Tasks("client"))
<1>1. \A l \in Level : QueuedTasks(l) \subseteq 1..N[l]
  BY DEF IInv, QueuesDescending, Descending, QueuedTasks
<1>2. QED
  BY <1>1 DEF Ready, Tasks, Level

LEMMA StartRefines ==
  ASSUME IInv, StartTask
  PROVE  \E t \in Cooperative!Task : Cooperative!Start(t)
<1> DEFINE t == <<level, Head(p)>>
<1>1. /\ isr = "none" /\ pc = "test" /\ pc' = "task" /\ isr' = "none" /\ queue' = queue
      /\ level' = level /\ level \in Level /\ p \in Seq(Nat) /\ p # <<>>
      /\ save_p' = Head(p) /\ queue[level] = p
  BY DEF StartTask, Dispatch, IInv, TypeOK, LocalsMatchQueue
<1>2. Head(p) \in QueuedTasks(level)
  <2>1. Head(p) = p[1] /\ 1 \in 1..Len(p)
    BY <1>1
  <2>2. QED
    BY <1>1, <2>1 DEF QueuedTasks
<1>3. t \in Ready
  BY <1>1, <1>2 DEF Ready, Level
<1>4. t \in Tasks("kernel") \/ Ready \cap Tasks("kernel") = {}
  <2>1. CASE level = "kernel"
    <3>1. t \in Tasks("kernel") \cup Tasks("client")
      BY <1>3, ReadyIsTasks
    <3>2. QED
      BY <2>1, <3>1 DEF Tasks
  <2>2. CASE level = "client"
    <3>1. QueuedTasks("kernel") = {}
      BY <1>1, <2>2 DEF IInv, LocalsMatchQueue, QueuedTasks
    <3>2. QED
      BY <1>1, <3>1 DEF Ready, Tasks
  <2>3. QED
    BY <1>1, <2>1, <2>2 DEF Level
<1>5. Ready' = Ready /\ t \in Cooperative!Task
  BY <1>1, <1>3, ReadyIsTasks DEF Ready, QueuedTasks, Cooperative!Task
<1>6. Cooperative!Start(t)
  BY <1>1, <1>3, <1>4, <1>5 DEF Cooperative!Start
<1>7. QED
  BY <1>5, <1>6

LEMMA FinishRefines ==
  ASSUME IInv, FinishTask
  PROVE  Cooperative!Finish
<1>1. /\ isr = "none" /\ pc = "task" /\ pc' = "inter" /\ isr' = "none"
      /\ level' = level /\ level \in Level /\ p \in Seq(Nat) /\ save_p \in Nat
      /\ queue \in [Level -> Seq(Nat)]
      /\ queue[level] = <<save_p>> \o p /\ queue' = [queue EXCEPT ![level] = p]
      /\ Descending(queue[level], N[level])
  BY DEF FinishTask, Dispatch, IInv, TypeOK, LocalsMatchQueue, QueuesDescending
<1>2. p = Tail(queue[level]) /\ save_p = Head(queue[level]) /\ queue[level] # <<>>
  BY <1>1, ConsTail
<1>3. \A i \in 1..Len(p) : p[i] # save_p
  BY <1>1, <1>2, TailDescending, Constants
<1>4. /\ QueuedTasks(level) = {p[i] : i \in 1..Len(p)} \cup {save_p}
      /\ QueuedTasks(level)' = {p[i] : i \in 1..Len(p)}
  <2>1. {queue[level][i] : i \in 1..Len(queue[level])} = {p[i] : i \in 1..Len(p)} \cup {save_p}
    BY <1>1, ConsTasks
  <2>2. QED
    BY <1>1, <2>1 DEF QueuedTasks, FinishTask
<1>5. \A l \in Level : l # level => QueuedTasks(l)' = QueuedTasks(l)
  BY <1>1 DEF QueuedTasks
<1>6. Ready' = Ready \ {<<level, save_p>>}
  <2>1. QueuedTasks(level)' = QueuedTasks(level) \ {save_p}
    BY <1>3, <1>4
  <2> DEFINE K == QueuedTasks("kernel")
             C == QueuedTasks("client")
  <2>5. Ready = {<<"kernel", t>> : t \in K} \cup {<<"client", t>> : t \in C}
    BY <1>1 DEF Ready
  <2>6. Ready' = {<<"kernel", t>> : t \in K'} \cup {<<"client", t>> : t \in C'}
    BY <1>1 DEF Ready
  <2>2. CASE level = "kernel"
    <3>1. K' = K \ {save_p} /\ C' = C
      <4>1. C' = C
        BY <1>5, <2>2 DEF Level
      <4>2. K' = K \ {save_p}
        BY <1>1, <2>1, <2>2
      <4>3. QED
        BY <4>1, <4>2
    <3> HIDE DEF K, C
    <3>2. QED
      BY <2>2, <2>5, <2>6, <3>1
  <2>3. CASE level = "client"
    <3>1. K' = K /\ C' = C \ {save_p}
      <4>1. K' = K
        BY <1>5, <2>3 DEF Level
      <4>2. C' = C \ {save_p}
        BY <1>1, <2>1, <2>3
      <4>3. QED
        BY <4>1, <4>2
    <3> HIDE DEF K, C
    <3>2. QED
      BY <2>3, <2>5, <2>6, <3>1
  <2>4. QED
    BY <1>1, <2>2, <2>3 DEF Level
<1>7. QED
  BY <1>1, <1>6 DEF Cooperative!Finish

LEMMA SuspendRefines ==
  ASSUME IInv, SuspendThread
  PROVE  Cooperative!Release
<1>1. Ready = {} /\ pc # "task"
  BY DEF SuspendThread, Ready, IInv, ScheduledSoFar
<1>2. Ready' \in SUBSET Cooperative!Task
  <2>1. IInv'
    BY HandlerIInv DEF Handler
  <2>2. \A l \in Level : QueuedTasks(l)' \subseteq 1..N[l]
    BY <2>1 DEF IInv, QueuesDescending, Descending, QueuedTasks
  <2>3. QED
    BY <2>2 DEF Ready, Tasks, Level, Cooperative!Task
<1>3. QED
  BY <1>1, <1>2 DEF Cooperative!Release, SuspendThread

(* Steps that change neither the ready tasks nor what runs.                *)
CooperativeStutter ==
  UNCHANGED <<Ready, IF pc = "task" THEN {<<level, save_p>>} ELSE {}, pc = "thread">>

LEMMA OthersStutter ==
  ASSUME IInv,
         \/ LoadQueue \/ InterTask \/ EndQueue \/ Tick \/ ScheduleTask
         \/ ScheduleClients \/ DisableRTOS \/ UNCHANGED vars
  PROVE  CooperativeStutter
<1> USE DEF CooperativeStutter
<1>1. CASE LoadQueue \/ InterTask \/ EndQueue
  BY <1>1 DEF LoadQueue, InterTask, EndQueue, Dispatch, Ready, QueuedTasks
<1>2. CASE Tick
  <2>1. CASE TickSchedules
    BY <2>1, ReadyWhenEmpty DEF TickSchedules, TickBegins, dispatchVars, Ready
  <2>2. CASE TickStartsOS \/ TickOverruns \/ TickDisabled
    BY <2>2 DEF TickStartsOS, TickOverruns, TickDisabled, dispatchVars, Ready, QueuedTasks
  <2>3. QED
    BY <1>2, <2>1, <2>2 DEF Tick
<1>3. CASE ScheduleTask \/ ScheduleClients
  BY <1>3 DEF ScheduleTask, ScheduleClients, dispatchVars, Ready, Level
<1>4. CASE DisableRTOS \/ UNCHANGED vars
  BY <1>4 DEF DisableRTOS, vars, dispatchVars, Ready, QueuedTasks
<1>5. QED
  BY <1>1, <1>2, <1>3, <1>4

LEMMA LoadThreadRefines ==
  ASSUME IInv, LoadThread
  PROVE  Cooperative!RunThread \/ CooperativeStutter
<1>1. /\ isr = "none" /\ isr' = "none" /\ pc = "threadLoad" /\ queue' = queue
      /\ pc' \in {"thread", "lost"} /\ level' = level /\ save_p' = save_p
      /\ QueuesEmpty
  BY DEF LoadThread, Dispatch, IInv, LocalsMatchQueue
<1>2. Ready = {} /\ Ready' = {}
  BY <1>1, ReadyWhenEmpty DEF Ready, QueuesEmpty, QueuedTasks, Level
<1>3. QED
  BY <1>1, <1>2 DEF CooperativeStutter, Cooperative!RunThread

(* The queues, the micro-steps of the dispatcher and the interrupts that   *)
(* land between them implement the cooperative kernel.                     *)
THEOREM SchedulerImplementsCooperative == Spec => ImplementsCooperative
<1>1. Init => Cooperative!Init
  <2> SUFFICES ASSUME Init PROVE Cooperative!Init
    OBVIOUS
  <2>1. QueuedTasks("kernel") = {} /\ QueuedTasks("client") = 1..N["client"]
    <3>1. /\ queue["client"] \in Seq(Nat) /\ Len(queue["client"]) = NClient
          /\ \A i \in 1..NClient : queue["client"][i] = NClient + 1 - i
          /\ queue["kernel"] = <<>> /\ N["client"] = NClient /\ NClient \in Nat
      BY PoolAssumption DEF Init, Level, N
    <3>2. QueuedTasks("kernel") = {}
      BY <3>1 DEF QueuedTasks
    <3>3. ASSUME NEW t \in 1..NClient
          PROVE  NClient + 1 - t \in 1..NClient /\ queue["client"][NClient + 1 - t] = t
      BY <3>1
    <3>4. \A i \in 1..NClient : queue["client"][i] \in 1..NClient
      BY <3>1
    <3>5. QueuedTasks("client") \subseteq 1..NClient
      BY <3>1, <3>4 DEF QueuedTasks
    <3>6. 1..NClient \subseteq QueuedTasks("client")
      BY <3>1, <3>3 DEF QueuedTasks
    <3>7. QED
      BY <3>1, <3>2, <3>5, <3>6
  <2>2. Ready = Tasks("client")
    <3>1. /\ {<<"kernel", t>> : t \in QueuedTasks("kernel")} = {}
          /\ {<<"client", t>> : t \in QueuedTasks("client")} = {<<"client", t>> : t \in 1..N["client"]}
      BY <2>1
    <3>2. QED
      BY <3>1 DEF Init, Ready, Tasks
  <2>3. QED
    BY <2>2 DEF Init, Cooperative!Init
<1>2. IInv /\ [Next]_vars => [Cooperative!Next]_(Cooperative!vars)
  <2> SUFFICES ASSUME IInv, [Next]_vars PROVE Cooperative!Next \/ CooperativeStutter
    BY DEF CooperativeStutter, Cooperative!vars
  <2>1. CASE StartTask
    BY <2>1, StartRefines DEF Cooperative!Next
  <2>2. CASE FinishTask
    BY <2>2, FinishRefines DEF Cooperative!Next
  <2>3. CASE SuspendThread
    BY <2>3, SuspendRefines DEF Cooperative!Next
  <2>4. CASE LoadThread
    BY <2>4, LoadThreadRefines DEF Cooperative!Next
  <2>5. QED
    BY <2>1, <2>2, <2>3, <2>4, OthersStutter DEF Next, Dispatcher, Handler
<1>3. QED
  BY <1>1, <1>2, SpecIInv, PTL DEF Spec, ImplementsCooperative, Cooperative!Spec
=============================================================================
