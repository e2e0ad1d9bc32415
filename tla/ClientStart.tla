---------------------------- MODULE ClientStart ----------------------------
(***************************************************************************)
(* How the system starts (OS_vStart).  The kernel start queue is sorted    *)
(* (PrioritiseQueue) and run, then the client start queue.  How the        *)
(* client's tasks reach the scheduler: the kernel start task               *)
(* CLIENT_vStart calls USER_vStart (Client/USER.c), whose three loops over *)
(* the module table register a start, a cyclic and a terminate task per    *)
(* module by system call; OS_enAddTaskToQueue (OS.c) puts each in the next *)
(* node of a fixed pool and on a queue.  OS_vSchedule later takes the      *)
(* cyclic ones to be the nodes right behind the start ones.                *)
(***************************************************************************)
EXTENDS PrioritiseQueue

CONSTANTS
  NModule,       \* modules in USER_rastUserModuleFunctions
  PoolMax        \* OS_nClientTasksMax

ASSUME CountsAssumption == NModule \in Nat /\ PoolMax \in Nat

VARIABLES
  hasStart, hasRun,  \* modules with a pfStart, with a pfRun
  clientTask,        \* the node of CLIENT_vStart in the kernel start queue
  stage,             \* where OS_vStart is
  kernelStarted,     \* kernel start tasks run so far
  loop, u32ModuleIDX,\* where USER_vStart is
  enSVCResult,       \* OS_stSVCDataStruct.enSVCResult
  pool, poolCount,   \* OS_stCLIENTTaskNodePool: its nodes and its counts
  queue,             \* the client queues, of pool indices
  started,           \* modules started so far
  released           \* pool indices OS_vSchedule has queued

clientVars == <<hasStart, hasRun, clientTask, stage, kernelStarted, loop,
                u32ModuleIDX, enSVCResult, pool, poolCount, queue, started, released>>
vars == <<sortVars, clientVars>>
\* what the sort and the tables leave fixed
table == <<hasStart, hasRun, clientTask, count, priority, pc, u16NodeCount,
           u16I, u16J, pstNode1, pstNode2, pstNode3>>
registry == <<enSVCResult, pool, poolCount>>

Kind == <<"start", "cyclic", "terminate">>
Kinds == {Kind[i] : i \in DOMAIN Kind}

(* The function the loop of a kind registers.                              *)
Function == [start |-> "pfStart", cyclic |-> "pfRun", terminate |-> "pfRun"]
Registers(k, m) == IF Function[k] = "pfStart" THEN m \in hasStart ELSE m \in hasRun

Init ==
  /\ hasStart \in SUBSET (1..NModule) /\ hasRun \in SUBSET (1..NModule)
  /\ SortInit /\ clientTask \in 1..count
  /\ stage = "sort" /\ kernelStarted = <<>>
  /\ loop = 1 /\ u32ModuleIDX = 1 /\ enSVCResult = "OK"
  /\ pool = <<>> /\ poolCount = [k \in Kinds |-> 0]
  /\ queue = [k \in Kinds |-> <<>>]
  /\ started = <<>> /\ released = {}

-----------------------------------------------------------------------------
(* OS_enAddTaskToQueue, reached from CLIENT_enAddTask.                     *)
\* a mutant: a full pool still counts the task
AddTaskToQueueCounts(k, m) ==
  /\ poolCount' = [poolCount EXCEPT ![k] = @ + 1]
  /\ IF Len(pool) < PoolMax
     THEN /\ pool' = Append(pool, [kind |-> k, module |-> m, function |-> Function[k]])
          /\ queue' = [queue EXCEPT ![k] = <<Len(pool) + 1>> \o @]
          /\ enSVCResult' = "OK"
     ELSE enSVCResult' = "QueueFull" /\ UNCHANGED <<pool, queue>>
AddTaskToQueue(k, m) ==
  IF Len(pool) < PoolMax
  THEN /\ pool' = Append(pool, [kind |-> k, module |-> m, function |-> Function[k]])
       /\ queue' = [queue EXCEPT ![k] = <<Len(pool) + 1>> \o @]
       /\ poolCount' = [poolCount EXCEPT ![k] = @ + 1]
       /\ enSVCResult' = "OK"
  ELSE enSVCResult' = "QueueFull" /\ UNCHANGED <<pool, queue, poolCount>>

(* One turn of a loop of USER_vStart.                                      *)
RegisterModule ==
  /\ stage = "register" /\ u32ModuleIDX <= NModule
  /\ u32ModuleIDX' = u32ModuleIDX + 1
  /\ IF Registers(Kind[loop], u32ModuleIDX) /\ enSVCResult = "OK"
     THEN AddTaskToQueue(Kind[loop], u32ModuleIDX)
     ELSE UNCHANGED <<registry, queue>>
  /\ UNCHANGED <<table, next, stage, kernelStarted, loop, started, released>>

(* CLIENT_vStart ignores what USER_vStart returns.                         *)
NextLoop ==
  /\ stage = "register" /\ u32ModuleIDX > NModule
  /\ u32ModuleIDX' = 1
  /\ IF loop < Len(Kind) THEN loop' = loop + 1 /\ UNCHANGED stage
                         ELSE stage' = "kernel" /\ UNCHANGED loop
  /\ UNCHANGED <<table, next, kernelStarted, registry, queue, started, released>>

-----------------------------------------------------------------------------
(* OS_vStart: the kernel start queue, then the client start queue.         *)
SortStep == UNCHANGED clientVars /\ SortNext

RunKernelQueue ==
  /\ stage = "sort" /\ pc = "done"
  /\ stage' = "kernel"
  /\ UNCHANGED <<table, next, kernelStarted, loop, u32ModuleIDX, registry, queue,
                 started, released>>

(* The head of the queue runs and is unlinked; the task run by CLIENT_vStart*)
(* is over only when its three loops are.                                  *)
RunKernelStart ==
  /\ stage = "kernel" /\ next[List] # Null
  /\ kernelStarted' = Append(kernelStarted, next[List])
  /\ next' = [next EXCEPT ![List] = next[next[List]]]
  /\ stage' = IF next[List] = clientTask THEN "register" ELSE "kernel"
  /\ UNCHANGED <<table, loop, u32ModuleIDX, registry, queue, started, released>>

StartClients ==
  /\ stage = "kernel" /\ next[List] = Null
  /\ stage' = "clients"
  /\ UNCHANGED <<table, next, kernelStarted, loop, u32ModuleIDX, registry, queue,
                 started, released>>

\* a mutant: the task behind the started one is unlinked with it
RunClientStartSkips ==
  /\ stage = "clients" /\ queue["start"] # <<>>
  /\ queue' = [queue EXCEPT !["start"] = IF Len(@) = 1 THEN <<>> ELSE Tail(Tail(@))]
  /\ started' = Append(started, pool[Head(queue["start"])].module)
  /\ UNCHANGED <<table, next, stage, kernelStarted, loop, u32ModuleIDX, registry, released>>
RunClientStart ==
  /\ stage = "clients" /\ queue["start"] # <<>>
  /\ queue' = [queue EXCEPT !["start"] = Tail(@)]
  /\ started' = Append(started, pool[Head(queue["start"])].module)
  /\ UNCHANGED <<table, next, stage, kernelStarted, loop, u32ModuleIDX, registry, released>>

(* OS_vSchedule at a tick every rate divides: the client loop runs over    *)
(* u32CyclicCount nodes from u32StartCount on.                             *)
Schedule ==
  /\ stage = "clients" /\ queue["start"] = <<>>
  /\ stage' = "scheduled"
  /\ released' = poolCount["start"] + 1 .. poolCount["start"] + poolCount["cyclic"]
  /\ UNCHANGED <<table, next, kernelStarted, loop, u32ModuleIDX, registry, queue, started>>

Next == SortStep \/ RunKernelQueue \/ RegisterModule \/ NextLoop \/ RunKernelStart \/ StartClients
          \/ RunClientStart \/ Schedule
Spec == Init /\ [][Next]_vars /\ WF_vars(Next)

-----------------------------------------------------------------------------
\* the nodes of the pool of one kind
NodesOf(k) == {i \in 1..Len(pool) : pool[i].kind = k}

(* OS_vSchedule releases the client's cyclic tasks, all of them and nothing*)
(* else, whatever the module table leaves out and wherever the pool fills. *)
ReleasesCyclicTasks == stage = "scheduled" => released = NodesOf("cyclic")

(* The sort neither loses nor repeats a start task, at whatever exchange:   *)
(* the kernel starts its tasks by priority, and among equals the one       *)
(* further down the table first; the client's modules start once the whole *)
(* kernel has started, each once, the last of the table first.             *)
StartedInOrder ==
  /\ \A i, j \in 1..Len(kernelStarted) :
       i < j => Before(kernelStarted[i], kernelStarted[j])
  /\ stage \in {"clients", "scheduled"} => Len(kernelStarted) = count
  /\ \A i, j \in 1..Len(started) : i < j => started[i] > started[j]

(* Every module with a start task whose registration was accepted is       *)
(* started before the first cyclic task can run.                           *)
StartsThenSchedules ==
  <>(/\ stage = "scheduled"
     /\ {started[i] : i \in 1..Len(started)} = {pool[n].module : n \in NodesOf("start")})
=============================================================================
