------------------------- MODULE ClientStartProofs -------------------------
(***************************************************************************)
(* OS_vSchedule releases the client's cyclic tasks and no other            *)
(* (ReleasesCyclicTasks), and the start tasks run in their order           *)
(* (StartedInOrder), for every table of modules, every pool and every      *)
(* queue of prioritised tasks.                                             *)
(*                                                                         *)
(* OS_vSchedule knows only two counts.  The invariant behind the first is  *)
(* that the pool is laid out in the order of USER_vStart's loops: the      *)
(* nodes of a loop lie behind those of the loops before it, and the counts *)
(* say where each kind ends.  It needs nothing of the sort.                *)
(*                                                                         *)
(* The second rests on an invariant of the sort over the line of nodes     *)
(* that the next pointers spell out, of which the code holds no copy: it   *)
(* is bound by an existential and each step says what the line becomes.    *)
(***************************************************************************)
EXTENDS ClientStart, TLAPS, SequenceTheorems

Node == [kind : Kinds, module : 1..NModule, function : {"pfStart", "pfRun"}]

\* how many nodes of the pool are start tasks, and start or cyclic tasks
Starts == poolCount["start"]
Cyclics == poolCount["start"] + poolCount["cyclic"]

Types ==
  /\ pool \in Seq(Node) /\ poolCount \in [Kinds -> Nat]
  /\ loop \in 1..3 /\ u32ModuleIDX \in 1..NModule + 1
  /\ hasStart \subseteq 1..NModule /\ hasRun \subseteq 1..NModule

\* The counts say where the nodes of a kind end; those of the loop that is
\* running end with the pool.
Counted ==
  /\ Cyclics <= Len(pool)
  /\ loop = 1 => Starts = Len(pool)
  /\ loop \in {1, 2} => Cyclics = Len(pool)

Kept(i) ==
  pool[i].kind = IF i <= Starts THEN "start" ELSE IF i <= Cyclics THEN "cyclic" ELSE "terminate"

\* The nodes lie in the order of the loops.
LaidOut == \A i \in 1..Len(pool) : Kept(i)

Released == stage = "scheduled" => released = Starts + 1 .. Cyclics

IInv == Types /\ Counted /\ LaidOut /\ Released

LEMMA KindsAre == Kinds = {"start", "cyclic", "terminate"}
BY DEF Kinds, Kind

\* The kind of a loop.
LEMMA KindOfLoop ==
  /\ Kind[1] = "start" /\ Kind[2] = "cyclic" /\ Kind[3] = "terminate"
  /\ Len(Kind) = 3
BY DEF Kind

LEMMA Begins == Init => IInv
<1> SUFFICES ASSUME Init PROVE IInv
  OBVIOUS
<1>1. poolCount["start"] = 0 /\ poolCount["cyclic"] = 0 /\ pool = <<>> /\ Len(pool) = 0
  BY KindsAre DEF Init
<1>2. Types
  BY CountsAssumption, KindsAre DEF Init, Types
<1>3. Counted /\ LaidOut /\ Released
  BY <1>1 DEF Init, Counted, LaidOut, Released, Starts, Cyclics
<1> QED BY <1>2, <1>3 DEF IInv

\* A node put behind the pool by the loop that is running.
LEMMA Appended ==
  ASSUME IInv, AddTaskToQueue(Kind[loop], u32ModuleIDX), Len(pool) < PoolMax,
         u32ModuleIDX \in 1..NModule, UNCHANGED loop
  PROVE  /\ pool' \in Seq(Node) /\ poolCount' \in [Kinds -> Nat]
         /\ Counted' /\ LaidOut'
<1> DEFINE k == Kind[loop]
           node == [kind |-> k, module |-> u32ModuleIDX, function |-> Function[k]]
<1>1. k \in Kinds
  BY KindsAre, KindOfLoop DEF IInv, Types
<1>2. node \in Node
  BY <1>1, KindsAre DEF Node, Function
<1>3. pool' = Append(pool, node) /\ poolCount' = [poolCount EXCEPT ![k] = @ + 1]
  BY DEF AddTaskToQueue
<1> HIDE DEF node
<1>4. /\ pool' \in Seq(Node) /\ Len(pool') = Len(pool) + 1
      /\ \A i \in 1..Len(pool) : pool'[i] = pool[i]
      /\ pool'[Len(pool) + 1] = node
  BY <1>2, <1>3 DEF IInv, Types
<1>5. poolCount' \in [Kinds -> Nat]
  BY <1>1, <1>3 DEF IInv, Types
<1>6. Counted'
  BY <1>3, <1>4, KindsAre, KindOfLoop DEF IInv, Types, Counted, Starts, Cyclics
<1>starts. /\ Starts \in Nat /\ Cyclics \in Nat /\ Starts <= Cyclics /\ Cyclics <= Len(pool)
           /\ k = "start" => Starts = Len(pool) /\ Starts' = Starts + 1 /\ Cyclics' = Cyclics + 1
           /\ k = "cyclic" => Cyclics = Len(pool) /\ Starts' = Starts /\ Cyclics' = Cyclics + 1
           /\ k = "terminate" => Starts' = Starts /\ Cyclics' = Cyclics
  BY <1>3, KindsAre, KindOfLoop DEF IInv, Types, Counted, Starts, Cyclics
<1>7. ASSUME NEW i \in 1..Len(pool') PROVE Kept(i)'
  <2>1. CASE i = Len(pool) + 1
    <3>1. pool'[i].kind = k
      BY <2>1, <1>4 DEF node
    <3> QED BY <2>1, <3>1, <1>3, KindsAre, KindOfLoop
            DEF IInv, Types, Counted, Kept, Starts, Cyclics
  <2>2. CASE i # Len(pool) + 1
    <3>1. i \in 1..Len(pool) /\ pool'[i] = pool[i] /\ Kept(i)
      BY <2>2, <1>4 DEF IInv, Types, LaidOut
    <3>2. Len(pool) \in Nat /\ k \in {"start", "cyclic", "terminate"}
      BY <1>1, KindsAre DEF IInv, Types
    <3> HIDE DEF k
    <3> QED BY <3>1, <3>2, <1>starts DEF Kept
  <2> QED BY <2>1, <2>2
<1> QED BY <1>4, <1>5, <1>6, <1>7 DEF LaidOut

LEMMA Keeps == IInv /\ [Next]_vars => IInv'
<1> SUFFICES ASSUME IInv, [Next]_vars PROVE IInv'
  OBVIOUS
<1> USE CountsAssumption
<1>1. CASE RegisterModule
  <2>1. u32ModuleIDX \in 1..NModule /\ u32ModuleIDX' \in 1..NModule + 1
    BY <1>1 DEF IInv, Types, RegisterModule
  <2>2. loop' = loop /\ stage' # "scheduled" /\ UNCHANGED <<hasStart, hasRun>>
    BY <1>1 DEF RegisterModule, table
  <2>3. CASE UNCHANGED <<pool, poolCount>>
    BY <2>1, <2>2, <2>3 DEF IInv, Types, Counted, LaidOut, Released, Kept, Starts, Cyclics
  <2>4. CASE AddTaskToQueue(Kind[loop], u32ModuleIDX) /\ Len(pool) < PoolMax
    BY <2>1, <2>2, <2>4, Appended DEF IInv, Types, Released
  <2> QED BY <1>1, <2>3, <2>4 DEF RegisterModule, AddTaskToQueue, registry
<1>2. CASE NextLoop
  <2>1. UNCHANGED <<hasStart, hasRun, pool, poolCount>> /\ stage' # "scheduled"
    BY <1>2 DEF NextLoop, table, registry
  <2>2. loop' \in 1..3 /\ u32ModuleIDX' \in 1..NModule + 1 /\ loop' >= loop /\ loop' # 1
    BY <1>2, KindOfLoop DEF IInv, Types, NextLoop
  <2> QED BY <2>1, <2>2 DEF IInv, Types, Counted, LaidOut, Released, Kept, Starts, Cyclics
<1>3. CASE Schedule
  BY <1>3 DEF IInv, Types, Counted, LaidOut, Released, Kept, Starts, Cyclics,
              Schedule, table, registry
<1>4. CASE RunKernelQueue \/ RunKernelStart \/ StartClients \/ RunClientStart
  <2>1. UNCHANGED <<hasStart, hasRun, pool, poolCount, loop, u32ModuleIDX>>
    BY <1>4 DEF RunKernelQueue, RunKernelStart, StartClients, RunClientStart, table, registry
  <2>2. stage' # "scheduled"
    BY <1>4 DEF RunKernelQueue, RunKernelStart, StartClients, RunClientStart
  <2> QED BY <2>1, <2>2 DEF IInv, Types, Counted, LaidOut, Released, Kept, Starts, Cyclics
<1>5. CASE SortStep \/ UNCHANGED vars
  <2>1. UNCHANGED clientVars
    BY <1>5 DEF SortStep, vars
  <2> QED BY <2>1 DEF IInv, Types, Counted, LaidOut, Released, Kept, Starts, Cyclics, clientVars
<1> QED BY <1>1, <1>2, <1>3, <1>4, <1>5 DEF Next

LEMMA Always == Spec => []IInv
BY Begins, Keeps, PTL DEF Spec

-----------------------------------------------------------------------------
(* OS_vSchedule, which knows two counts and no node, releases every cyclic *)
(* task that was registered and nothing else: no start task runs again and *)
(* no terminate task runs at all.                                          *)
THEOREM CyclicTasksReleased == Spec => []ReleasesCyclicTasks
<1>1. IInv => ReleasesCyclicTasks
  <2> SUFFICES ASSUME IInv, stage = "scheduled" PROVE released = NodesOf("cyclic")
    BY DEF ReleasesCyclicTasks
  <2>1. released = Starts + 1 .. Cyclics /\ Starts \in Nat /\ Cyclics \in Nat
    BY KindsAre DEF IInv, Types, Released, Starts, Cyclics
  <2>2. \A i \in 1..Len(pool) : pool[i].kind = "cyclic" <=> i \in Starts + 1 .. Cyclics
    BY <2>1 DEF IInv, Types, LaidOut, Kept
  <2>3. Starts + 1 .. Cyclics \subseteq 1..Len(pool)
    BY <2>1 DEF IInv, Types, Counted
  <2> QED BY <2>1, <2>2, <2>3 DEF NodesOf
<1> QED BY <1>1, Always, PTL

-----------------------------------------------------------------------------
\* The pool has room for a start and a cyclic task of every module, as the
\* 35 nodes of the source have for its 16 modules.
Room == 2 * NModule <= PoolMax

Registered(m) == \E i \in 1..Len(pool) : pool[i].kind = "cyclic" /\ pool[i].module = m

\* What the loops so far have taken of the pool, and what the second has done.
Roomy ==
  /\ loop = 1 => Len(pool) <= u32ModuleIDX - 1
  /\ loop = 2 => Len(pool) <= NModule + u32ModuleIDX - 1
  /\ loop \in {1, 2} => enSVCResult = "OK"
  /\ loop = 2 => \A m \in hasRun : m < u32ModuleIDX => Registered(m)
  /\ loop = 3 => \A m \in hasRun : Registered(m)

LEMMA RoomyBegins == Init => Roomy
BY DEF Init, Roomy

\* What is registered stays registered.
LEMMA StaysRegistered ==
  ASSUME IInv, IInv', Len(pool) <= Len(pool'),
         \A i \in 1..Len(pool) : pool'[i] = pool[i],
         NEW m, Registered(m)
  PROVE  Registered(m)'
BY DEF Registered, IInv, Types

LEMMA RoomyKeeps == Room /\ IInv /\ IInv' /\ Roomy /\ [Next]_vars => Roomy'
<1> SUFFICES ASSUME Room, IInv, IInv', Roomy, [Next]_vars PROVE Roomy'
  OBVIOUS
<1> USE CountsAssumption
<1>1. CASE RegisterModule
  <2>1. /\ u32ModuleIDX \in 1..NModule /\ u32ModuleIDX' = u32ModuleIDX + 1
        /\ loop' = loop /\ hasRun' = hasRun
    BY <1>1 DEF IInv, Types, RegisterModule, table
  <2>2. CASE AddTaskToQueue(Kind[loop], u32ModuleIDX) /\ Len(pool) < PoolMax
    <3> DEFINE node == [kind |-> Kind[loop], module |-> u32ModuleIDX,
                        function |-> Function[Kind[loop]]]
    <3>1. pool' = Append(pool, node) /\ enSVCResult' = "OK"
      BY <2>2 DEF AddTaskToQueue
    <3>2. node.kind = Kind[loop] /\ node.module = u32ModuleIDX
      OBVIOUS
    <3> HIDE DEF node
    <3>3. /\ Len(pool') = Len(pool) + 1 /\ pool'[Len(pool) + 1] = node
          /\ \A i \in 1..Len(pool) : pool'[i] = pool[i]
      BY <3>1 DEF IInv, Types
    <3>4. \A m : Registered(m) => Registered(m)'
      BY <3>3, StaysRegistered DEF IInv, Types
    <3>5. \A m : loop = 2 /\ m = u32ModuleIDX => Registered(m)'
      <4> SUFFICES ASSUME NEW m, loop = 2, m = u32ModuleIDX PROVE Registered(m)'
        OBVIOUS
      <4>1. Len(pool) + 1 \in 1..Len(pool')
        BY <3>3 DEF IInv, Types
      <4>2. pool'[Len(pool) + 1].kind = "cyclic" /\ pool'[Len(pool) + 1].module = m
        BY <3>2, <3>3, KindOfLoop
      <4> QED BY <4>1, <4>2 DEF Registered
    <3>6. loop' = 2 => \A m \in hasRun' : m < u32ModuleIDX' => Registered(m)'
      BY <2>1, <3>4, <3>5 DEF Roomy, IInv, Types
    <3>7. loop' = 3 => \A m \in hasRun' : Registered(m)'
      BY <2>1, <3>4 DEF Roomy
    <3> QED BY <2>1, <3>1, <3>3, <3>6, <3>7 DEF Roomy, IInv, Types
  <2>3. CASE loop \in {1, 2} /\ ~(AddTaskToQueue(Kind[loop], u32ModuleIDX) /\ Len(pool) < PoolMax)
    <3>1. Len(pool) < PoolMax /\ enSVCResult = "OK"
      BY <2>1, <2>3 DEF Roomy, Room, IInv, Types
    <3>2. ~Registers(Kind[loop], u32ModuleIDX) /\ UNCHANGED <<pool, enSVCResult>>
      BY <1>1, <2>3, <3>1 DEF RegisterModule, registry
    <3>3. loop = 2 => u32ModuleIDX \notin hasRun
      BY <3>2, KindOfLoop DEF Registers, Function, Kinds
    <3>4. \A m : Registered(m) => Registered(m)'
      BY <3>2 DEF Registered
    <3>5. loop' = 2 => \A m \in hasRun' : m < u32ModuleIDX' => Registered(m)'
      BY <2>1, <3>3, <3>4 DEF Roomy, IInv, Types
    <3> QED BY <2>1, <2>3, <3>1, <3>2, <3>5 DEF Roomy, IInv, Types
  <2>4. CASE loop = 3 /\ ~(AddTaskToQueue(Kind[loop], u32ModuleIDX) /\ Len(pool) < PoolMax)
    <3>1. UNCHANGED pool
      BY <1>1, <2>4 DEF RegisterModule, AddTaskToQueue, registry
    <3> QED BY <2>1, <2>4, <3>1 DEF Roomy, Registered
  <2> QED BY <2>2, <2>3, <2>4 DEF IInv, Types
<1>2. CASE NextLoop
  <2>1. /\ UNCHANGED <<hasRun, pool, enSVCResult>> /\ u32ModuleIDX > NModule
        /\ u32ModuleIDX' = 1 /\ loop' = IF loop < 3 THEN loop + 1 ELSE loop
    BY <1>2, KindOfLoop DEF NextLoop, table, registry
  <2>2. \A m : Registered(m) => Registered(m)'
    BY <2>1 DEF Registered
  <2>3. \A m \in hasRun : m < u32ModuleIDX /\ m >= 1
    BY <2>1 DEF IInv, Types
  <2> QED BY <2>1, <2>2, <2>3 DEF Roomy, IInv, Types
<1>3. CASE SortStep \/ RunKernelQueue \/ RunKernelStart \/ StartClients \/ RunClientStart
             \/ Schedule \/ UNCHANGED vars
  <2>1. UNCHANGED <<hasRun, pool, enSVCResult, loop, u32ModuleIDX>>
    BY <1>3 DEF SortStep, RunKernelQueue, RunKernelStart, StartClients, RunClientStart,
                Schedule, vars, clientVars, table, registry
  <2> QED BY <2>1 DEF Roomy, Registered
<1> QED BY <1>1, <1>2, <1>3 DEF Next

(* When the pool has room for two tasks of every module, no module with a  *)
(* cyclic task is left out once USER_vStart is in its last loop, however   *)
(* many modules have no start task and whatever is lost later.             *)
NoModuleLeftOut == loop = 3 => \A m \in hasRun : Registered(m)

(* In a pool with room for two tasks of each, every module that has a      *)
(* cyclic task gets it into the pool (OS_nClientTasksMax, OS.c:351).       *)
THEOREM EveryModuleRegistered == Room => (Spec => []NoModuleLeftOut)
<1> SUFFICES ASSUME Room PROVE Spec => []NoModuleLeftOut
  OBVIOUS
<1>1. Init => Roomy
  BY RoomyBegins
<1>2. IInv /\ IInv' /\ Roomy /\ [Next]_vars => Roomy'
  BY RoomyKeeps
<1>3. Roomy => NoModuleLeftOut
  BY DEF Roomy, NoModuleLeftOut
<1> QED BY <1>1, <1>2, <1>3, Always, PTL DEF Spec

-----------------------------------------------------------------------------
(* The order of starting.  The invariant of the sort is about a line: the  *)
(* nodes by position, with the head pointer in front and Null behind.      *)
Line == {q \in [0..count + 1 -> List..count] :
           /\ q[0] = List /\ q[count + 1] = Null
           /\ \A i \in 1..count : q[i] \in 1..count
           /\ \A i, j \in 1..count : q[i] = q[j] => i = j}

SortTypes ==
  /\ count \in Nat \ {0} /\ priority \in [1..count -> Nat]
  /\ next \in [{List} \cup 1..count -> Null..count]
  /\ kernelStarted \in Seq(1..count)
  /\ u16NodeCount \in 1..count /\ u16I \in 0..count - 1
  /\ pc \in {"count", "pass", "inner", "done"}

\* The next pointers follow the line, of which the head has been started.
Linked(q) ==
  /\ Len(kernelStarted) <= count
  /\ next[List] = q[Len(kernelStarted) + 1]
  /\ \A i \in 1..count : next[q[i]] = q[i + 1]
  /\ \A i \in 1..Len(kernelStarted) : kernelStarted[i] = q[i]

\* Tasks of one priority never pass each other.
Stable(q) ==
  \A i, j \in 1..count : i < j /\ priority[q[i]] = priority[q[j]] => q[i] > q[j]

\* The last n positions have their tasks.
Settled(q, n) ==
  \A i, j \in 1..count : i < j /\ j > count - n => priority[q[i]] <= priority[q[j]]

\* The three pointers are neighbours in the line, and the middle one is at
\* the largest priority that the pass has seen.
Neighbours(q) ==
  /\ u16I < count - 1 /\ u16J \in 0..count - u16I - 1
  /\ pstNode1 = q[u16J] /\ pstNode2 = q[u16J + 1] /\ pstNode3 = q[u16J + 2]
  /\ \A i \in 1..u16J : priority[q[i]] <= priority[q[u16J + 1]]

Sorting(q) ==
  /\ Linked(q) /\ Stable(q) /\ Settled(q, u16I)
  /\ pc = "count" => pstNode1 = q[u16NodeCount] /\ u16I = 0
  /\ pc # "count" => u16NodeCount = count
  /\ pc = "inner" => Neighbours(q)
  /\ pc = "done" => u16I = count - 1

Staged ==
  /\ pc # "done" => stage = "sort"
  /\ stage = "sort" => kernelStarted = <<>>
  /\ stage \in {"clients", "scheduled"} => next[List] = Null

SortInv == SortTypes /\ Staged /\ \E q \in Line : Sorting(q)

\* The start queue holds the start tasks of the pool not yet run, the last
\* registered first, and the started modules are those of the rest.
StartQueue ==
  /\ queue \in [Kinds -> Seq(Nat)] /\ started \in Seq(1..NModule)
  /\ Len(queue["start"]) + Len(started) = Starts
  /\ \A i \in 1..Len(queue["start"]) : queue["start"][i] = Len(queue["start"]) + 1 - i
  /\ \A i \in 1..Len(started) : started[i] = pool[Starts + 1 - i].module
  /\ \A i, j \in 1..Starts : i < j => pool[i].module < pool[j].module
  /\ loop = 1 => \A i \in 1..Starts : pool[i].module < u32ModuleIDX
  /\ stage \notin {"clients", "scheduled"} => started = <<>>

\* Null is no node, nor is the head pointer.
LEMMA Nodes ==
  ASSUME SortTypes, NEW q \in Line
  PROVE  /\ \A i \in 0..count + 1 : q[i] \in Int
         /\ \A i \in 1..count : q[i] \in 1..count /\ q[i] # Null /\ q[i] # List
         /\ \A i, j \in 0..count : q[i] = q[j] => i = j
<1>1. count \in Nat \ {0} /\ q \in [0..count + 1 -> List..count] /\ q[0] = List
      /\ (\A i \in 1..count : q[i] \in 1..count)
      /\ (\A i, j \in 1..count : q[i] = q[j] => i = j)
  BY DEF SortTypes, Line
<1>2. \A i \in 0..count + 1 : q[i] \in Int
  BY <1>1 DEF List
<1>3. \A i \in 1..count : q[i] \in 1..count /\ q[i] # Null /\ q[i] # List
  BY <1>1 DEF List, Null
<1>4. \A i \in 0..count : i = 0 \/ i \in 1..count
  BY <1>1
<1>5. \A i, j \in 0..count : q[i] = q[j] => i = j
  BY <1>1, <1>3, <1>4, Zenon
<1> QED BY <1>2, <1>3, <1>5

\* Two neighbours of the line change places.
Swapped(q, n) == [q EXCEPT ![n] = q[n + 1], ![n + 1] = q[n]]

LEMMA SwappedIs ==
  ASSUME SortTypes, NEW q \in Line, NEW n \in 1..count - 1
  PROVE  /\ Swapped(q, n) \in Line
         /\ Swapped(q, n)[n] = q[n + 1] /\ Swapped(q, n)[n + 1] = q[n]
         /\ \A i \in 0..count + 1 : i # n /\ i # n + 1 => Swapped(q, n)[i] = q[i]
<1>1. count \in Nat \ {0} /\ q \in [0..count + 1 -> List..count]
  BY DEF SortTypes, Line
<1>2. /\ Swapped(q, n) \in [0..count + 1 -> List..count]
      /\ Swapped(q, n)[n] = q[n + 1] /\ Swapped(q, n)[n + 1] = q[n]
      /\ \A i \in 0..count + 1 : i # n /\ i # n + 1 => Swapped(q, n)[i] = q[i]
  BY <1>1 DEF Swapped, List
<1> DEFINE r == Swapped(q, n)
<1> HIDE DEF r
<1>3. r \in [0..count + 1 -> List..count] /\ r[n] = q[n + 1] /\ r[n + 1] = q[n]
      /\ \A i \in 0..count + 1 : i # n /\ i # n + 1 => r[i] = q[i]
  BY <1>2 DEF r
<1>4. r \in Line
  <2>1. \A i \in 1..count : q[i] \in 1..count /\ q[0] = List /\ q[count + 1] = Null
    BY DEF Line
  <2>2. r[0] = List /\ r[count + 1] = Null /\ \A i \in 1..count : r[i] \in 1..count
    <3>1. /\ n \in 1..count /\ n + 1 \in 1..count
          /\ 0 \in 0..count + 1 /\ count + 1 \in 0..count + 1
          /\ 0 # n /\ 0 # n + 1 /\ count + 1 # n /\ count + 1 # n + 1
      BY <1>1
    <3>2. r[0] = q[0] /\ r[count + 1] = q[count + 1] /\ q[n] \in 1..count /\ q[n + 1] \in 1..count
      BY <1>3, <2>1, <3>1
    <3>3. \A i \in 1..count : r[i] \in {q[i], q[n], q[n + 1]}
      <4>1. \A i \in 1..count : i \in 0..count + 1
        BY <1>1
      <4> QED BY <1>3, <4>1, Zenon
    <3> QED BY <1>1, <2>1, <3>2, <3>3
  <2>3. ASSUME NEW i \in 1..count, NEW j \in 1..count, r[i] = r[j] PROVE i = j
    <3> DEFINE at(k) == IF k = n THEN n + 1 ELSE IF k = n + 1 THEN n ELSE k
    <3>1. \A k \in 1..count : r[k] = q[at(k)] /\ at(k) \in 1..count
      <4> SUFFICES ASSUME NEW k \in 1..count PROVE r[k] = q[at(k)] /\ at(k) \in 1..count
        OBVIOUS
      <4>1. k \in 0..count + 1 /\ n \in 1..count /\ n + 1 \in 1..count
        BY <1>1
      <4> QED BY <1>3, <4>1, Zenon
    <3>2. at(i) = at(j)
      <4>1. \A k, l \in 1..count : q[k] = q[l] => k = l
        BY DEF Line
      <4>2. /\ r[i] = q[at(i)] /\ at(i) \in 1..count
            /\ r[j] = q[at(j)] /\ at(j) \in 1..count
        BY <3>1
      <4> HIDE DEF at
      <4>3. q[at(i)] = q[at(j)]
        BY <2>3, <4>2, Zenon
      <4> QED BY <4>1, <4>2, <4>3, Zenon
    <3> QED BY <1>1, <3>2
  <2> QED BY <1>3, <2>2, <2>3 DEF Line
<1> QED BY <1>2, <1>4 DEF r

LEMMA SortBegins == Init => SortInv
<1> SUFFICES ASSUME Init PROVE SortInv
  OBVIOUS
<1>1. /\ count \in Nat \ {0} /\ priority \in [1..count -> Nat] /\ next = Pushed
      /\ pc = "count" /\ u16NodeCount = 1 /\ u16I = 0 /\ pstNode1 = count
      /\ stage = "sort" /\ kernelStarted = <<>> /\ next[List] = count
  BY SizeAssumption DEF Init, SortInit, Pushed
<1> DEFINE q == [i \in 0..count + 1 |-> IF i = 0 THEN List ELSE count + 1 - i]
<1>2. q \in Line
  <2>1. q \in [0..count + 1 -> List..count] /\ q[0] = List /\ q[count + 1] = Null
    BY <1>1 DEF List, Null
  <2>2. \A i \in 1..count : q[i] = count + 1 - i /\ q[i] \in 1..count
    BY <1>1
  <2>3. \A i, j \in 1..count : count + 1 - i = count + 1 - j => i = j
    BY <1>1
  <2> HIDE DEF q
  <2> QED BY <2>1, <2>2, <2>3 DEF Line
<1>3. SortTypes
  <2>1. next \in [{List} \cup 1..count -> Null..count]
    BY <1>1 DEF Pushed, List, Null
  <2> QED BY <1>1, <2>1 DEF SortTypes
<1>4. Linked(q)
  BY <1>1 DEF Linked, Pushed, List, Null
<1>5. Stable(q) /\ Settled(q, u16I)
  BY <1>1 DEF Stable, Settled
<1>6. Sorting(q)
  BY <1>1, <1>4, <1>5 DEF Sorting
<1> QED BY <1>1, <1>2, <1>3, <1>6 DEF SortInv, Staged

\* An exchange swaps two neighbours of the line.
LEMMA ExchangeSorts ==
  ASSUME SortTypes, Staged, NEW q \in Line, Sorting(q), Exchange, UNCHANGED clientVars
  PROVE  SortInv'
<1> SUFFICES ASSUME NEW n, n = u16J + 1, NEW r, r = Swapped(q, n) PROVE SortInv'
  OBVIOUS
<1>1. /\ count \in Nat \ {0} /\ u16NodeCount = count /\ Neighbours(q) /\ Linked(q)
      /\ kernelStarted = <<>> /\ u16I \in 0..count - 1
  BY DEF SortTypes, Staged, Sorting, Exchange, InLoop
<1>2. /\ n \in 1..count - 1 /\ n + 1 <= count - u16I /\ u16J \in 0..count
      /\ pstNode1 = q[n - 1] /\ pstNode2 = q[n] /\ pstNode3 = q[n + 1]
  BY <1>1 DEF Exchange, InLoop, Neighbours
<1>3. priority[q[n]] > priority[q[n + 1]]
  BY <1>2 DEF Exchange, OutOfOrder
<1>4. /\ r \in Line /\ r[n] = q[n + 1] /\ r[n + 1] = q[n]
      /\ \A i \in 0..count + 1 : i # n /\ i # n + 1 => r[i] = q[i]
  BY <1>2, SwappedIs
<1>5. /\ next' = [next EXCEPT ![q[n]] = q[n + 2], ![q[n + 1]] = q[n], ![q[n - 1]] = q[n + 1]]
      /\ pstNode1' = q[n + 1] /\ pstNode2' = q[n] /\ pstNode3' = q[n + 2]
      /\ u16J' = n /\ UNCHANGED <<count, priority, pc, u16NodeCount, u16I, stage, kernelStarted>>
  <2>1. n + 1 \in 1..count /\ (n + 1) + 1 = n + 2
    BY <1>1, <1>2
  <2>2. next[pstNode3] = q[n + 2]
    BY <1>1, <1>2, <2>1 DEF Linked
  <2>3. /\ next' = [next EXCEPT ![pstNode2] = next[pstNode3], ![pstNode3] = pstNode2,
                                ![pstNode1] = pstNode3]
        /\ pstNode1' = pstNode3 /\ pstNode3' = next[pstNode3] /\ u16J' = u16J + 1
        /\ UNCHANGED <<count, priority, pc, u16NodeCount, u16I, pstNode2, stage, kernelStarted>>
    BY DEF Exchange, input, clientVars
  <2> QED BY <1>2, <2>2, <2>3
<1>6. /\ \A i \in 0..count + 1 : q[i] \in Int
      /\ \A i \in 1..count : q[i] \in 1..count /\ q[i] # Null /\ q[i] # List
      /\ \A i, j \in 0..count : q[i] = q[j] => i = j
      /\ q[0] = List /\ q[count + 1] = Null
  BY Nodes DEF Line
<1>7. r[0] = List /\ r[count + 1] = Null /\ \A i \in 1..count : r[i] \in 1..count
  BY <1>4 DEF Line
<1>8. /\ n \in Nat /\ n >= 1 /\ n + 1 <= count
      /\ next \in [{List} \cup 1..count -> Null..count]
      /\ q[n] \in 1..count /\ q[n + 1] \in 1..count /\ q[n - 1] \in {List} \cup 1..count
      /\ q[n + 2] \in Null..count
  <2>1. next \in [{List} \cup 1..count -> Null..count] /\ n \in Nat /\ n >= 1 /\ n + 1 <= count
    BY <1>1, <1>2 DEF SortTypes
  <2>2. n - 1 = 0 \/ n - 1 \in 1..count
    BY <1>1, <2>1
  <2>3. n + 2 = count + 1 \/ n + 2 \in 1..count
    BY <1>1, <2>1
  <2>4. q[n - 1] \in {List} \cup 1..count
    BY <1>6, <2>2
  <2>5. q[n + 2] \in Null..count
    BY <1>1, <1>6, <2>3 DEF Null
  <2>6. q[n] \in 1..count /\ q[n + 1] \in 1..count
    BY <1>1, <1>6, <2>1
  <2> QED BY <2>1, <2>4, <2>5, <2>6
<1>range. count \in Nat /\ n \in Nat /\ n >= 1 /\ n + 1 <= count
  BY <1>1, <1>8
<1>9. SortTypes'
  <2>1. next' \in [{List} \cup 1..count -> Null..count]
    BY <1>5, <1>8 DEF Null
  <2> QED BY <1>5, <2>1 DEF SortTypes
<1>10. Linked(r)'
  <2>0. count \in Nat /\ n \in Nat /\ n >= 1 /\ n + 1 <= count
    BY <1>range
  <2>1. /\ next'[q[n - 1]] = q[n + 1] /\ next'[q[n + 1]] = q[n] /\ next'[q[n]] = q[n + 2]
        /\ \A i \in 0..count : i \notin {n - 1, n, n + 1} => next'[q[i]] = next[q[i]]
    <3>1. q[n - 1] # q[n + 1] /\ q[n - 1] # q[n] /\ q[n] # q[n + 1]
      <4>1. /\ n - 1 \in 0..count /\ n \in 0..count /\ n + 1 \in 0..count
            /\ n - 1 # n + 1 /\ n - 1 # n /\ n # n + 1
        BY <1>range
      <4> QED BY <1>6, <4>1
    <3>2. \A i \in 0..count : i \notin {n - 1, n, n + 1} =>
            q[i] # q[n - 1] /\ q[i] # q[n + 1] /\ q[i] # q[n] /\ q[i] \in {List} \cup 1..count
      <4>1. n - 1 \in 0..count /\ n \in 0..count /\ n + 1 \in 0..count
        BY <1>range
      <4>2. \A i \in 0..count : i = 0 \/ i \in 1..count
        BY <1>range
      <4> QED BY <1>6, <4>1, <4>2
    <3> QED BY <1>5, <1>8, <3>1, <3>2
  <2>2. \A i \in 0..count : next[q[i]] = q[i + 1]
    BY <1>1, <1>6 DEF Linked
  <2>3. \A i \in 0..count : next'[r[i]] = r[i + 1]
    <3> SUFFICES ASSUME NEW i \in 0..count PROVE next'[r[i]] = r[i + 1]
      OBVIOUS
    <3>1. CASE i = n - 1
      <4>1. r[i] = q[i] /\ i + 1 = n
        BY <1>4, <1>range, <3>1
      <4> QED BY <1>4, <2>1, <3>1, <4>1
    <3>2. CASE i = n
      BY <1>4, <1>range, <2>1, <3>2
    <3>3. CASE i = n + 1
      <4>1. r[n + 2] = q[n + 2] /\ i + 1 = n + 2
        BY <1>4, <1>range, <3>3
      <4> QED BY <1>4, <2>1, <3>3, <4>1
    <3>4. CASE i \notin {n - 1, n, n + 1}
      <4>1. /\ i \in 0..count + 1 /\ i # n /\ i # n + 1
            /\ i + 1 \in 0..count + 1 /\ i + 1 # n /\ i + 1 # n + 1
        BY <1>range, <3>4
      <4>2. r[i] = q[i] /\ r[i + 1] = q[i + 1]
        BY <1>4, <4>1
      <4> QED BY <2>1, <2>2, <3>4, <4>2
    <3> QED BY <3>1, <3>2, <3>3, <3>4
  <2>4. next'[List] = r[1]
    BY <1>1, <1>7, <2>3
  <2>5. kernelStarted' = <<>> /\ Len(kernelStarted') = 0 /\ count' = count
    BY <1>1, <1>5
  <2> QED BY <1>1, <2>3, <2>4, <2>5 DEF Linked
<1>11. Stable(r)'
  <2> SUFFICES ASSUME NEW i \in 1..count, NEW j \in 1..count, i < j,
                      priority[r[i]] = priority[r[j]]
               PROVE  r[i] > r[j]
    BY <1>5 DEF Stable
  <2>1. \A k, l \in 1..count : k < l /\ priority[q[k]] = priority[q[l]] => q[k] > q[l]
    BY DEF Sorting, Stable
  <2>2. priority[q[n]] # priority[q[n + 1]]
    <3>1. priority[q[n]] \in Nat /\ priority[q[n + 1]] \in Nat
      BY <1>8 DEF SortTypes
    <3> QED BY <1>3, <3>1
  <2>3. CASE i = n
    <3>1. CASE j = n + 1
      BY <1>4, <2>2, <2>3, <3>1
    <3>2. CASE j > n + 1
      <4>1. r[i] = q[n + 1] /\ r[j] = q[j]
        BY <1>4, <1>range, <2>3, <3>2
      <4> QED BY <1>range, <2>1, <3>2, <4>1
    <3> QED BY <1>8, <2>3, <3>1, <3>2
  <2>4. CASE i = n + 1
    <3>1. r[i] = q[n] /\ r[j] = q[j] /\ n \in 1..count
      <4>1. j \in 0..count + 1 /\ j # n /\ j # n + 1
        BY <1>range, <2>4
      <4> QED BY <1>4, <1>range, <2>4, <4>1
    <3> QED BY <1>range, <2>1, <2>4, <3>1
  <2>5. CASE i # n /\ i # n + 1
    <3>1. r[i] = q[i]
      BY <1>1, <1>4, <2>5
    <3>2. CASE j = n
      <4>1. r[j] = q[n + 1] /\ i < n + 1 /\ n + 1 \in 1..count
        BY <1>4, <1>8, <3>2
      <4> QED BY <2>1, <3>1, <4>1
    <3>3. CASE j = n + 1
      <4>1. r[j] = q[n] /\ i < n /\ n \in 1..count
        BY <1>4, <1>range, <2>5, <3>3
      <4> QED BY <2>1, <3>1, <4>1
    <3>4. CASE j # n /\ j # n + 1
      <4>1. r[j] = q[j]
        BY <1>1, <1>4, <3>4
      <4> QED BY <2>1, <3>1, <4>1
    <3> QED BY <3>2, <3>3, <3>4
  <2> QED BY <2>3, <2>4, <2>5
<1>12. Settled(r, u16I)'
  <2> SUFFICES ASSUME NEW i \in 1..count, NEW j \in 1..count, i < j, j > count - u16I
               PROVE  priority[r[i]] <= priority[r[j]]
    BY <1>5 DEF Settled
  <2>1. \A k, l \in 1..count : k < l /\ l > count - u16I => priority[q[k]] <= priority[q[l]]
    BY DEF Sorting, Settled
  <2>2. j > n + 1 /\ r[j] = q[j]
    BY <1>1, <1>2, <1>4, <1>8
  <2>3. PICK k \in 1..count : k < j /\ r[i] = q[k]
    <3>1. CASE i = n
      BY <1>4, <1>8, <2>2, <3>1
    <3>2. CASE i = n + 1
      BY <1>1, <1>4, <1>8, <2>2, <3>2
    <3>3. CASE i # n /\ i # n + 1
      BY <1>1, <1>4, <3>3
    <3> QED BY <3>1, <3>2, <3>3
  <2> QED BY <2>1, <2>2, <2>3
<1>13. Neighbours(r)'
  <2>1. /\ u16I' = u16I /\ u16J' = n /\ n \in 0..count - u16I - 1 /\ u16I < count - 1
    BY <1>1, <1>2, <1>5, <1>8 DEF Neighbours
  <2>2. pstNode1' = r[n] /\ pstNode2' = r[n + 1] /\ pstNode3' = r[n + 2]
    <3>1. n + 2 \in 0..count + 1 /\ n + 2 # n /\ n + 2 # n + 1
      BY <1>range
    <3> QED BY <1>4, <1>5, <3>1
  <2>3. ASSUME NEW i \in 1..n PROVE priority[r[i]] <= priority[r[n + 1]]
    <3>1. priority[q[n]] \in Nat /\ priority[q[n + 1]] \in Nat
      BY <1>8 DEF SortTypes
    <3>2. CASE i = n
      BY <1>3, <1>4, <3>1, <3>2
    <3>3. CASE i # n
      <4>1. i \in 1..u16J /\ n = u16J + 1
        BY <1>2, <1>8, <3>3
      <4>2. r[i] = q[i] /\ priority[q[i]] <= priority[q[n]]
        BY <1>1, <1>4, <1>8, <3>3, <4>1 DEF Neighbours
      <4> QED BY <1>4, <4>2
    <3> QED BY <3>2, <3>3
  <2> QED BY <1>5, <2>1, <2>2, <2>3 DEF Neighbours
<1>14. Sorting(r)'
  <2>1. pc = "inner" /\ pc' = "inner" /\ u16NodeCount' = count'
    BY <1>1, <1>5 DEF Exchange, InLoop
  <2> QED BY <1>5, <1>10, <1>11, <1>12, <1>13, <2>1 DEF Sorting
<1>15. Staged'
  <2>1. pc = "inner" /\ stage = "sort"
    BY DEF Exchange, InLoop, Staged
  <2> QED BY <1>5, <2>1 DEF Staged
<1>16. r \in Line'
  BY <1>4, <1>5 DEF Line
<1> QED BY <1>9, <1>14, <1>15, <1>16 DEF SortInv

\* The steps of the sort that leave the list alone.
LEMMA LookSorts ==
  ASSUME SortTypes, Staged, NEW q \in Line, Sorting(q), UNCHANGED clientVars,
         CountNode \/ StartPass \/ Advance \/ EndPass \/ Return
  PROVE  SortInv'
<1>1. /\ count \in Nat \ {0} /\ u16NodeCount \in 1..count /\ u16I \in 0..count - 1
      /\ priority \in [1..count -> Nat]
  BY DEF SortTypes
<1>2. /\ q[0] = List /\ q[count + 1] = Null
      /\ \A i \in 1..count : q[i] \in 1..count /\ q[i] # Null
  BY Nodes DEF Line
<1>3. stage = "sort" /\ kernelStarted = <<>>
  BY DEF Staged, CountNode, StartPass, Advance, InLoop, EndPass, Return
<1>4. UNCHANGED <<count, priority, next, stage, kernelStarted>>
  BY DEF clientVars, CountNode, StartPass, Advance, EndPass, Return, input
<1>5. q \in Line' /\ Staged' /\ Linked(q)' /\ Stable(q)'
  BY <1>3, <1>4 DEF Line, Staged, Sorting, Linked, Stable
<1>6. next[List] = q[1] /\ \A i \in 1..count : next[q[i]] = q[i + 1]
  BY <1>3 DEF Sorting, Linked
<1>7. SortTypes' /\ Sorting(q)'
  <2>1. CASE CountNode
    <3>1. /\ pc = "count" /\ pstNode1 = q[u16NodeCount] /\ next[pstNode1] = q[u16NodeCount + 1]
          /\ u16I' = u16I /\ u16I = 0
      BY <1>1, <1>6, <2>1 DEF CountNode, Sorting
    <3>2. CASE next[pstNode1] # Null
      <4>1. /\ pc' = "count" /\ u16NodeCount' = u16NodeCount + 1
            /\ pstNode1' = q[u16NodeCount + 1] /\ u16NodeCount + 1 \in 1..count
        <5>1. u16NodeCount # count
          BY <1>2, <3>1, <3>2
        <5>2. u16NodeCount + 1 \in 1..count
          BY <1>1, <5>1
        <5> QED BY <2>1, <3>1, <3>2, <5>2 DEF CountNode
      <4> QED BY <1>4, <1>5, <3>1, <4>1 DEF SortTypes, Sorting, Settled
    <3>3. CASE next[pstNode1] = Null
      <4>1. pc' = "pass" /\ u16NodeCount' = u16NodeCount /\ u16NodeCount = count
        <5>1. u16NodeCount + 1 \notin 1..count
          BY <1>2, <3>1, <3>3
        <5>2. u16NodeCount = count
          BY <1>1, <5>1
        <5> QED BY <2>1, <3>3, <5>2 DEF CountNode
      <4> QED BY <1>4, <1>5, <3>1, <4>1 DEF SortTypes, Sorting, Settled
    <3> QED BY <3>2, <3>3
  <2>2. CASE StartPass
    <3>1. /\ pc' = "inner" /\ u16NodeCount = count /\ UNCHANGED <<u16NodeCount, u16I>>
          /\ u16I < count - 1 /\ u16J' = 0 /\ 1 \in 1..count
          /\ pstNode1' = List /\ pstNode2' = next[List] /\ pstNode3' = next[next[List]]
      BY <1>1, <2>2 DEF StartPass, Sorting
    <3>2. pstNode2' = q[1] /\ pstNode3' = q[2]
      BY <1>6, <3>1
    <3>3. Neighbours(q)'
      BY <1>1, <1>2, <1>4, <3>1, <3>2 DEF Neighbours
    <3> QED BY <1>4, <1>5, <3>1, <3>3 DEF SortTypes, Sorting, Settled
  <2>3. CASE Advance
    <3>1. /\ pc = "inner" /\ pc' = pc /\ u16NodeCount = count /\ UNCHANGED <<u16NodeCount, u16I>>
          /\ Neighbours(q) /\ u16J < count - u16I - 1 /\ u16J' = u16J + 1
          /\ pstNode1' = pstNode2 /\ pstNode2' = pstNode3 /\ pstNode3' = next[pstNode3]
          /\ ~(priority[pstNode2] > priority[pstNode3])
      BY <2>3 DEF Advance, InLoop, OutOfOrder, Sorting
    <3>2. u16J \in Nat /\ u16J + 1 \in 1..count /\ u16J + 2 \in 1..count /\ (u16J + 2) + 1 = u16J + 3
      BY <1>1, <3>1 DEF Neighbours
    <3>3. /\ pstNode1' = q[u16J + 1] /\ pstNode2' = q[u16J + 2] /\ pstNode3' = q[u16J + 3]
          /\ priority[q[u16J + 1]] <= priority[q[u16J + 2]]
      <4>1. pstNode2 = q[u16J + 1] /\ pstNode3 = q[u16J + 2]
        BY <3>1 DEF Neighbours
      <4>2. priority[q[u16J + 1]] \in Nat /\ priority[q[u16J + 2]] \in Nat
        BY <1>1, <1>2, <3>2
      <4> QED BY <1>6, <3>1, <3>2, <4>1, <4>2
    <3>4. \A i \in 1..u16J + 1 : priority[q[i]] <= priority[q[u16J + 2]]
      <4> SUFFICES ASSUME NEW i \in 1..u16J + 1 PROVE priority[q[i]] <= priority[q[u16J + 2]]
        OBVIOUS
      <4>0. i \in 1..count
        BY <1>1, <3>2
      <4>1. priority[q[i]] \in Nat /\ priority[q[u16J + 1]] \in Nat /\ priority[q[u16J + 2]] \in Nat
        BY <1>1, <1>2, <3>2, <4>0
      <4>2. priority[q[i]] <= priority[q[u16J + 1]]
        BY <3>1, <3>2, <4>1 DEF Neighbours
      <4> QED BY <3>3, <4>1, <4>2
    <3>5. Neighbours(q)'
      BY <1>1, <1>4, <3>1, <3>2, <3>3, <3>4 DEF Neighbours
    <3> QED BY <1>4, <1>5, <3>1, <3>5 DEF SortTypes, Sorting, Settled
  <2>4. CASE EndPass
    <3>1. /\ pc = "inner" /\ pc' = "pass" /\ u16NodeCount = count /\ UNCHANGED u16NodeCount
          /\ u16I' = u16I + 1 /\ Neighbours(q) /\ u16J = count - u16I - 1 /\ u16I < count - 1
      BY <1>1, <2>4 DEF EndPass, InLoop, Sorting, Neighbours
    <3>2. Settled(q, u16I)'
      <4> SUFFICES ASSUME NEW i \in 1..count, NEW j \in 1..count, i < j, j > count - (u16I + 1)
                   PROVE  priority[q[i]] <= priority[q[j]]
        BY <1>4, <3>1 DEF Settled
      <4>1. CASE j > count - u16I
        BY <4>1 DEF Sorting, Settled
      <4>2. CASE j = count - u16I
        BY <1>1, <3>1, <4>2 DEF Neighbours
      <4> QED BY <1>1, <4>1, <4>2
    <3> QED BY <1>1, <1>4, <1>5, <3>1, <3>2 DEF SortTypes, Sorting
  <2>5. CASE Return
    BY <1>1, <1>4, <1>5, <2>5 DEF Return, SortTypes, Sorting, Settled
  <2> QED BY <2>1, <2>2, <2>3, <2>4, <2>5
<1> QED BY <1>5, <1>7 DEF SortInv

\* The head of the kernel start queue is run.
LEMMA KernelStartSorts ==
  ASSUME SortTypes, Staged, NEW q \in Line, Sorting(q), RunKernelStart
  PROVE  SortInv'
<1> DEFINE m == Len(kernelStarted)
<1>1. /\ count \in Nat \ {0} /\ kernelStarted \in Seq(1..count) /\ m \in 0..count
      /\ next[List] = q[m + 1] /\ next[List] # Null
      /\ next \in [{List} \cup 1..count -> Null..count]
  <2>1. /\ count \in Nat \ {0} /\ kernelStarted \in Seq(1..count) /\ next[List] # Null
        /\ next \in [{List} \cup 1..count -> Null..count]
    BY DEF SortTypes, RunKernelStart
  <2>2. next[List] = q[m + 1] /\ m <= count
    BY DEF Sorting, Linked
  <2> QED BY <2>1, <2>2
<1>2. /\ q[count + 1] = Null /\ \A i \in 1..count : q[i] \in 1..count /\ q[i] # List
  BY Nodes DEF Line
<1>3. m + 1 \in 1..count
  BY <1>1, <1>2
<1>4. pc = "done" /\ stage = "kernel"
  BY DEF Staged, RunKernelStart
<1>5. /\ kernelStarted' = Append(kernelStarted, q[m + 1])
      /\ next' = [next EXCEPT ![List] = q[(m + 1) + 1]]
      /\ UNCHANGED <<count, priority, pc, u16NodeCount, u16I, u16J, pstNode1, pstNode2, pstNode3>>
  BY <1>1, <1>3 DEF RunKernelStart, table, Sorting, Linked
<1>6. stage' \in {"register", "kernel"}
  BY DEF RunKernelStart
<1>7. /\ kernelStarted' \in Seq(1..count) /\ Len(kernelStarted') = m + 1
      /\ \A i \in 1..m : kernelStarted'[i] = kernelStarted[i]
      /\ kernelStarted'[m + 1] = q[m + 1]
  <2>1. q[m + 1] \in 1..count
    BY <1>2, <1>3
  <2> QED BY <1>1, <1>5, <2>1
<1>8. q[(m + 1) + 1] \in Null..count
  <2>1. (m + 1) + 1 = count + 1 \/ (m + 1) + 1 \in 1..count
    BY <1>1, <1>3
  <2> QED BY <1>1, <1>2, <2>1 DEF Null
<1>9. SortTypes'
  BY <1>1, <1>5, <1>7, <1>8 DEF SortTypes
<1>10. Linked(q)'
  <2>1. \A i \in 1..count : next'[q[i]] = q[i + 1]
    BY <1>1, <1>2, <1>5 DEF Sorting, Linked
  <2>2. next'[List] = q[(m + 1) + 1]
    BY <1>1, <1>5, <1>8
  <2>3. \A i \in 1..m + 1 : kernelStarted'[i] = q[i]
    <3>1. \A i \in 1..m : kernelStarted[i] = q[i]
      BY DEF Sorting, Linked
    <3>2. \A i \in 1..m + 1 : i = m + 1 \/ i \in 1..m
      BY <1>1
    <3> HIDE DEF m
    <3> QED BY <1>7, <3>1, <3>2
  <2> QED BY <1>3, <1>5, <1>7, <2>1, <2>2, <2>3 DEF Linked
<1>11. Sorting(q)'
  BY <1>4, <1>5, <1>10 DEF Sorting, Stable, Settled
<1>12. q \in Line' /\ Staged'
  BY <1>4, <1>5, <1>6 DEF Line, Staged
<1> QED BY <1>9, <1>11, <1>12 DEF SortInv

LEMMA SortKeeps == SortInv /\ [Next]_vars => SortInv'
<1> SUFFICES ASSUME SortTypes, Staged, NEW q \in Line, Sorting(q), [Next]_vars PROVE SortInv'
  BY DEF SortInv
<1>1. CASE SortStep
  BY <1>1, ExchangeSorts, LookSorts DEF SortStep, SortNext
<1>2. CASE RunKernelStart
  BY <1>2, KernelStartSorts
<1>3. ASSUME UNCHANGED <<count, priority, pc, u16NodeCount, u16I, u16J, pstNode1, pstNode2,
                         pstNode3, next, kernelStarted>>,
             Staged'
      PROVE  SortInv'
  <2>1. SortTypes' /\ Sorting(q)' /\ q \in Line'
    BY <1>3 DEF SortTypes, Sorting, Linked, Stable, Settled, Neighbours, Line
  <2> QED BY <1>3, <2>1 DEF SortInv
<1>4. CASE RunKernelQueue
  BY <1>3, <1>4 DEF RunKernelQueue, table, Staged
<1>5. CASE RegisterModule
  BY <1>3, <1>5 DEF RegisterModule, table, Staged
<1>6. CASE NextLoop
  BY <1>3, <1>6 DEF NextLoop, table, Staged
<1>7. CASE StartClients
  BY <1>3, <1>7 DEF StartClients, table, Staged
<1>8. CASE RunClientStart
  BY <1>3, <1>8 DEF RunClientStart, table, Staged
<1>9. CASE Schedule
  BY <1>3, <1>9 DEF Schedule, table, Staged
<1>10. CASE UNCHANGED vars
  BY <1>3, <1>10 DEF vars, sortVars, clientVars, Staged
<1> QED BY <1>1, <1>2, <1>4, <1>5, <1>6, <1>7, <1>8, <1>9, <1>10 DEF Next

-----------------------------------------------------------------------------
LEMMA QueueBegins == Init => StartQueue
<1> SUFFICES ASSUME Init PROVE StartQueue
  OBVIOUS
<1>1. /\ queue = [k \in Kinds |-> <<>>] /\ queue["start"] = <<>> /\ started = <<>> /\ Starts = 0
      /\ Len(queue["start"]) = 0 /\ Len(started) = 0
  BY KindsAre DEF Init, Starts
<1> QED BY <1>1 DEF StartQueue

LEMMA ModuleOfNode ==
  ASSUME IInv, NEW i \in 1..Len(pool)
  PROVE  pool[i].module \in 1..NModule
<1>1. pool[i] \in Node
  BY DEF IInv, Types
<1> QED BY <1>1 DEF Node

\* A task registered by another loop leaves the start tasks alone.
LEMMA OtherRegistered ==
  ASSUME IInv, StartQueue, NEW k \in Kinds \ {"start"}, NEW m, AddTaskToQueue(k, m),
         Len(pool) < PoolMax
  PROVE  /\ \A i \in 1..Len(pool) : pool'[i] = pool[i]
         /\ Starts' = Starts
         /\ queue' \in [Kinds -> Seq(Nat)] /\ queue'["start"] = queue["start"]
<1> DEFINE node == [kind |-> k, module |-> m, function |-> Function[k]]
<1>1. /\ pool' = Append(pool, node) /\ poolCount' = [poolCount EXCEPT ![k] = @ + 1]
      /\ queue' = [queue EXCEPT ![k] = <<Len(pool) + 1>> \o @]
  BY DEF AddTaskToQueue
<1> HIDE DEF node
<1>2. /\ pool \in Seq(Node) /\ poolCount \in [Kinds -> Nat] /\ queue \in [Kinds -> Seq(Nat)]
      /\ "start" \in Kinds /\ Len(pool) + 1 \in Nat
  BY KindsAre DEF IInv, Types, StartQueue
<1>3. \A i \in 1..Len(pool) : pool'[i] = pool[i]
  BY <1>1, <1>2
<1>4. Starts' = Starts /\ queue'["start"] = queue["start"]
  BY <1>1, <1>2 DEF Starts
<1>5. <<Len(pool) + 1>> \o queue[k] \in Seq(Nat)
  BY <1>2
<1> QED BY <1>1, <1>2, <1>3, <1>4, <1>5

\* A start task registered in front of the start queue.
LEMMA StartRegistered ==
  ASSUME IInv, StartQueue, loop = 1, Len(pool) < PoolMax, u32ModuleIDX \in 1..NModule,
         AddTaskToQueue("start", u32ModuleIDX), u32ModuleIDX' = u32ModuleIDX + 1,
         started = <<>>, UNCHANGED <<loop, started, stage>>
  PROVE  StartQueue'
<1> DEFINE n == Len(pool)
           node == [kind |-> "start", module |-> u32ModuleIDX, function |-> Function["start"]]
           s == queue["start"]
<1>1. /\ n \in Nat /\ Starts = n /\ pool \in Seq(Node) /\ poolCount \in [Kinds -> Nat]
      /\ "start" \in Kinds /\ u32ModuleIDX \in Nat
  BY KindsAre DEF IInv, Types, Counted
<1>2. /\ pool' = Append(pool, node) /\ queue' = [queue EXCEPT !["start"] = <<n + 1>> \o s]
      /\ poolCount' = [poolCount EXCEPT !["start"] = @ + 1]
  BY DEF AddTaskToQueue
<1>3. node.module = u32ModuleIDX
  OBVIOUS
<1> HIDE DEF node
<1>4. Starts' = n + 1
  BY <1>1, <1>2 DEF Starts
<1>5. /\ \A i \in 1..n : pool'[i] = pool[i]
      /\ pool'[n + 1] = node
  BY <1>1, <1>2
<1>6. s \in Seq(Nat) /\ queue \in [Kinds -> Seq(Nat)] /\ Len(s) \in Nat
  BY <1>1 DEF StartQueue
<1>7. /\ queue'["start"] \in Seq(Nat) /\ Len(queue'["start"]) = Len(s) + 1
      /\ queue'["start"][1] = n + 1
      /\ \A i \in 1..Len(s) : queue'["start"][i + 1] = s[i]
      /\ queue' \in [Kinds -> Seq(Nat)]
  BY <1>1, <1>2, <1>6
<1>8. started \in Seq(1..NModule) /\ Len(s) + Len(started) = n /\ Len(started) \in Nat
  BY <1>1 DEF StartQueue
<1>9. Len(started) = 0 /\ Len(s) = n
  BY <1>8
<1>10. ASSUME NEW i \in 1..n + 1 PROVE queue'["start"][i] = n + 2 - i
  <2>1. CASE i = 1
    BY <1>1, <1>7, <2>1
  <2>2. CASE i # 1
    <3>1. i - 1 \in 1..Len(s) /\ i = (i - 1) + 1
      BY <1>1, <1>9, <2>2
    <3>2. queue'["start"][i] = s[i - 1] /\ s[i - 1] = n + 1 - (i - 1)
      BY <1>7, <1>9, <3>1 DEF StartQueue
    <3> QED BY <1>1, <3>2
  <2> QED BY <2>1, <2>2
<1>11. \A i \in 1..n + 1 : pool'[i].module < u32ModuleIDX + 1
  <2> SUFFICES ASSUME NEW i \in 1..n + 1 PROVE pool'[i].module < u32ModuleIDX + 1
    OBVIOUS
  <2>1. CASE i = n + 1
    BY <1>1, <1>3, <1>5, <2>1
  <2>2. CASE i \in 1..n
    <3>1. pool[i].module \in 1..NModule
      BY <2>2, ModuleOfNode
    <3>2. pool[i].module < u32ModuleIDX
      BY <1>1, <2>2 DEF StartQueue
    <3> QED BY <1>1, <1>5, <2>2, <3>1, <3>2
  <2> QED BY <1>1, <2>1, <2>2
<1>12. \A i, j \in 1..n + 1 : i < j => pool'[i].module < pool'[j].module
  <2> SUFFICES ASSUME NEW i \in 1..n + 1, NEW j \in 1..n + 1, i < j
               PROVE  pool'[i].module < pool'[j].module
    OBVIOUS
  <2>1. i \in 1..n /\ pool'[i] = pool[i]
    BY <1>1, <1>5
  <2>2. CASE j = n + 1
    BY <1>1, <1>3, <1>5, <2>1, <2>2 DEF StartQueue
  <2>3. CASE j \in 1..n
    BY <1>1, <1>5, <2>1, <2>3 DEF StartQueue
  <2> QED BY <1>1, <2>2, <2>3
<1>13. started' = <<>> /\ Len(started') = 0
  BY <1>9
<1>14. Len(queue'["start"]) = n + 1 /\ (n + 1) + 1 = n + 2
  BY <1>1, <1>7, <1>9
<1>15. /\ Len(queue'["start"]) + Len(started') = Starts'
       /\ \A i \in 1..Len(queue'["start"]) : queue'["start"][i] = Len(queue'["start"]) + 1 - i
  BY <1>1, <1>4, <1>10, <1>13, <1>14
<1>16. /\ started' \in Seq(1..NModule)
       /\ \A i \in 1..Len(started') : started'[i] = pool'[Starts' + 1 - i].module
  BY <1>8, <1>13
<1>17. /\ \A i, j \in 1..Starts' : i < j => pool'[i].module < pool'[j].module
       /\ loop' = 1 => \A i \in 1..Starts' : pool'[i].module < u32ModuleIDX'
  BY <1>4, <1>11, <1>12
<1> QED BY <1>7, <1>13, <1>15, <1>16, <1>17 DEF StartQueue

LEMMA QueueKeeps == IInv /\ IInv' /\ StartQueue /\ [Next]_vars => StartQueue'
<1> SUFFICES ASSUME IInv, IInv', StartQueue, [Next]_vars PROVE StartQueue'
  OBVIOUS
<1>1. /\ Starts \in Nat /\ pool \in Seq(Node) /\ "start" \in Kinds /\ loop \in 1..3
      /\ Starts <= Len(pool) /\ poolCount \in [Kinds -> Nat] /\ u32ModuleIDX \in Nat
  BY KindsAre DEF IInv, Types, Counted, Starts, Cyclics
<1>2. ASSUME UNCHANGED <<pool, poolCount, queue, started>>,
             loop' = 1 => loop = 1 /\ u32ModuleIDX' >= u32ModuleIDX /\ u32ModuleIDX' \in Nat,
             stage' \notin {"clients", "scheduled"} => stage \notin {"clients", "scheduled"}
      PROVE  StartQueue'
  <2>1. Starts' = Starts
    BY <1>2 DEF Starts
  <2>2. loop' = 1 => \A i \in 1..Starts : pool[i].module < u32ModuleIDX'
    <3> SUFFICES ASSUME loop' = 1, NEW i \in 1..Starts PROVE pool[i].module < u32ModuleIDX'
      OBVIOUS
    <3>1. pool[i].module \in 1..NModule
      BY <1>1, ModuleOfNode
    <3>2. pool[i].module < u32ModuleIDX
      BY <1>2 DEF StartQueue
    <3> QED BY <1>1, <1>2, <3>1, <3>2
  <2> QED BY <1>2, <2>1, <2>2 DEF StartQueue
<1>3. CASE RegisterModule
  <2>1. /\ u32ModuleIDX \in 1..NModule /\ u32ModuleIDX' = u32ModuleIDX + 1 /\ stage = "register"
        /\ UNCHANGED <<loop, started, stage>>
    BY <1>1, <1>3, CountsAssumption DEF RegisterModule, IInv, Types
  <2>2. started = <<>>
    BY <2>1 DEF StartQueue
  <2>3. CASE UNCHANGED <<pool, poolCount, queue>>
    BY <1>1, <1>2, <2>1, <2>3
  <2>4. CASE AddTaskToQueue(Kind[loop], u32ModuleIDX) /\ Len(pool) < PoolMax
    <3>1. CASE loop = 1
      BY <2>1, <2>2, <2>4, <3>1, KindOfLoop, StartRegistered
    <3>2. CASE loop # 1
      <4>1. Kind[loop] \in Kinds /\ Kind[loop] # "start"
        BY <1>1, <3>2, KindsAre, KindOfLoop
      <4>2. /\ \A i \in 1..Starts : pool'[i] = pool[i]
            /\ Starts' = Starts /\ queue' \in [Kinds -> Seq(Nat)] /\ queue'["start"] = queue["start"]
        <5>1. \A i \in 1..Len(pool) : pool'[i] = pool[i]
          BY <2>4, <4>1, OtherRegistered
        <5> QED BY <1>1, <2>4, <4>1, <5>1, OtherRegistered
      <4>3. started' = <<>> /\ Len(started') = 0 /\ Len(started) = 0 /\ loop' # 1
        BY <2>1, <2>2, <3>2
      <4>4. \A i, j \in 1..Starts' : i < j => pool'[i].module < pool'[j].module
        BY <4>2 DEF StartQueue
      <4>5. started' \in Seq(1..NModule) /\ Len(queue'["start"]) + Len(started') = Starts'
        BY <4>2, <4>3 DEF StartQueue
      <4>6. \A i \in 1..Len(queue'["start"]) : queue'["start"][i] = Len(queue'["start"]) + 1 - i
        BY <4>2 DEF StartQueue
      <4> QED BY <4>2, <4>3, <4>4, <4>5, <4>6 DEF StartQueue
    <3> QED BY <3>1, <3>2
  <2> QED BY <1>3, <2>3, <2>4 DEF RegisterModule, AddTaskToQueue, registry
<1>4. CASE NextLoop
  <2>1. loop' # 1
    BY <1>1, <1>4, KindOfLoop DEF NextLoop
  <2> QED BY <1>2, <1>4, <2>1 DEF NextLoop, registry
<1>5. CASE RunClientStart
  <2> DEFINE s == queue["start"]
             m == Len(started)
  <2>1. /\ s \in Seq(Nat) /\ s # <<>> /\ started \in Seq(1..NModule) /\ Len(s) + m = Starts
        /\ Len(s) \in Nat \ {0} /\ m \in Nat /\ queue \in [Kinds -> Seq(Nat)]
    BY <1>1, <1>5 DEF RunClientStart, StartQueue
  <2>2. Head(s) = Len(s) /\ Len(s) = Starts + 1 - (m + 1) /\ Len(s) \in 1..Len(pool)
    BY <1>1, <2>1 DEF StartQueue
  <2>3. /\ queue' = [queue EXCEPT !["start"] = Tail(s)] /\ stage' = stage
        /\ started' = Append(started, pool[Len(s)].module)
        /\ UNCHANGED <<pool, poolCount, loop, u32ModuleIDX>> /\ stage = "clients"
    BY <1>5, <2>2 DEF RunClientStart, registry
  <2>4. pool[Len(s)].module \in 1..NModule
    BY <2>2, ModuleOfNode
  <2>5. /\ started' \in Seq(1..NModule) /\ Len(started') = m + 1
        /\ \A i \in 1..m : started'[i] = started[i]
        /\ started'[m + 1] = pool[Len(s)].module
    BY <2>1, <2>3, <2>4
  <2>6. /\ queue' \in [Kinds -> Seq(Nat)] /\ queue'["start"] = Tail(s)
        /\ Len(Tail(s)) = Len(s) - 1
        /\ \A i \in 1..Len(s) - 1 : Tail(s)[i] = s[i + 1]
    BY <1>1, <2>1, <2>3
  <2>7. Starts' = Starts
    BY <2>3 DEF Starts
  <2>8. \A i \in 1..Len(s) - 1 : Tail(s)[i] = Len(s) - i
    <3> SUFFICES ASSUME NEW i \in 1..Len(s) - 1 PROVE Tail(s)[i] = Len(s) - i
      OBVIOUS
    <3>1. i + 1 \in 1..Len(s)
      BY <2>1
    <3>2. s[i + 1] = Len(s) + 1 - (i + 1)
      BY <3>1 DEF StartQueue
    <3>3. Tail(s)[i] = s[i + 1] /\ Len(s) \in Nat
      BY <2>1, <2>6
    <3> HIDE DEF s
    <3>4. Len(s) + 1 - (i + 1) = Len(s) - i
      BY <3>3
    <3> QED BY <3>2, <3>3, <3>4 DEF s
  <2>9. \A i \in 1..m + 1 : started'[i] = pool[Starts + 1 - i].module
    <3> SUFFICES ASSUME NEW i \in 1..m + 1 PROVE started'[i] = pool[Starts + 1 - i].module
      OBVIOUS
    <3>1. CASE i = m + 1
      BY <2>2, <2>5, <3>1
    <3>2. CASE i \in 1..m
      BY <2>5, <3>2 DEF StartQueue
    <3> QED BY <2>1, <3>1, <3>2
  <2>10. \A i \in 1..Len(Tail(s)) : Tail(s)[i] = Len(Tail(s)) + 1 - i
    <3> HIDE DEF s
    <3> QED BY <2>1, <2>6, <2>8
  <2>11. Len(Tail(s)) + Len(started') = Starts
    <3>1. Len(Tail(s)) = Len(s) - 1 /\ Len(started') = m + 1 /\ Len(s) + m = Starts
      BY <2>1, <2>5, <2>6
    <3>2. Len(s) \in Nat /\ m \in Nat
      BY <2>1
    <3>3. (Len(s) - 1) + (m + 1) = Len(s) + m
      <4> HIDE DEF s, m
      <4> QED BY <3>2
    <3> QED BY <3>1, <3>3, Zenon
  <2> HIDE DEF s
  <2> QED BY <2>3, <2>5, <2>6, <2>7, <2>9, <2>10, <2>11 DEF StartQueue
<1>6. CASE RunKernelQueue \/ RunKernelStart \/ StartClients \/ Schedule
  BY <1>1, <1>2, <1>6 DEF RunKernelQueue, RunKernelStart, StartClients, Schedule, registry
<1>7. CASE SortStep \/ UNCHANGED vars
  BY <1>1, <1>2, <1>7 DEF SortStep, vars, clientVars
<1> QED BY <1>3, <1>4, <1>5, <1>6, <1>7 DEF Next

(* The kernel's start tasks run by priority, and among equals the one      *)
(* further down the table first, all of them before any module; the        *)
(* modules start once each, the last of the table first (OS.c:209-269,     *)
(* 84-147): for every table of tasks, priorities and modules the in-place  *)
(* sort loses, repeats and passes over nothing.                            *)
THEOREM StartsInOrder == Spec => []StartedInOrder
<1>1. SortInv /\ IInv /\ StartQueue => StartedInOrder
  <2> SUFFICES ASSUME SortTypes, Staged, NEW q \in Line, Sorting(q), IInv, StartQueue
               PROVE  StartedInOrder
    BY DEF SortInv
  <2>1. /\ count \in Nat \ {0} /\ kernelStarted \in Seq(1..count) /\ Len(kernelStarted) \in 0..count
        /\ priority \in [1..count -> Nat] /\ next[List] = q[Len(kernelStarted) + 1]
        /\ \A i \in 1..Len(kernelStarted) : kernelStarted[i] = q[i]
    <3>1. /\ count \in Nat \ {0} /\ kernelStarted \in Seq(1..count)
          /\ priority \in [1..count -> Nat]
      BY DEF SortTypes
    <3>2. /\ Len(kernelStarted) <= count /\ next[List] = q[Len(kernelStarted) + 1]
          /\ \A i \in 1..Len(kernelStarted) : kernelStarted[i] = q[i]
      BY DEF Sorting, Linked
    <3> QED BY <3>1, <3>2
  <2>2. ASSUME NEW i \in 1..Len(kernelStarted), NEW j \in 1..Len(kernelStarted), i < j
        PROVE  Before(kernelStarted[i], kernelStarted[j])
    <3>1. stage # "sort" /\ pc = "done" /\ u16I = count - 1
      BY <2>2 DEF Staged, Sorting
    <3>2. /\ i \in 1..count /\ j \in 1..count /\ j > count - u16I
          /\ kernelStarted[i] = q[i] /\ kernelStarted[j] = q[j]
      BY <2>1, <2>2, <3>1
    <3>3. /\ priority[q[i]] <= priority[q[j]]
          /\ priority[q[i]] = priority[q[j]] => q[i] > q[j]
      BY <2>2, <3>2 DEF Sorting, Settled, Stable
    <3>4. priority[q[i]] \in Nat /\ priority[q[j]] \in Nat
      BY <2>1, <3>2 DEF Line
    <3> QED BY <3>2, <3>3, <3>4 DEF Before
  <2>3. ASSUME stage \in {"clients", "scheduled"} PROVE Len(kernelStarted) = count
    <3>1. q[Len(kernelStarted) + 1] = Null
      BY <2>1, <2>3 DEF Staged
    <3>2. Len(kernelStarted) + 1 \notin 1..count
      BY <3>1, Nodes
    <3> QED BY <2>1, <3>2
  <2>4. ASSUME NEW i \in 1..Len(started), NEW j \in 1..Len(started), i < j
        PROVE  started[i] > started[j]
    <3>1. /\ Starts \in Nat /\ Starts <= Len(pool) /\ pool \in Seq(Node) /\ Len(started) <= Starts
          /\ Len(started) \in Nat
      <4>1. /\ Starts \in Nat /\ Starts <= Len(pool) /\ pool \in Seq(Node) /\ "start" \in Kinds
        BY KindsAre DEF IInv, Types, Counted, Starts, Cyclics
      <4>2. Len(queue["start"]) \in Nat /\ Len(started) \in Nat
        BY <4>1 DEF StartQueue
      <4>3. Len(queue["start"]) + Len(started) = Starts
        BY DEF StartQueue
      <4> QED BY <4>1, <4>2, <4>3
    <3>2. /\ Starts + 1 - i \in 1..Starts /\ Starts + 1 - j \in 1..Starts
          /\ Starts + 1 - j < Starts + 1 - i
      BY <2>4, <3>1
    <3>3. /\ started[i] = pool[Starts + 1 - i].module /\ started[j] = pool[Starts + 1 - j].module
          /\ pool[Starts + 1 - j].module < pool[Starts + 1 - i].module
      BY <3>2 DEF StartQueue
    <3>4. started[i] \in 1..NModule /\ started[j] \in 1..NModule
      <4>1. started \in Seq(1..NModule)
        BY DEF StartQueue
      <4> QED BY <4>1, ElementOfSeq
    <3> QED BY <3>3, <3>4
  <2> QED BY <2>2, <2>3, <2>4 DEF StartedInOrder
<1> QED BY <1>1, SortBegins, SortKeeps, QueueBegins, QueueKeeps, Always, PTL DEF Spec

(* OS_vSchedule takes over with the client's start queue run to its end.   *)
Emptied == stage = "scheduled" => queue["start"] = <<>>

LEMMA EmptiedKept == Types /\ Emptied /\ [Next]_vars => Emptied'
BY DEF Types, Emptied, Next, SortStep, RunKernelQueue, RegisterModule, NextLoop, RunKernelStart,
       StartClients, RunClientStart, Schedule, vars, clientVars

(* No cyclic task is released before every module has been started whose   *)
(* registration was accepted, and no other module is started: the run of   *)
(* the start queue passes nothing over (OS.c:135-147, 351).                *)
StartedBeforeScheduled ==
  stage = "scheduled" =>
    {started[i] : i \in 1..Len(started)} = {pool[n].module : n \in NodesOf("start")}

(* For every table of modules and every pool, wherever it fills: the start *)
(* tasks are all over when the first cyclic task may run.                  *)
THEOREM NoneStartsLate == Spec => []StartedBeforeScheduled
<1>1. IInv /\ StartQueue /\ Emptied => StartedBeforeScheduled
  <2> SUFFICES ASSUME IInv, StartQueue, queue["start"] = <<>>
               PROVE  {started[i] : i \in 1..Len(started)} = {pool[n].module : n \in NodesOf("start")}
    BY DEF Emptied, StartedBeforeScheduled
  <2>1. Starts \in Nat /\ Cyclics \in Nat /\ Starts <= Cyclics /\ Cyclics <= Len(pool)
        /\ pool \in Seq(Node)
    BY KindsAre DEF IInv, Types, Counted, Starts, Cyclics
  <2>2. NodesOf("start") = 1..Starts
    BY <2>1 DEF IInv, LaidOut, Kept, NodesOf
  <2>3. Len(started) = Starts /\ \A i \in 1..Starts : started[i] = pool[Starts + 1 - i].module
    <3>1. Len(queue["start"]) = 0 /\ Len(started) \in Nat
      BY DEF StartQueue
    <3> QED BY <2>1, <3>1 DEF StartQueue
  <2> DEFINE s == Starts
  <2>4. s \in Nat /\ NodesOf("start") = 1..s /\ Len(started) = s
        /\ \A i \in 1..s : started[i] = pool[s + 1 - i].module
    BY <2>1, <2>2, <2>3
  <2> HIDE DEF s
  <2>5. \A n \in 1..s : s + 1 - n \in 1..s /\ s + 1 - (s + 1 - n) = n
    BY <2>4
  <2>6. \A n \in 1..s : pool[n].module = started[s + 1 - n]
    BY <2>4, <2>5
  <2>7. ASSUME NEW i \in 1..s PROVE \E n \in 1..s : started[i] = pool[n].module
    <3>1. s + 1 - i \in 1..s /\ started[i] = pool[s + 1 - i].module
      BY <2>4, <2>5
    <3> QED BY <3>1
  <2>8. ASSUME NEW n \in 1..s PROVE \E i \in 1..s : pool[n].module = started[i]
    <3>1. s + 1 - n \in 1..s /\ pool[n].module = started[s + 1 - n]
      BY <2>5, <2>6
    <3> QED BY <3>1
  <2>9. {started[i] : i \in 1..s} = {pool[n].module : n \in 1..s}
    <3> DEFINE l == {started[i] : i \in 1..s}
               m == {pool[n].module : n \in 1..s}
    <3>1. ASSUME NEW x \in l PROVE x \in m
      <4>1. PICK i \in 1..s : x = started[i]
        OBVIOUS
      <4> QED BY <2>7, <4>1
    <3>2. ASSUME NEW x \in m PROVE x \in l
      <4>1. PICK n \in 1..s : x = pool[n].module
        OBVIOUS
      <4> QED BY <2>8, <4>1
    <3> HIDE DEF l, m
    <3>3. l = m
      BY <3>1, <3>2
    <3> QED BY <3>3 DEF l, m
  <2> QED BY <2>4, <2>9, Zenon
<1>2. Init => Emptied
  BY DEF Init, Emptied
<1>3. IInv => Types
  BY DEF IInv
<1> QED BY <1>1, <1>2, <1>3, EmptiedKept, QueueBegins, QueueKeeps, Always, PTL DEF Spec
=============================================================================
