\* All kernel start queues of one to four tasks and all assignments of three
\* priorities; a pool that fills among the cyclic or the terminate tasks, or
\* not at all.
CONSTANTS
  NodeMax = 4
  PriorityMax = 2
  NModule = 2
  PoolMax = 3
SPECIFICATION Spec
INVARIANTS ReleasesCyclicTasks StartedInOrder
PROPERTIES StartsThenSchedules
CHECK_DEADLOCK FALSE
