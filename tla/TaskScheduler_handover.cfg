\* A tick may land between the last cyclic task and the thread load.
CONSTANTS
  NKernel = 2
  NClient = 2
  KernelRate <- MCKernelRate
  ClientRate <- MCClientRate
  NThread = 2
  TickMax = 7
SPECIFICATION Spec
INVARIANT ContextsIntact
CHECK_DEADLOCK FALSE
