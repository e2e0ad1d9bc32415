\* Ticks land anywhere, or never in the hand-over.  The core stops being
\* modelled once control is lost.
CONSTANTS
  NKernel = 2
  NClient = 2
  KernelRate <- MCKernelRate
  ClientRate <- MCClientRate
  NThread = 2
  TickMax = 7
SPECIFICATION EitherSpec
INVARIANTS QueuesDescending ContextsIntactIfTimely
PROPERTIES ScheduleReleasesDue ImplementsCooperative
PROPERTIES ReleasedTaskRunsIfTimely ThreadsRoundRobinIfTimely
CHECK_DEADLOCK FALSE
