CONSTANTS
  Queues <- MCQueues
  None = 0
  StuckMax = 5
SPECIFICATION ConversionSpec
INVARIANTS ResultsOwn
PROPERTIES EachServed
CHECK_DEADLOCK TRUE
