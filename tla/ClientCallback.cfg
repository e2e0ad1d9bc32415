SPECIFICATION Spec
CONSTANTS
  Adc = Adc
  Tepm = Tepm
  Diag = Diag
  Null = Null
  Producer <- All
  Setups <- OneLevel
  Level <- Urgency
  QueueSize = 4
  DataWriteCB = TRUE
INVARIANT WriteDataKept
PROPERTY ImplementsFifo
