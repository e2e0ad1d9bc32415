SPECIFICATION Spec
CONSTANTS
  Adc = Adc
  Tepm = Tepm
  Diag = Diag
  Null = Null
  Producer <- All
  Setups <- TwoLevels
  Level <- Urgency
  QueueSize = 4
  DataWriteCB = TRUE
PROPERTY ImplementsFifo
