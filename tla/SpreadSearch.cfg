SPECIFICATION LookupSpec
CONSTANTS
  Spreads <- SpreadsInUse
  Sources <- Values
  Tables <- TablesInUse
  Maps <- MapsInUse
  ColumnOffsets = {0, 1, 8, 15}
  Scale = 16
  SizeMax = 17
INVARIANTS ReadsInside Located OffsetIsFraction TableBetween TableExact MapInterpolates
PROPERTY Terminates
CHECK_DEADLOCK FALSE
