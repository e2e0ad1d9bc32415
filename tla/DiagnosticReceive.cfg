SPECIFICATION Spec
CONSTANTS
  Resource = {CAN1, CAN2}
  Invalid = Invalid
  Timeout = 2
  CounterWidth = 3
  SmallSize = 20
  U8 = 32
  SeqMod = 3
  SingleLength = {7}
  Traffics <- Either
INVARIANTS LockHasAlarm RequestWhole BlockWhole OneTester
PROPERTY LockReleased
