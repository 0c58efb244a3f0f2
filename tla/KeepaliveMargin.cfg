CONSTANTS
  Interval = 10
  Inactivity = 20
  PingTimeout = 40
  MaxDelay = 1
  MaxWrites = 1
  MaxHollow = 0
  MaxLost = 0
  WireCap = 3
SPECIFICATION Spec
INVARIANTS
  MarginKept
CHECK_DEADLOCK FALSE
