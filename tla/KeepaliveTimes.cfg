CONSTANTS
  Interval = 3
  Inactivity = 6
  PingTimeout = 12
  MaxDelay = 2
  MaxWrites = 3
  MaxHollow = 1
  MaxLost = 2
  WireCap = 3
SPECIFICATION FairSpec
INVARIANTS
  TypeOK
  SilenceBounded
PROPERTIES
  LapseRecovered
CHECK_DEADLOCK FALSE
