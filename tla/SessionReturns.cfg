CONSTANTS
  Calls = {c1, c2}
  Recvs = {}
  Nexts = {}
  CmdTypes = {"PING"}
  MaxTag = 2
  WireCap = 1
  MaxAsync = 1
  Env = {"cancel", "link", "garble", "malformed"}
  Nil = Nil
SPECIFICATION DrainedSpec
INVARIANTS
  OkMeansServed
PROPERTIES
  EveryCallReturns
CHECK_DEADLOCK FALSE
