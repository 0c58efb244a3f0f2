CONSTANTS
  Calls = {}
  Recvs = {r1}
  Nexts = {n1}
  CmdTypes = {"PING"}
  MaxTag = 2
  WireCap = 1
  MaxAsync = 2
  Env = {"event", "close", "cancel", "link", "garble", "malformed"}
  Nil = Nil
SPECIFICATION FairSpec
INVARIANTS
  EventsExact
PROPERTIES
  EveryRecvReturns
  CloseEndsListeners
CHECK_DEADLOCK FALSE
