CONSTANTS
  Calls = {c1, c2}
  Recvs = {}
  Nexts = {}
  CmdTypes = {"GET_INFO", "TX"}
  MaxTag = 2
  WireCap = 1
  MaxAsync = 0
  Env = {"close", "cancel"}
  Nil = Nil
SPECIFICATION Spec
INVARIANTS
  TypeOK
  OkMeansServed
  NoSlotLeak
  ReaderExitedHonest
  CloseWakesPending
PROPERTIES
  IsService
SYMMETRY Symmetry
CHECK_DEADLOCK FALSE
