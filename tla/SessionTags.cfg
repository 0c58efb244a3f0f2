CONSTANTS
  Calls = {c1, c2, c3}
  Recvs = {}
  Nexts = {}
  CmdTypes = {"PING"}
  MaxTag = 2
  WireCap = 1
  MaxAsync = 0
  Env = {"cancel", "link", "lost"}
  Nil = Nil
SPECIFICATION Spec
INVARIANTS
  Correlated
PROPERTIES
  IsService
SYMMETRY Symmetry
CHECK_DEADLOCK FALSE
