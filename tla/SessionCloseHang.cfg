CONSTANTS
  Calls = {c1, c2}
  Recvs = {}
  Nexts = {}
  CmdTypes = {"PING"}
  MaxTag = 2
  WireCap = 1
  MaxAsync = 0
  Env = {"close"}
  Nil = Nil
SPECIFICATION FairSpec
PROPERTIES
  NobodyHangsAfterClose
CHECK_DEADLOCK FALSE
