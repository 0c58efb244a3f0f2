CONSTANTS
  Tasks = {t1}
  Ka = Ka
  Configs = {m1}
  Nil = Nil
  AtConnect = {m1}
  OpKinds = {"recv", "tx"}
  Policies <- Attempts
  MaxOps = 3
  MaxWakes = 0
  MaxLapses = 1
  WireCap = 1
  Env = {}
SPECIFICATION Spec
INVARIANTS
  RxStateTrue
CHECK_DEADLOCK FALSE
