CONSTANTS
  Tasks = {t1, t2}
  Ka = Ka
  Configs = {m1, m2}
  Nil = Nil
  AtConnect = {m1, m2, Nil}
  OpKinds = {"recv", "rx_stop", "set_config", "close"}
  Policies <- Attempts
  MaxOps = 2
  MaxWakes = 1
  MaxLapses = 1
  WireCap = 1
  Env = {"shared", "error"}
SPECIFICATION Spec
INVARIANTS
  TypeOK
  RxStateKept
  ConfigKept
SYMMETRY Symmetry
CHECK_DEADLOCK FALSE
