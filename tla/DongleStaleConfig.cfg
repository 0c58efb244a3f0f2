CONSTANTS
  Tasks = {t1}
  Ka = Ka
  Configs = {m1, m2}
  Nil = Nil
  AtConnect = {m1}
  OpKinds = {"set_config"}
  Policies <- Attempts
  MaxOps = 1
  MaxWakes = 1
  MaxLapses = 1
  WireCap = 1
  Env = {}
SPECIFICATION Spec
INVARIANTS
  ConfigTrue
CHECK_DEADLOCK FALSE
