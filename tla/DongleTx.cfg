CONSTANTS
  Tasks = {t1, t2}
  Ka = Ka
  Configs = {m1}
  Nil = Nil
  AtConnect = {m1}
  OpKinds = {"tx", "tx_with_retry", "recv", "ping", "close"}
  Policies <- Attempts
  MaxOps = 1
  MaxWakes = 0
  MaxLapses = 1
  WireCap = 1
  Env = {"timeout", "link"}
SPECIFICATION DrainedSpec
INVARIANTS
  AiredOnce
  OkMeansAired
  BackoffBounded
PROPERTIES
  EveryOpReturns
CHECK_DEADLOCK FALSE
