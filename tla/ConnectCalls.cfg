CONSTANTS
  Calls = {c1, c2}
  EntryKinds = {"connect_with", "try_connect_with", "connect_mux_auto_with", "mux_unix_connect", "mux_tcp_connect"}
  Ports = {"native", "bridge"}
  Native = {"native"}
  Environs <- SomeEnvirons
  Endpoints <- LocalEndpoint
  Infos <- SomeInfos
  Modulations <- SomeModulations
  UpAtStart <- SomeUp
  MaxFlips = 1
  Env = {"fail", "cancel", "port"}
  Nil = Nil
SPECIFICATION FairSpec
INVARIANTS
  TypeOK
  StaysOnMux
  ConfigFits
PROPERTIES
  OnlyWaitsForNothing
CHECK_DEADLOCK FALSE
