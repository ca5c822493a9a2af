CONSTANTS
  Clients = {k1, k2}
  None = None
  MaxForks = 4
  Events = {"idle", "stop", "kill", "launch"}
SPECIFICATION FairSpec
CHECK_DEADLOCK FALSE
INVARIANTS TypeOK ServingReachable OneDaemon
PROPERTIES ConnectReturns ColdStartConnects
