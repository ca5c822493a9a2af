CONSTANTS
  Clients = {k1, k2}
  Capacity = 1
  WorkerCount = 2
SPECIFICATION FairSpec
CHECK_DEADLOCK FALSE
INVARIANTS TypeOK RefcountPaired NoUnderflow
PROPERTIES IdleTimerFresh SigtermExits
