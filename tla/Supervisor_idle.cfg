CONSTANTS
  Clients = {k1}
  Capacity = 1
  WorkerCount = 1
SPECIFICATION FairSpec
CHECK_DEADLOCK FALSE
PROPERTY IdleExits
