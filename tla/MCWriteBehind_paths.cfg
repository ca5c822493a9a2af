CONSTANTS
  Ids = {i1}
  NoId = NoId
  Score <- MCScore
  Conns = {c1, c2}
  Workers = {w1, w2}
  Capacity = 1
  Faults = {"prepare", "commit", "lookup", "delete", "panic"}
  Requests = {"set", "get", "del"}
  MaxSets = 2
SPECIFICATION FairSpec
INVARIANTS TypeOK NoGap ReadAfterWrite DeleteIsReported NoResurrection ShadowInFlight NewestStored
PROPERTIES ImplementsQueue ShadowDrains
