CONSTANTS
  Ids = {i1}
  NoId = NoId
  Score <- MCScore
  Conns = {c1, c2}
  Workers = {w1, w2}
  Capacity = 1
  Faults = {}
  Requests = {"set", "get", "del"}
  MaxSets = 2
SPECIFICATION Spec
SYMMETRY Symmetry
INVARIANT AcceptedKept
