SPECIFICATION Spec
CONSTANTS
  Handles = {h1, h2}
  RawNames = {"ns", " ns", "..", " "}
  UnsafeNames = {".."}
  Blank = ""
  None = None
  MaxSent = 2
  Backends <- MCBackends
  Scorings <- MCScorings
  RawQueries <- MCRawQueries
  Hosts <- MCHosts
  Trim <- MCTrim
INVARIANT EqualHashEqual
