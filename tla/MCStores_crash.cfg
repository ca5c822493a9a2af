SPECIFICATION Spec
CONSTANTS
  Threads = {t1, t2}
  Ids = {e1}
  Values = {v1, v2}
  Dims = {3, 4}
  Pids = {7, 8}
  None = None
  Error = Error
  Unknown = Unknown
  Backends <- AllBackends
  MaxOps = 3
  MaxCrashes = 1
INVARIANT WholeValue
INVARIANT ReportedIsStored
INVARIANT RowHasObject
INVARIANT DimMismatchTrue
INVARIANT LitterIsWreckage
