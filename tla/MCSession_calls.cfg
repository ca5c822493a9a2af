SPECIFICATION FairSpec
CONSTANTS
  Handles <- MCHandles
  Namespaces <- MCNamespaces
  Name <- MCName
  Calls <- MCCalls
  Owner <- MCOwner
  Kind <- MCKind
  None = None
  MaxCrashes = 1
  MaxDrops = 1
  Events = {"crash", "drop", "build", "connect", "backend", "cancel"}
INVARIANTS TypeOK BuiltOnce UnknownMeansRestart ServedOnce OwnAnswerUncancelled
PROPERTY CallReturns
\* Every call has returned.
CHECK_DEADLOCK FALSE
