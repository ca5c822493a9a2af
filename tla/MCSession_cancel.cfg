SPECIFICATION Spec
CONSTANTS
  Handles <- MCHandles
  Namespaces <- MCNamespaces
  Name <- MCName
  Calls <- MCCalls
  Owner <- MCOwner
  Kind <- MCKind
  None = None
  MaxCrashes = 0
  MaxDrops = 0
  Events = {"cancel"}
INVARIANT OwnAnswer
CHECK_DEADLOCK FALSE
