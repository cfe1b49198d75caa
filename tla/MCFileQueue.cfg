CONSTANTS
  Ops = {o1, o2}
  Tasks = {t1, t2}
  None = None
  Requests <- MixedRequests
  Destinations <- FreeDestination
  QueueLimit = 1
  MaxCrashes = 1
  MaxDeaths = 1
SYMMETRY Symmetry
SPECIFICATION Spec
INVARIANTS OneConsumer AcceptedIsDurable
PROPERTIES QueueKeeps ImplementsSerialQueue
CHECK_DEADLOCK FALSE
