CONSTANTS
  Jobs = {j1, j2, j3}
  Paths = {p1, p2}
  Requests <- AllRequests
  None = None
  MaxCrashes = 1
SYMMETRY Symmetry
SPECIFICATION Spec
INVARIANTS OneSlot OriginalsKept
PROPERTIES OutcomesAreFinal ImplementsFifoSlot
CHECK_DEADLOCK FALSE
