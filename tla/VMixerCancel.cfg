CONSTANTS
  Jobs = {j1}
  Paths = {p1}
  Requests <- AllRequests
  None = None
  MaxCrashes = 0
SPECIFICATION FairSpec
PROPERTY CancelSettles
CHECK_DEADLOCK FALSE
