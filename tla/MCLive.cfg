CONSTANTS
  Ops = {o1, o2}
  Tasks = {t1, t2}
  None = None
  Requests <- FileMoveOfArr
  Destinations <- FreeDestination
  QueueLimit = 1
  MaxCrashes = 0
  MaxDeaths = 0
  Jobs = {j1, j2}
  Paths = {p1}
SPECIFICATION MCSpec
PROPERTIES EveryOpSettles MuxesMove
CHECK_DEADLOCK FALSE
