SPECIFICATION Spec
CONSTANTS
  Downloads = {d1}
  NoDownload = NoDownload
  Sweepers = {timer, operator}
  Plans <- MCPlans
  GrabWindow = 120
  ClockSkew = 30
  Grace = 1
  MaxMisses = 1
  MaxLost = 0
  MaxCrashes = 0
INVARIANT FailureIsRetryable
CHECK_DEADLOCK FALSE
