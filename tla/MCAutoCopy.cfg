SPECIFICATION Spec
CONSTANTS
  Downloads = {d1}
  NoDownload = NoDownload
  Sweepers = {timer, operator}
  Plans <- MCPlans
  GrabWindow = 120
  ClockSkew = 30
  Grace = 1
  MaxMisses = 1
  MaxLost = 1
  MaxCrashes = 1
INVARIANTS CopiedAtMostOnce NotBothAtOnce
PROPERTIES ArrHadItsChance StuckIsCopied
CHECK_DEADLOCK FALSE
