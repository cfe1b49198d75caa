CONSTANTS
  Ops = {o1}
  Requests <- AllRequests
  Destinations <- AllDestinations
  Threshold = 2
  MaxAttempts = 2
  Cooldown = 2
  MaxFaults = 1
  download1 = download1
  file1 = file1
  trace1 = trace1
  trace2 = trace2
  trace3 = trace3
  key = key
  none = none
  Downloads = {download1}
  Files = {file1}
  MaxTries = 2
  MaxGrowth = 2
  MaxBlind = 2
  Traces = {trace1, trace2, trace3}
  Identity <- MCIdentity
  Unidentified = none
  MaxQueueId = 3
SPECIFICATION MCSpec
INVARIANTS
  DataNeverLost NothingHalfWritten SeedIsKept
  ConfirmedByFailuresInARow RestartsAreCapped RestartsShow NoticesEnd
PROPERTIES
  InterruptedChangesNothing HangEndsInAlert FinishedIsTold AcksHold
CHECK_DEADLOCK FALSE
