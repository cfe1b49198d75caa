CONSTANTS
  tree = tree
  file = file
  Downloads = {tree, file}
  Trees = {tree}
  NoDownload = NoDownload
  FilesOf <- MCFilesOf
  CopyTasks = {t1, t2}
  Asked <- MCAsked
  page = page
  poller = poller
  loop = loop
  worker = worker
  stream = stream
  other = other
  Readers = {page}
  Poller = poller
  MaxSize = 1
  MaxTruth = 3
  MaxOthers = 1
  MaxJoins = 1
  MaxFeedFaults = 1
  Listeners = {stream, other}
  Threads = {loop, worker}
  LoopThread = loop
  EventKinds = {"task"}
  Bound = 1
SPECIFICATION MCSpec
INVARIANTS CancelIsHonoured CopiesAreWhole FeedHolds BusHolds
PROPERTIES CopyEnds PagesCatchUp
CHECK_DEADLOCK FALSE
