CONSTANTS
  tracked = tracked
  straight = straight
  Items = {tracked, straight}
  Direct = {straight}
  ActionIds = {r1, r2}
  MaxNumber = 2
  MaxLosses = 2
  EcThreads = {t1, t2}
  EcFiles = {f1}
  Titles <- MCTitles
  Expected = "tv"
  MaxEcFaults = 2
  MaxListEdits = 1
  Library <- MCLibrary
  Incoming <- MCIncoming
  Roots = {"4k"}
  Movies = {"m"}
  TitleOf <- MCTitle
  Reproduced = {"m"}
  Quality = "quality"
  Typed <- MCTyped
  Renames = {d1, d2}
  MaxAccidents = 1
  Videos = {v1, v2}
  Probes = {s1}
  Readings = {t1}
  MaxVersions = 2
  MaxConcurrentProbes = 1
  MaxMemory = 1
  MaxSweeps = 2
SYMMETRY Sym
SPECIFICATION MCSpec
INVARIANTS ActionsHold EcHolds RenamesHold ProbesHold
CHECK_DEADLOCK FALSE
