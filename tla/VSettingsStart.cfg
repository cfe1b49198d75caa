CONSTANTS
  Releases = {"e", "m"}
  Shape <- MCShape
  NameOf <- MCNameOf
  TitleOf <- MCTitleOf
  IdsOf <- MCIdsOf
  Series = 1
  Grabs = {one, two}
  Batches <- MCBatches
  EcDirect = {TRUE}
  MaxRows = 2
  MaxMishaps = 1
  Searches = {"s1", "s2"}
  Wants <- MCWants
  Indexers = {one, two}
  MaxRegistry = 1
  Clients = {one, two}
  Limit = 1
  FailureLimit = 1
  Seconds = 2
  MaxKeys = 1
  MaxServing = 1
  MaxTime = 5
  MaxArrivals = 2
  Names = {n1, n2}
  Keys = {k1}
  Editors = {one, two}
  MaxId = 2
  MaxSecrets = 1
  v1 = v1
  a1 = a1
  Fields = {"radarr.api_key", "opensubtitles.api_key", "amule.ec_password"}
  Typed = {v1}
  AppKeys = {a1}
  Secrets = {one, two}
  Unset = Unset
  Pages = {p1}
  Envs <- MCEnvs
  Legacy <- MCLegacy
SYMMETRY Sym
SPECIFICATION MCSpec
PROPERTY UnreadableIsKept
CHECK_DEADLOCK FALSE
