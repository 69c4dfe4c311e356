SPECIFICATION Spec
CONSTANTS
  Worker = w
  Helpers = {h}
  Null = null
  NaN = nan
  Inf = inf
  Texts = {x, y}
  ProgressArgs <- MCProgressArgs
  Result = r
  Updatable = {"progress", "message"}
  MaxUpdates = 3
  FxUpdates = FALSE
  BgCancel = TRUE
  CallbackSites = {"handler"}
  NestedLoops = FALSE
INVARIANTS
  TypeOK
  Coalesced
  NoUpdateLost
  FutureAgrees
  PropertiesAgree
PROPERTIES
  LifeCycle
