SPECIFICATION FairSpec
CONSTANTS
  Worker = w
  Helpers = {}
  Null = null
  NaN = nan
  Inf = inf
  Texts = {x, null}
  ProgressArgs <- MCProgressEdges
  Result = r
  Updatable = {"progress", "value"}
  MaxUpdates = 2
  FxUpdates = TRUE
  BgCancel = TRUE
  CallbackSites = {"handler", "listener"}
  NestedLoops = FALSE
INVARIANTS
  ProgressInRange
PROPERTIES
  OutcomeReached
