SPECIFICATION SSpec
CONSTANTS
  MaxTasks = 3
  MaxCalls = 3
  Calls = {"start", "cancel", "restart"}
  HandlerCalls = {"cancel"}
  OffFxStart = FALSE
  NullDuration = nullDuration
  Unknown = unknown
  Indefinite = indefinite
  NegIndefinite = negIndefinite
  MaxMillis = 100
  Delay = 1
  Period = 2
  MaximumCumulativePeriod = indefinite
  RestartOnFailure = FALSE
  MaximumFailureCount = 2
  MaxTime = 4
INVARIANTS
  NotStranded
PROPERTIES
  RunsOnSchedule
