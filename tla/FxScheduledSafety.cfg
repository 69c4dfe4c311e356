SPECIFICATION SSpec
CONSTANTS
  MaxTasks = 3
  MaxCalls = 3
  Calls = {"cancel", "reset"}
  HandlerCalls = {}
  OffFxStart = TRUE
  NullDuration = nullDuration
  Unknown = unknown
  Indefinite = indefinite
  NegIndefinite = negIndefinite
  MaxMillis = 100
  Delay = 1
  Period = 2
  MaximumCumulativePeriod = indefinite
  RestartOnFailure = TRUE
  MaximumFailureCount = 2
  MaxTime = 6
INVARIANTS
  TimerInv
  FailureBudget
PROPERTIES
  MinimumPeriod
  LifeCycle
