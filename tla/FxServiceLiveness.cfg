SPECIFICATION FairSpec
CONSTANTS
  MaxTasks = 2
  MaxCalls = 3
  Calls = {"start", "cancel", "restart", "reset"}
  HandlerCalls = {"start", "cancel", "restart", "reset"}
  OffFxStart = TRUE
PROPERTIES
  LifeConcludes
