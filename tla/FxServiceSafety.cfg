SPECIFICATION Spec
CONSTANTS
  MaxTasks = 3
  MaxCalls = 4
  Calls = {"start", "cancel", "restart", "reset"}
  HandlerCalls = {}
  OffFxStart = TRUE
INVARIANTS
  ShowsOneTask
  NoAbandonedTask
  PropertiesAgree
PROPERTIES
  LifeCycle
