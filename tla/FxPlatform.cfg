SPECIFICATION FairSpec
CONSTANTS
  MaxRunnables = 2
  MaxLoops = 2
  MaxEvents = 1
  MaxWaits = 1
  MaxWindowOps = 2
CHECK_DEADLOCK FALSE
INVARIANTS
  OneQueue
  LoopDiscipline
  IdleIsExact
PROPERTIES
  RunnablesStart
  LeavingEnds
