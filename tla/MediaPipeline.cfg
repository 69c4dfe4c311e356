SPECIFICATION Spec
CONSTANTS
  Segments = 2
  Slots = 1
  MaxOps = 2
  Ops = {"play", "pause", "stop", "seek", "finish", "rate0", "rate1"}
  MaxFaults = 1
CONSTRAINT OnTime
CHECK_DEADLOCK FALSE
INVARIANTS
  PlayerInv
  StallHasWakeup
PROPERTIES
  StatusTable
