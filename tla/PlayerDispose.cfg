SPECIFICATION FairDisposeSpec
CONSTANTS
  MaxMessages = 2
  MaxCallbacks = 2
CHECK_DEADLOCK FALSE
INVARIANTS
  ContentInv
PROPERTIES
  DisposeReturns
