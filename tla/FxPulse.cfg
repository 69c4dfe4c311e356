SPECIFICATION FairSpec
CONSTANTS
  Scenes = {s1, s2}
  Pulse = Pulse
  None = None
  VsyncHint = TRUE
  MaxOps = 3
  MaxFaults = 1
CHECK_DEADLOCK FALSE
INVARIANTS
  LatchInv
  WorkIsDue
PROPERTIES
  ChangeShown
  FxReturns
