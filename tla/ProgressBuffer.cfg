SPECIFICATION FairSpec
CONSTANTS
  Size = 3
  BufferSize = 2
  Threshold = 40
  Tolerances = {0, 1}
  MaxSeeks = 3
  Refuses = TRUE
  Truncates = FALSE
  Disposes = TRUE
CHECK_DEADLOCK FALSE
INVARIANTS
  StreamInv
  SeekReaches
PROPERTIES
  StreamEnds
  CallsReturn
