SPECIFICATION FairSpec
CONSTANTS
  NumCached = 2
  Segments = 3
  SegmentSize = 2
  BufferSize = 2
  MaxSeeks = 2
  Disposes = TRUE
CHECK_DEADLOCK FALSE
CONSTRAINT Defined
INVARIANTS
  StreamInv
PROPERTIES
  StreamEnds
  CallsReturn
