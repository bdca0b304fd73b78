SPECIFICATION Spec
CHECK_DEADLOCK FALSE
CONSTANTS
  Loads <- MCLoads
  SndBufSize = 5
  RcvBufSize = 3
  MaxMss = 2
  MaxXmit = 2
  MaxFaults = 1
INVARIANTS
  ReadIsPrefix
  SegmentsTileBuffer
  WindowHonoured
  ClosedFlushed
  NothingStuck
