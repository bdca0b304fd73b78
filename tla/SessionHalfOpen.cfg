SPECIFICATION FairSpec
CHECK_DEADLOCK FALSE
CONSTANTS
  Cand = {}
  Early = FALSE
  MaxExtras = 0
  MaxFlaps = 1
INVARIANTS
  Watchdog
PROPERTIES
  NoHalfOpen
