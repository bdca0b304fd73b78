SPECIFICATION Spec
CHECK_DEADLOCK FALSE
CONSTANTS
  c1 = c1
  Cand = {c1}
  Early = TRUE
  MaxExtras = 0
  MaxFlaps = 0
INVARIANTS
  NoEarlyCandidates
  NoCandidateLost
