SPECIFICATION Spec
CONSTANTS
  Tasks = {1}
  MaxCalls = 3
  MaxTicks = 3
  Wrap = 8
  Timeouts = {2}
CHECK_DEADLOCK FALSE
INVARIANT NoEarlyTimeout
