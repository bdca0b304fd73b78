SPECIFICATION Spec
CONSTANTS
  Tasks <- MCTasks
  MaxCalls = 5
  MaxTicks = 1
  Wrap = 3
  Timeouts = {1}
CHECK_DEADLOCK FALSE
INVARIANTS
  NoDangling
  NoLostWake
  ChildrenEnd
