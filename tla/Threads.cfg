SPECIFICATION Spec
CONSTANTS
  Threads <- MCThreads
  Handlers = {"h1", "h2"}
  Owner <- MCOwner
  MaxCalls = 4
CHECK_DEADLOCK FALSE
INVARIANTS
  NoDeadlock
  NoLostWakeUp
  NoStaleDispatch
  NoDanglingReady
