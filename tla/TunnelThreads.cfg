SPECIFICATION Spec
CHECK_DEADLOCK FALSE
CONSTANTS
  Initiators = {TRUE, FALSE}
  SharedThread = FALSE
  CloseEarly = FALSE
  OtherTunnels = TRUE
  MaxEvents = 2
INVARIANTS
  NoDanglingUse
  WorkerPurged
  ClockRuns
  ReadableIsAnnounced
  CloseHeardOnce
