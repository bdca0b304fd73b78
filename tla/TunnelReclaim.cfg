SPECIFICATION FairSpec
CHECK_DEADLOCK FALSE
CONSTANTS
  Initiators = {TRUE, FALSE}
  SharedThread = TRUE
  CloseEarly = FALSE
  OtherTunnels = FALSE
  MaxEvents = 1
INVARIANTS
  DeletedClean
PROPERTIES
  Reclaimed
  OwnerHears
  CloseReturns
