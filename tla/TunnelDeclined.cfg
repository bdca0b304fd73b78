SPECIFICATION FairSpec
CHECK_DEADLOCK FALSE
CONSTANTS
  Initiators = {FALSE}
  SharedThread = TRUE
  CloseEarly = FALSE
  OtherTunnels = FALSE
  MaxEvents = 1
PROPERTIES
  DestroyedWhenGone
