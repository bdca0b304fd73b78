SPECIFICATION Spec
CONSTANTS
  PingPolls = 5
INVARIANTS
  AuthenticatedOverTls
  StatusIsTrue
PROPERTIES
  LoginEnds
  SilenceNoticed
  RestartReturns
