SPECIFICATION Spec
CONSTANTS
  Kinds = {"k"}
  NetworkOf <- MCNetworkOf
  Preference <- MCPreference
  Addr = {"a"}
  UserOf <- MCUserOf
  MaxSessions = 2
  MaxResets = 1
  MaxPosted = 1
  MaxBurst = 2
INVARIANTS
  NoDangling
  WritableIsBest
  KeepsTrying
  Reclaimed
