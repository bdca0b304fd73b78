SPECIFICATION Spec
CHECK_DEADLOCK FALSE
CONSTANTS
  Cand = {}
  Early = FALSE
  MaxExtras = 1
  MaxFlaps = 0
INVARIANTS
  TransientIsPosted
  ErrorNotForgotten
  Agreement
  CallInv
PROPERTIES
  TerminationIsFinal
  CallSpec
