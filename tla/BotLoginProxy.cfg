CONSTANTS
  MaxRequests = 2
SPECIFICATION Spec
INVARIANTS
  InitNotForgotten
CHECK_DEADLOCK FALSE
