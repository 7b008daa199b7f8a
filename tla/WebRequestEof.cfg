CONSTANTS
  MaxSize = 3
  MaxRedirects = 2
SPECIFICATION Spec
INVARIANTS
  SuccessIsWhole
CHECK_DEADLOCK FALSE
