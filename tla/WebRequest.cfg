CONSTANTS
  MaxSize = 3
  MaxRedirects = 3
SPECIFICATION Spec
INVARIANTS
  NoUnguardedWait
  DeliversWhole
  DeliversBeginning
PROPERTIES
  RequestEnds
CHECK_DEADLOCK FALSE
