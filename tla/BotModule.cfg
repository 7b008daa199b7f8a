CONSTANTS
  MaxRequests = 3
SPECIFICATION Spec
INVARIANTS
  OneActivity
  ActiveMatchesState
  AssertHolds
  NoUseAfterClose
  AsyncWillFinish
PROPERTIES
  StartsOnlyActive
  FinallyOnce
  StopCompletes
  RunCompletes
  ImplementsLoop
  ShutdownQuiesces
CHECK_DEADLOCK FALSE
