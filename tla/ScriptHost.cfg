CONSTANTS
  MaxRequests = 5
SPECIFICATION Spec
PROPERTIES
  KeepsContract
  CompletesContract
CHECK_DEADLOCK FALSE
