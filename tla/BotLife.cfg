CONSTANTS
  MaxRequests = 1
SPECIFICATION Spec
PROPERTIES
  ImplementsLoop
  ConfiguredResumes
CHECK_DEADLOCK FALSE
