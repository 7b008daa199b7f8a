CONSTANTS
  MaxRequests = 2
SPECIFICATION Spec
INVARIANTS
  AnsweredOnce
  ProxyFlagMatches
  ModulesMatchAnswer
  LoginKeepsState
  StoredResultIsOwn
PROPERTIES
  ClosedByLastCall
  InitAnswered
  ProxyChangeEnds
CHECK_DEADLOCK FALSE
