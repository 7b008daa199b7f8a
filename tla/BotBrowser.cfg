CONSTANTS
  p1 = p1
  p2 = p2
  p3 = p3
  r1 = r1
  r2 = r2
  NoProxy = NoProxy
  Proxies <- MCProxies
  Requests <- MCRequests
SPECIFICATION Spec
INVARIANTS
  ListedOnce
  OneCallbackWaits
PROPERTIES
  ListAnswered
  RequestAnswered
  RotationIsFair
