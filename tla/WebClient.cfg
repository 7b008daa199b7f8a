CONSTANTS
  r1 = r1
  r2 = r2
  Slots <- MCSlots
  Calls <- MCCalls
  Headers <- MCHeaders
  MaxRedirects = 1
  Retries = 1
SPECIFICATION ClientSpec
SYMMETRY Symmetry
INVARIANTS
  SessionKept
  CookiesSaved
  SubmitsAsAsked
