\* Two users, one tab each, one request each; entries expire.
CONSTANTS
  b1 = b1
  b2 = b2
  t1 = t1
  t2 = t2
  None = None
  Browser = {b1, b2}
  Tab = {t1, t2}
  BrowserOf <- TwoBrowsers
  ContextId = {c1, c2}
  ResultId = {r1, r2}
  Claims = {k1}
  TTL = 1
  MaxTime = 3
  MaxCodes = 1
SPECIFICATION Spec
SYMMETRY IdSymmetry
INVARIANTS
  PendingRequestNotOverwritten
PROPERTIES
  OnlyExpiredArePruned
  PrunedStaysGone
  ImplementsRelyingParty
