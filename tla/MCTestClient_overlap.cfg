\* Two tabs of one browser, two requests; the clock stands still.
CONSTANTS
  b1 = b1
  b2 = b2
  t1 = t1
  t2 = t2
  None = None
  Browser = {b1}
  Tab = {t1, t2}
  BrowserOf <- OneBrowser
  ContextId = {c1, c2}
  ResultId = {r1, r2}
  Claims = {k1, k2}
  TTL = 1
  MaxTime = 0
  MaxCodes = 2
SPECIFICATION Spec
SYMMETRY TabSymmetry
INVARIANTS
  TypeOK
  OneResultPerRequest
  ResultPageIsOneRequest
  StoredTokenIsOwn
  StateLostOnlyToOverlap
PROPERTY ImplementsRelyingParty
