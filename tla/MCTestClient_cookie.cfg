\* Two tabs of one browser: the later Set-Cookie replaces the whole session.
CONSTANTS
  b1 = b1
  b2 = b2
  t1 = t1
  t2 = t2
  None = None
  Browser = {b1}
  Tab = {t1, t2}
  BrowserOf <- OneBrowser
  ContextId = {c1, c2}
  ResultId = {r1, r2}
  Claims = {k1, k2}
  TTL = 1
  MaxTime = 0
  MaxCodes = 1
SPECIFICATION Spec
SYMMETRY TabSymmetry
INVARIANT PendingRequestNotOverwritten
