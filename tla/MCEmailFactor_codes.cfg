\* A session and two forks; codes expire; a mail may take a while.
CONSTANTS
  Root = root
  Session = {root, f1, f2}
  Code = {k1, k2, k3}
  Wrong = wrong
  None = None
  Lifespan = 1
  SendTimes = {0, 1}
  MaxTime = 4
SPECIFICATION Spec
SYMMETRY Symmetry
INVARIANTS
  TypeOK
  NotesBelongTogether
  StoredCodeWasMailed
  AcceptedOncePerSession
PROPERTIES
  ExpiredNeverAccepted
  ValidCodeStays
  ImplementsOneTimeCode
