\* Three runs of the matrix; each may be stopped anywhere.
CONSTANTS
  None = None
  Transitions = 8
  MaxRuns = 3
  MaxTime = 5
SPECIFICATION Spec
INVARIANTS
  TypeOK
  PassedAsLabelled
  ProcessedUnlessRebound
  FailsOnlyOnFault
  RejectedOnlyIfReused
PROPERTIES
  StepsRunOut
  MatrixEnds
