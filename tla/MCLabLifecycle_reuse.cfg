\* A second run finds the server of the first.
CONSTANTS
  Shell = {s1}
  Pid = {p1, p2, p3}
  None = None
  Lsof = TRUE
  MaxBuilds = 2
SPECIFICATION Spec
SYMMETRY Symmetry
INVARIANT ReadyIsNewBuild
