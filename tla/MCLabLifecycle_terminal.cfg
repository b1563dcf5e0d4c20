\* One terminal; three processes; two builds.
CONSTANTS
  Shell = {s1}
  Pid = {p1, p2, p3}
  None = None
  Lsof = TRUE
  MaxBuilds = 2
SPECIFICATION Spec
INVARIANTS
  TypeOK
  TrackedOrTold
  ReadyIsOwnBuild
PROPERTIES
  OthersSpared
  CommandsRunOut
  CommandEnds
