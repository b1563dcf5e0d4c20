\* The pinned commit and two others.
CONSTANTS
  Pinned = p
  Commit = {p, c1, c2}
  None = None
SPECIFICATION Spec
SYMMETRY Symmetry
INVARIANTS
  TypeOK
  BuiltFromWholeTree
PROPERTIES
  BuiltFromPinned
  StagingRecovers
  OwnEditsKept
