\* A removal is interrupted, and the submodule is not initialized.
CONSTANTS
  Pinned = p
  Commit = {p, c1, c2}
  None = None
SPECIFICATION Spec
SYMMETRY Symmetry
INVARIANT LabKept
