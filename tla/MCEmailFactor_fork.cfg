\* A fork succeeds with the code its parent still holds.
CONSTANTS
  Root = root
  Session = {root, f1, f2}
  Code = {k1, k2, k3}
  Wrong = wrong
  None = None
  Lifespan = 1
  SendTimes = {0, 1}
  MaxTime = 4
SPECIFICATION Spec
SYMMETRY Symmetry
INVARIANT CodeRemovedOnSuccess
