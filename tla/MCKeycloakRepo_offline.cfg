\* The network fails after the clone, or when an old checkout is to be refreshed.
CONSTANTS
  Pinned = p
  Commit = {p, c1, c2}
  None = None
SPECIFICATION Spec
SYMMETRY Symmetry
INVARIANT FetchedIsConfigured
