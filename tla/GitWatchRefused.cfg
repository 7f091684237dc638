SPECIFICATION Spec
CONSTANTS
  clone = clone
  worktree = worktree
  added = added
  p1 = p1
  p2 = p2
  RootOrder <- MCRoots
  Path <- MCPath
  Environments <- MayRefuse
INVARIANT FailedRetried
