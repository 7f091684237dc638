SPECIFICATION ThreeSpec
CONSTANTS
  clone = clone
  worktree = worktree
  added = added
  p1 = p1
  p2 = p2
  RootOrder <- ThreeRoots
  Path <- MCPath
  Environments <- OneMoveLeft
INVARIANT EvidenceFresh
