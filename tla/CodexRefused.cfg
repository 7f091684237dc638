SPECIFICATION Spec
CONSTANTS
  Rollouts <- AllRollouts
  NoCell = "none"
  NoModel = "none"
  NoProc = NoProc
  MaxSkips = 1
  MaxFast = 5
  Environments <- FullWindow
INVARIANTS FastCounted GoForward
CHECK_DEADLOCK FALSE
