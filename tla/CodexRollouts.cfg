SPECIFICATION FairSpec
CONSTANTS
  Rollouts <- AllRollouts
  NoCell = "none"
  NoModel = "none"
  NoProc = NoProc
  MaxSkips = 1
  MaxFast = 5
  Environments <- MCEnvironments
INVARIANTS TypeOK Faithful
PROPERTIES CaughtUp
CHECK_DEADLOCK FALSE
