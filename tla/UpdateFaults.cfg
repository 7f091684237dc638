SPECIFICATION FairSpec
CONSTANTS
  MaxVersion = 3
  Environments <- Faults
INVARIANTS TypeOK NoRepeats
PROPERTIES RestartKeepsIntent RunsForward CatchesUp
CHECK_DEADLOCK FALSE
