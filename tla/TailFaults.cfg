SPECIFICATION FairSpec
CONSTANTS
  Messages <- TwoMessages
  NoMsg = "none"
  Calls <- TwoCalls
  NoCall = "none"
  FileDiffs <- OneDiff
  MaxScans = 3
  DegradedAfter = 1
  Environments <- MCEnvironments
INVARIANTS TypeOK
PROPERTIES Faithful CaughtUp
CHECK_DEADLOCK FALSE
