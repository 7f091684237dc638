SPECIFICATION Spec
CONSTANTS
  Messages <- TwoMessages
  NoMsg = "none"
  Calls <- TwoCalls
  NoCall = "none"
  FileDiffs <- OneDiff
  MaxScans = 3
  DegradedAfter = 1
  Environments <- FullOnly
INVARIANTS NoLoss
CHECK_DEADLOCK FALSE
