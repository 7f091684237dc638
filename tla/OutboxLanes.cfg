SPECIFICATION MCSpec
CONSTANTS
  e1 = e1
  e2 = e2
  e3 = e3
  e4 = e4
  NoEvent = NoEvent
  Event <- MCEvent
  Size <- MCSize
  Cap = 4
  CompactTailAfter = 2
  MaxBatch = 2
  Batch = TRUE
  Conditions = {"fallback"}
INVARIANTS TypeOK NoLoss OnlyAnsweredSettled
PROPERTIES QueueSpec Served
CHECK_DEADLOCK FALSE
