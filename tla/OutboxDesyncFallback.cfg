SPECIFICATION MCSpec
CONSTANTS
  e1 = e1
  e2 = e2
  e3 = e3
  e4 = e4
  NoEvent = NoEvent
  Event <- MCEvent
  Size <- MCSize
  Cap = 5
  CompactTailAfter = 4
  MaxBatch = 2
  Batch = TRUE
  Conditions = {"byteCap", "fallback"}
INVARIANTS
  OnlyAnsweredSettled
CHECK_DEADLOCK FALSE
