SPECIFICATION Spec
CONSTANTS
  daemon = daemon
  foreground = foreground
  p1 = p1
  p2 = p2
  here = here
  there = there
  Poller <- MCPoller
  Main = daemon
  Path <- MCPath
  Agent <- MCAgent
  InSibling <- MCSibling
  AiTTL = 1
  FpTTL = 1
  Window = 1
  MinRun = 2
  Burst = 2
  Environments <- ShowMayFail
PROPERTY NoCommitSkipped
CHECK_DEADLOCK FALSE
