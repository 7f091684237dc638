CONSTANTS
  a = a
  b = b
  u = u
  v = v
  uCached = uCached
  NoAccount = NoAccount
  NoSnapshot = NoSnapshot
  Accounts = {a, b}
  Rows <- MCRows
  Line <- MCLine
  Conv <- MCConv
  MaxRows = 2
  MaxCycle = 1
  RepairAfter = 2
  Environments <- MCEnvironments
SPECIFICATION Spec
INVARIANTS TypeOK
PROPERTIES PollsTrue Shown
