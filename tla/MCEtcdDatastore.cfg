CONSTANTS
  Proc = {p1, p2}
  Session = {s1, s2}
  Text = {x1, x2}
  Target = {"candidate"}
  None = None
  Past <- MCPast
  Batch = 1
  MaxLeases = 3
  MaxSaves = 1
  MaxCommits = 3
SYMMETRY Symmetry
SPECIFICATION Spec
CHECK_DEADLOCK FALSE
INVARIANTS TypeOK RunningReadIsOneCommit HistoryIsComplete
PROPERTIES LiveLockKept ImplementsDatastore
