CONSTANTS
  Session = {s1, s2}
  Text = {x1, x2}
  Target = {"candidate"}
  None = None
  Timeouts = {1}
  StealTimeout = 1
  MaxClock = 4
  MaxCommits = 3
SYMMETRY Symmetry
SPECIFICATION Spec
INVARIANTS TypeOK CurrentIsNewestCommit HistoryInTimeOrder ReportedHolderHolds
PROPERTIES LiveLockKept RunningChangesUnderLock ImplementsDatastore
