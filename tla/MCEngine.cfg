CONSTANTS
  Caller = {c1, c2}
  Config <- MCConfig
  NoConfig = "empty"
  Digest <- MCDigest
  Partial = "partial"
  Lost = "lost"
  None = None
  PluginCount = 2
  MaxVersion = 3
SPECIFICATION Spec
INVARIANTS AllOrNothing DiffIsFromRunning
PROPERTIES ApplyReturns
CHECK_DEADLOCK FALSE
