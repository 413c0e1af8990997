CONSTANTS
  Config <- MCConfig
  None = None
  Hardware = {"ge0", "ge1"}
  MaxTransactions = 3
  MaxFaults = 2
SPECIFICATION Spec
CHECK_DEADLOCK FALSE
INVARIANTS
  TypeOK VppHoldsRunning RemovedIsDown FrrRunsRunning FrrRollsBackToRunning VrrpLinksAreRunning
