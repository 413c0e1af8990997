CONSTANTS
  Initial <- MCInitial
  Edits <- MCEdits
  Others <- MCOthers
  MaxXMLElements = 180
  Hardware = {"ge0", "ge1"}
  MaxEdits = 1
  None = None
SPECIFICATION Spec
CHECK_DEADLOCK FALSE
INVARIANTS
  CandidateReadsBack GetConfigIsComplete SizeIsChecked ValidatedIsCommitted
  EngineKeepsAll FRRChangesAreSeen TransactionalCarriesAll TermMatchesItsLists
