CONSTANTS
  Session = {s1, s2}
  Target = {"candidate", "running"}
  None = None
SPECIFICATION Spec
INVARIANTS HeldLocksAreNoted
PROPERTIES ClosedSessionsEnd
CHECK_DEADLOCK FALSE
