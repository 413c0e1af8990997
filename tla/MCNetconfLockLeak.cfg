CONSTANTS
  Session = {s1, s2}
  Target = {"candidate"}
  None = None
SPECIFICATION Spec
INVARIANTS NoLockOutlivesSession
CHECK_DEADLOCK FALSE
