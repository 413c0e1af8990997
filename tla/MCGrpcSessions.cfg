CONSTANTS
  Session = {s1, s2}
  Thread = {t1, t2}
  None = None
  TTL = 1
  MaxClock = 3
  MaxVersion = 2
SPECIFICATION Spec
SYMMETRY SessionsAndThreads
INVARIANTS LockAgrees CommitKeepsLock CommitIsBased MutexOrder
