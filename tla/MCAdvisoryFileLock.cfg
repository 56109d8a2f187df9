CONSTANTS
  Procs = {p1, p2, p3}
  LockFiles = {i1, i2}
  Nil = Nil
SPECIFICATION LockSpec
INVARIANT NoStaleLock
PROPERTIES ContendedIsTrue ImplementsMutex
