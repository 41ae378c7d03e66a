CONSTANTS
  a = a
  b = b
  c = c
  d = d
  NoLock = NoLock
  Nobody = Nobody
  Procs = {a, b, c, d}
  PidOf <- MCPid
  MaxOps = 1
  MaxGenerations = 2
  MaxFaults = 1
SPECIFICATION FairSpec
INVARIANTS TypeOK MutualExclusion HolderKeepsLock
PROPERTIES ImplementsStore DeadLockRetired
CHECK_DEADLOCK FALSE
