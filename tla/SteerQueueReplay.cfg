CONSTANTS
  t1 = t1
  t2 = t2
  s1 = s1
  s2 = s2
  s3 = s3
  r1 = r1
  r2 = r2
  Threads <- MCThreads
  Sends <- MCSends
  Home <- MCHome
  Requests = {r1}
  Steerable = {t1}
  Parking = {t1}
  Capacity = 1
  MaxIds = 3
  MaxCrashes = 1
SPECIFICATION Spec
INVARIANT RestartRestoresOnlyUnbegun
CHECK_DEADLOCK FALSE
