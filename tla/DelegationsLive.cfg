CONSTANTS
  a = a
  d = d
  f = f
  A = A
  D = D
  i1 = i1
  i2 = i2
  Threads = {a, d, f}
  Bots = {A, D}
  Owner <- MCOwner
  Home <- MCHome
  Openable = {f}
  Deletable = {}
  Revocable = {i2}
  Lasting = {i2}
  Slow = {d}
  Reviewed = {A}
  Items = {i1, i2}
  NoItem = NoItem
  From <- MCFrom
  To <- MCTo
  Fresh = {i2}
  Capacity = 1
  MaxQueued = 2
  WakeBudget = 1
  Refusals = {FALSE, TRUE}
  MaxTurns = 1
  MaxCrashes = 0
SPECIFICATION FairSpec
PROPERTIES RulesAreKept HandoffsMove
CHECK_DEADLOCK FALSE
