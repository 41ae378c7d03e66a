CONSTANTS
  a = a
  d = d
  f = f
  A = A
  D = D
  i1 = i1
  i2 = i2
  Threads = {a, d, f}
  Bots = {A, D}
  Owner <- MCOwner
  Home <- MCHome
  Openable = {}
  Deletable = {f}
  Revocable = {}
  Lasting = {i1}
  Slow = {d}
  Reviewed = {A}
  Items = {i1, i2}
  NoItem = NoItem
  From <- MCFrom
  To <- MCTo
  Fresh = {i2}
  Capacity = 1
  MaxQueued = 2
  WakeBudget = 1
  Refusals = {FALSE}
  MaxTurns = 2
  MaxCrashes = 1
SPECIFICATION Spec
INVARIANTS TypeOK DeliveredOnce NothingSleepsInVain
PROPERTIES RulesAreKept
CHECK_DEADLOCK FALSE
