CONSTANTS
  p1 = p1
  q1 = q1
  k1 = k1
  pr = pr
  qr = qr
  P = P
  Q = Q
  K = K
  room = room
  NoRoom = NoRoom
  Addrs <- MCAddrs
  BotOf <- MCBotOf
  RoomOf <- MCRoomOf
  People = {p1, qr}
  MaxNodes = 3
  Depth = 2
  Requests = 3
  Executions = 3
  Lifetime = 2
  MinRunway = 1
  QueueWindow = 3
  HardCap = 4
  KeepMax = 9
  KeepMin = 8
  MaxTime = 0
  MaxCrashes = 1
  MaxRevokes = 1
  MaxTurns = 1
SPECIFICATION Spec
INVARIANTS TypeOK TurnsNeverOverlap ReportedOnce
PROPERTIES SettledForGood ResumedWithEveryResult
CHECK_DEADLOCK FALSE
