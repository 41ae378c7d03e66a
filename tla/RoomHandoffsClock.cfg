CONSTANTS
  p1 = p1
  q1 = q1
  k1 = k1
  pr = pr
  qr = qr
  P = P
  Q = Q
  K = K
  room = room
  NoRoom = NoRoom
  Addrs <- TwoAddrs
  BotOf <- MCBotOf
  RoomOf <- MCRoomOf
  People = {p1}
  MaxNodes = 3
  Depth = 2
  Requests = 2
  Executions = 2
  Lifetime = 1
  MinRunway = 1
  QueueWindow = 2
  HardCap = 3
  KeepMax = 9
  KeepMin = 8
  MaxTime = 4
  MaxCrashes = 0
  MaxRevokes = 0
  MaxTurns = 1
SPECIFICATION FairSpec
PROPERTIES TimeIsKept EverythingSettles
CHECK_DEADLOCK FALSE
