CONSTANTS
  MaxTurns = 2
  Cards = {c1, c2}
  c1 = c1
  c2 = c2
  Limit = 1
SPECIFICATION FairSpec
INVARIANTS TypeOK
PROPERTIES TurnsAreIsolated EveryTurnEnds
CHECK_DEADLOCK FALSE
