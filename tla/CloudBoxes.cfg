CONSTANTS
  b1 = b1
  b2 = b2
  k1 = k1
  k2 = k2
  NoBox = NoBox
  NoKey = NoKey
  Boxes = {b1, b2}
  Keys = {k1, k2}
  MaxCalls = 3
  MaxLists = 1
  MaxLost = 2
  MaxCrashes = 1
  MaxOps = 2
SPECIFICATION Spec
SYMMETRY Symmetry
INVARIANTS TypeOK OneBillable NoOrphan HandedKeptUnlessAsked
PROPERTIES FenceUntilGone
CHECK_DEADLOCK FALSE
