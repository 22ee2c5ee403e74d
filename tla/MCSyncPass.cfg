SPECIFICATION Spec
CONSTANTS
  Replicas = {a, b}
  Docs = {d1, d2}
  d1 = d1
  d2 = d2
  NoVector = NoVector
  PageSize = 1
  MaxRestarts = 1
  Bounds <- MCBounds
SYMMETRY Symmetry
INVARIANTS
  NoTextLost
  QuietAgrees
  OneCounterEach
PROPERTIES
  RetiredIsStored
CHECK_DEADLOCK FALSE
