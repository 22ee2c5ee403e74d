SPECIFICATION Spec
CONSTANTS
  Threads = {t1, t2, t3}
  Instances = {i1, i2}
  Turns = {ws, reg}
  Workspace = ws
  MayPanic = {t1, t2, t3}
  Nobody = nobody
  Nothing = nothing
  MaxDepth <- MCDepth
SYMMETRY Symmetry
INVARIANTS
  TypeOK
  OneWriter
  GraphIsTrue
  NoHopelessWait
  NoLostWakeup
  IInv
PROPERTIES
  RefusedInACycle
CHECK_DEADLOCK FALSE
