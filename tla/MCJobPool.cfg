SPECIFICATION Spec
CONSTANTS
  Workers = {w1, w2}
  Callers = {c1}
  Switchers = {g1}
  Closer = closer
  Bundles = {b1}
  Timed = {b1}
  Core = core
  Nobody = nobody
  Slices = 1
  MaxJobs = 3
  MaxCancels = 1
  MaxSwitches = 1
SYMMETRY Symmetry
INVARIANTS
  OneAnswer
  NobodyInside
  NoLostRing
  FlagsHaveAJob
  ClosedIsAnswered
CHECK_DEADLOCK FALSE
