SPECIFICATION FairSpec
CONSTANTS
  Workers = {w1, w2}
  Callers = {}
  Switchers = {g1}
  Closer = closer
  Bundles = {b1}
  Timed = {b1}
  Core = core
  Nobody = nobody
  Slices = 0
  MaxJobs = 3
  MaxCancels = 0
  MaxSwitches = 1
PROPERTIES
  JobsAreAnswered
  CloseEnds
  PermitIsGiven
CHECK_DEADLOCK FALSE
