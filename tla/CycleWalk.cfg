SPECIFICATION Spec
CONSTANTS
  Threads = {t1, t2, t3}
  Instances = {i1, i2}
  Nobody = nobody
  Nothing = nothing
INVARIANTS
  FindsTheCycle
PROPERTIES
  Ends
CHECK_DEADLOCK FALSE
