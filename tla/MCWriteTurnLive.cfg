SPECIFICATION LiveSpec
CONSTANTS
  Threads = {t1, t2}
  Instances = {i1, i2}
  Turns = {ws}
  Workspace = ws
  MayPanic = {}
  Nobody = nobody
  Nothing = nothing
  MaxDepth <- MCDepth
PROPERTIES
  StuckIsAnswered
  CancelledStopsWaiting
  AskIsAnswered
CHECK_DEADLOCK FALSE
