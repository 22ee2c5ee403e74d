SPECIFICATION Spec
CONSTANTS
  MaxCommits = 2
  MaxConns = 3
  RetainedNacks = 1
  LogSoft = 0
  LogHard = 1
  OutboxItems = 3
  Bounds <- MCBounds
INVARIANTS
  NothingLost
  Truthful
  InStep
  NotTurnedAway
  StopCollects
  NobodyStuck
CHECK_DEADLOCK FALSE
