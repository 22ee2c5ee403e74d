SPECIFICATION Spec
CONSTANTS
  MaxCommits = 2
  MaxConns = 3
  RetainedNacks = 1
  LogSoft = 0
  LogHard = 1
  OutboxItems = 3
  Bounds <- MCRace
INVARIANTS
  NoOrphan
CHECK_DEADLOCK FALSE
