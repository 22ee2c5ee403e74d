SPECIFICATION FairSpec
CONSTANTS
  a = a
  b = b
  n = n
  moving = moving
  linking = linking
  Paths = {a, b, n}
  None = None
  Starts <- Backlinks
  Owner = moving
  Home = a
  Stranger = stranger
  MaxChanges = 1
  Budgets <- WithinWorlds
INVARIANTS
  DanglingIsKnown
PROPERTIES
  SpaceIsKept
  NoTextLost
  CancelledStays
  Recovers
