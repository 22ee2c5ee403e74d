SPECIFICATION FairSpec
CONSTANTS
  Transactions = {s1, s2}
  Edits = {e1, s1}
  Original = original
  Torn = torn
  Absent = absent
  Worlds <- AllWorlds
INVARIANTS
  OneRecord
  AllOrOldOrNew
PROPERTIES
  NothingLost
  Atomic
  Reopens
