SPECIFICATION Spec
CONSTANTS
  Transactions = {s1, s2}
  Edits = {e1}
  Original = original
  Torn = torn
  Absent = absent
  Worlds <- EditedWorld
PROPERTIES
  RolledBackReopens
