CONSTANTS
  a = a
  b = b
  c = c
  Members = {a, b}
  Grouped = {}
  Remote = {b}
  NoGroup = NoGroup
  NoRecord = NoRecord
SPECIFICATION Spec
INVARIANTS ForcedRollbackHolds
CHECK_DEADLOCK FALSE
