CONSTANTS
  c1 = c1
  l1 = l1
  Cmds = {c1}
  Direct = Direct
  Logins = {l1}
  MaxAnswers = 2
  Codes = {1, 9, 22004}
  Pool = 3
  NoMsg = NoMsg
SPECIFICATION FairSpec
INVARIANTS TypeOK WaiterHeld CommandKept
PROPERTIES DroppedForCause Released
CHECK_DEADLOCK FALSE
