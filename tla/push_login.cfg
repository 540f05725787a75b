CONSTANTS
  c1 = c1
  l1 = l1
  Cmds = {c1}
  Direct = Direct
  Logins = {l1}
  MaxAnswers = 1
  Codes = {1}
  Pool = 3
  NoMsg = NoMsg
SPECIFICATION Spec
INVARIANTS LoginHandled
CHECK_DEADLOCK FALSE
