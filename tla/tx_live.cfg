CONSTANTS
  a = a
  b = b
  c = c
  Members = {b, c}
  Grouped = {c}
  Remote = {b}
  NoGroup = NoGroup
  NoRecord = NoRecord
SPECIFICATION FairSpec
PROPERTIES CloseAnswers MemberDecides
CHECK_DEADLOCK FALSE
