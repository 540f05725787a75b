CONSTANTS
  a = a
  b = b
  c = c
  Members = {a, b}
  Grouped = {}
  Remote = {}
  NoGroup = NoGroup
  NoRecord = NoRecord
SPECIFICATION Spec
SYMMETRY Symmetry
INVARIANTS TypeOK CommitAnswerSound ForcedAnswerSound NoCommitBeforeClose NoMemberLost RecordSound
PROPERTIES PromiseKept
CHECK_DEADLOCK FALSE
