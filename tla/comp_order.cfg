CONSTANTS
  k1 = k1
  k2 = k2
  auto = auto
  ann = ann
  Keys = {k1, k2}
  MaxCalls = 2
  AutoThread = auto
  Admins = {}
  SameOrder = FALSE
SPECIFICATION Spec
INVARIANTS NothingLost
CHECK_DEADLOCK FALSE
