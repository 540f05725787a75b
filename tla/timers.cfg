CONSTANTS
  t1 = t1
  d1 = d1
  d2 = d2
  Ids = {t1}
  Devices = {d1, d2}
  Users = {1, 2}
  MaxRequests = 3
  MaxFaults = 1
  None = None
SPECIFICATION FairSpec
INVARIANTS TypeOK SameNumberSameContent
PROPERTIES Converges
CHECK_DEADLOCK FALSE
