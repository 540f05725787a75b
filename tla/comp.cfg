CONSTANTS
  k1 = k1
  k2 = k2
  auto = auto
  ann = ann
  Keys = {k1}
  MaxCalls = 2
  AutoThread = auto
  Admins = {ann}
  SameOrder = TRUE
SPECIFICATION FairSpec
INVARIANTS TypeOK RecordKept NothingLost FirstRunExact ReportSound
PROPERTIES AutoEnds
CHECK_DEADLOCK FALSE
