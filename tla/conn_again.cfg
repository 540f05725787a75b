CONSTANTS
  c1 = c1
  c2 = c2
  c3 = c3
  c4 = c4
  Conns = {c1, c2}
  LoopOf <- OneLoop
  IpOf <- OneIp
  Max = 2
SPECIFICATION Spec
INVARIANTS OnlineKnown
CHECK_DEADLOCK FALSE
