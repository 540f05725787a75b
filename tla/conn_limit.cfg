CONSTANTS
  c1 = c1
  c2 = c2
  c3 = c3
  c4 = c4
  Conns = {c1, c2, c3, c4}
  LoopOf <- OwnLoops
  IpOf <- OwnIps
  Max = 2
SPECIFICATION Spec
INVARIANTS LimitKept
CHECK_DEADLOCK FALSE
