CONSTANTS
  c1 = c1
  c2 = c2
  c3 = c3
  c4 = c4
  Conns = {c1, c2, c3}
  LoopOf <- OwnLoops
  IpOf <- TwoIps
  Max = 2
SPECIFICATION Spec
INVARIANTS TypeOK GateAgrees 
CHECK_DEADLOCK FALSE
