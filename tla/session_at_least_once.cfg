SPECIFICATION CalmSpec
CONSTANTS
  Node = {n1, n2}
  n1 = n1
  n2 = n2
  None = None
  NonceSpace = 100
  SESSION_TIMEOUT = 2
  ROTATE_AFTER = 60
  Faults = {"write"}
  MaxFaults = 3
  MaxTime = 0
  MaxSends = 3
  MaxLateSends = 3
  MaxSeq = 30
  MaxProbes = 0
INVARIANT AtLeastOnce
CHECK_DEADLOCK FALSE
