SPECIFICATION FlightSpec
CONSTANTS
  Node = {n1, n2}
  n1 = n1
  n2 = n2
  None = None
  NonceSpace = 100
  SESSION_TIMEOUT = 2
  ROTATE_AFTER = 60
  Faults = {}
  MaxFaults = 0
  MaxTime = 0
  MaxSends = 2
  MaxLateSends = 2
  MaxSeq = 30
  MaxProbes = 2
INVARIANT SecondFlight
CHECK_DEADLOCK FALSE
