SPECIFICATION CalmSpec
CONSTANTS
  Node = {n1, n2}
  n1 = n1
  n2 = n2
  None = None
  NonceSpace = 4
  SESSION_TIMEOUT = 2
  ROTATE_AFTER = 0
  Faults = {"loss", "reorder", "duplicate", "restart", "write"}
  MaxFaults = 2
  MaxTime = 3
  MaxSends = 2
  MaxLateSends = 1
  MaxSeq = 30
  MaxProbes = 3
PROPERTY WrittenOrAccounted
INVARIANTS
  OpenedOnce
  TypeOK
  KindKept
  OneMissed
  LateRecovers
  SealsUnique
SYMMETRY Symmetry
CHECK_DEADLOCK FALSE
