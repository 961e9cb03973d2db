SPECIFICATION FairSpec
CONSTANTS
  Node = {1, 2}
  Iface = {"eth"}
  Port <- MCPort
  Worlds <- MCWorlds
  MAX_INTERVAL = 2
  MaxFaults = 1
  None = None
INVARIANTS
  TypeOK
  SamePriority
  GroupKept
  BeaconsServed
PROPERTY Meet
CHECK_DEADLOCK FALSE
