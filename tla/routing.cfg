SPECIFICATION Spec
CONSTANTS
  Node = {1, 2, 3}
  PubKey <- MCPubKey
  BYTE = 2
  KEY_LEN = 4
  ADDR_PAYLOAD = 2
  SUBNET_PAYLOAD = 1
  MAX_ONES = 7
  Edges <- MCEdges
  Home <- MCHome
  Parents <- MCParents
  Routes <- MCRoutes
  Top = 100
  PATH_TIMEOUT = 1
  CAPACITY = 2
  Bits <- MCBits
  Worlds <- MCWorlds
  MaxTime = 1
  MaxMoves = 1
  MaxSends = 2
  MaxCuts = 1
  MaxHops = 5
  None = None
INVARIANTS
  LoopFree
  OneCopy
  LookupOnce
  Found
  ToOwner
  BloomsDelivered
  BloomsSettle
CHECK_DEADLOCK FALSE
