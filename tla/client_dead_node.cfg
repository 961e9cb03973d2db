SPECIFICATION Spec
CONSTANTS
  a = a
  b = b
  c1 = c1
  Info = {a, b}
  Plain = {a}
  None = None
  Conn = {c1}
  What = {w1, w2}
  w1 = w1
  w2 = w2
  Raw = {w2}
  REMOTE_TIMEOUT = 1
  Worlds <- MCBrokenPeer
  MaxLinks = 2
  MaxSubmits = 2
  MaxBackoffs = 1
  MaxAsks = 2
  MaxPackets = 2
  PUMP = 1
  Flows <- MCFlows
INVARIANT OutlivesPeers
CHECK_DEADLOCK FALSE
