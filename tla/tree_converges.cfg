SPECIFICATION LinkedFairSpec
CONSTANTS
  Node = {1, 2, 3}
  Edges = {{1, 2}, {2, 3}}
  Nonce = {0}
  Lags = {1}
  MaxCost = 100
  TREE_REFRESH = 2
  TREE_TIMEOUT = 3
  MaxTime = 0
  MaxCuts = 0
  None = None
PROPERTY Converges
