SPECIFICATION FairSpec
CONSTANTS
  Node = {1, 2}
  Edges = {{1, 2}}
  Nonce = {0}
  Lags = {1}
  MaxCost = 100
  TREE_REFRESH = 2
  TREE_TIMEOUT = 3
  MaxTime = 3
  MaxCuts = 0
  None = None
PROPERTY Reannounces
