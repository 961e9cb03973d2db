SPECIFICATION SliceSpec
CONSTANTS
  Node = {1, 2, 3}
  Edges = {{1, 2}, {1, 3}, {2, 3}}
  Nonce = {0}
  Lags = {1}
  MaxCost = 100
  TREE_REFRESH = 2
  TREE_TIMEOUT = 3
  MaxTime = 2
  MaxCuts = 1
  None = None
INVARIANTS
  TypeOK
  PortsAgree
  AnswersAreCurrent
  SentMeansDelivered
  OwnInfoFreshest
  SiblingsDiffer
