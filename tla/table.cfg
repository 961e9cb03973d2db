SPECIFICATION Spec
CONSTANTS
  Key = {1, 2, 3, 4}
  Value = {"a", "b"}
  N = 3
  Home <- MCHome
  None = None
INVARIANT Chained
PROPERTY IsMap
