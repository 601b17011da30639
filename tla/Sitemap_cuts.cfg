CONSTANTS
  Node = {1, 2, 3, 4, 5}
  Parent <- MCParent
  Index = {2, 4}
  Foreign = {5}
  Failing = {1}
  Conditional = FALSE
  MaxChildren = 1
  MaxFetches = 2
  MaxDepth = 2
  MaxItems = 1
  MaxPublished = 2
  MaxLosses = 1
SPECIFICATION Spec
CHECK_DEADLOCK FALSE
PROPERTY CutOffHoldsBack
