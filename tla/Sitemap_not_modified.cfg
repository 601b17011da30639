CONSTANTS
  Node = {1, 2, 3, 4, 5}
  Parent <- MCParent
  Index = {2, 4}
  Foreign = {5}
  Failing = {}
  Conditional = TRUE
  MaxChildren = 3
  MaxFetches = 2
  MaxDepth = 2
  MaxItems = 3
  MaxPublished = 2
  MaxLosses = 1
SPECIFICATION FairSpec
CHECK_DEADLOCK FALSE
PROPERTY UrlsAreAnnounced
