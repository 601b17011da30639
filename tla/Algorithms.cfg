\* The functions on every input up to a bound, and the small machines.
SPECIFICATION Spec
CONSTANTS
  Lines <- MCLines
  PatternSymbols <- MCPatternSymbols
  Paths <- MCPaths
  LinkTokens <- MCLinkTokens
  FieldTokens <- MCFieldTokens
  PageOptions <- MCPageOptions
  MaxLines = 4
  MaxPattern = 6
  MaxLinks = 7
  MaxFields = 10
  RobotsChecker = {c1, c2}
  RobotsTtl = 2
  MaxNow = 3
  Jti = {j1, j2, j3}
  TokenLifetime = 2
  MaxLifetime = 3
  ClockSkew = 1
  MaxJtiEntries = 2
  MaxSeconds = 5
  Kid = {k1, k2}
  Request = {r1, r2}
  JwksTtl = 3
  MinRefetch = 2
  RefreshLimit = 1
  MaxTicks = 5
  Extraction <- MCExtraction
  Classifier <- MCClassifier
  Item = {i1}
  Titles = {"t"}
  Check = {d1, d2}
  MaxTitleFetches = 1
SYMMETRY Symmetric
INVARIANTS RobotsVerdictAgrees ItemsAgree TokenAcceptedOnce StagesFollowConfig
PROPERTIES DecisionsAreCurrent JudgedByCurrentKeys
CHECK_DEADLOCK FALSE
