CONSTANTS
  Job = {j1, j2}
  Runner = {r1}
  NoRunner = NoRunner
  MaxLease = 2
  MaxResets = 1
SPECIFICATION FairSpec
CHECK_DEADLOCK FALSE
PROPERTIES AnswersAreFinal FetchesAtMostOnce EveryCallReturns EveryJobCloses
