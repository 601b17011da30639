CONSTANTS
  Message = {m1, m2}
  First = m1
  MaxAttempts = 5
  MaxRetries = 5
  Outcomes = {"ok", "rate_limited", "permanent", "retryable"}
  SlowPost = FALSE
  MaxLosses = 2
  MaxFanoutCrashes = 1
SPECIFICATION FairSpec
CHECK_DEADLOCK FALSE
INVARIANT NotifiedOnce
PROPERTIES SettledIsFinal SettledUnlessLost
