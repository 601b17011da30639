CONSTANTS
  Message = {m1}
  First = m1
  MaxAttempts = 5
  MaxRetries = 5
  Outcomes = {"ok", "rate_limited", "permanent", "retryable"}
  SlowPost = FALSE
  MaxLosses = 0
  MaxFanoutCrashes = 1
SPECIFICATION FairSpec
CHECK_DEADLOCK FALSE
PROPERTY EventuallySettled
