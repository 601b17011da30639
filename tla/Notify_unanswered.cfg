CONSTANTS
  Message = {m1, m2}
  First = m1
  MaxAttempts = 5
  MaxRetries = 5
  Outcomes = {"ok", "rate_limited", "permanent", "retryable"}
  SlowPost = FALSE
  MaxLosses = 0
  MaxFanoutCrashes = 0
SPECIFICATION Spec
CHECK_DEADLOCK FALSE
INVARIANT NeverNotifiedTwice
