CONSTANTS
  LeaseId = {l1, l2, l3, l4}
  NoLease = NoLease
  MinInterval = 1
  MaxConcurrent = 2
  LeaseTtl = 6
  Threshold = 5
  CircuitOpen = 30
  BaseBackoff = 1
  MaxBackoff = 30
  RetryAfters = {0, 40}
  HoldLimit = 9
  StreakCap = 7
SPECIFICATION FairSpec
INVARIANT CapRespected
PROPERTIES GrantSpacing ProbeGrantedAlone NeverLockedOut
