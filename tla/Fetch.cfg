CONSTANTS
  Kinds = {"check", "rpc"}
  Policies <- MCPolicies
  Targets = 4
  Urls = {"page", "port", "other", "inner"}
  StartUrl = "page"
  WorkerUrls = {"page", "port", "other"}
  ExecutorUrls = {"page", "other"}
  CallerUrls = {"page", "port", "inner"}
  Addrs = {"public", "private"}
  BlockedAddrs = {"private"}
  Responses <- MCResponses
  MaxAttempts = 3
  Retries = 2
  MaxRedirects = 2
  PullBudget = 55
  MinPullWait = 5
  LeaseWait = 10
  ResultWait = 40
  DohTimeout = 5
  LeaseTtl = 60
SPECIFICATION Spec
CHECK_DEADLOCK FALSE
INVARIANTS AttemptsFollowPolicy AllowedUrlsOnly PullWaitFitsLease OneOutagePerCheck
