SPECIFICATION Spec
CONSTANTS
  Client = {a, b}
  Ops <- MCOps
  Order <- MCOrder
  Quota <- MCQuota
  MaxRequests = 3
  MaxDeaths = 1
SYMMETRY MCClients
INVARIANT DeletionsSucceed
INVARIANT PolicyIsWhole
INVARIANT AuditMatchesData
PROPERTY HistoryKept
PROPERTY ArchivedReceivesNothing
CHECK_DEADLOCK FALSE
