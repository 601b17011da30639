\* Not a regular run (-continue): statements about the routes that a request
\* between two steps of another breaks.
SPECIFICATION Spec
CONSTANTS
  Client = {a, b}
  Ops <- MCOps
  Order <- MCOrder
  Quota <- MCQuota
  MaxRequests = 3
  MaxDeaths = 1
SYMMETRY MCClients
INVARIANTS FanoutSurvivesDeletion NoOrphanSubscription
CHECK_DEADLOCK FALSE
