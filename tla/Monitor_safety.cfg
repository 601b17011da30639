CONSTANTS
  Ops = {"run", "pause", "resume", "patch", "delete"}
  Verdicts = {"allowed", "disallowed"}
  RobotsModes = {"enforce"}
  StopThreshold = 3
  Neighbours = FALSE
  InitialNextRun = "null"
  MaxCrashes = 1
  MaxThrows = 1
SPECIFICATION Spec
CHECK_DEADLOCK FALSE
INVARIANT BlockedNotFetched
PROPERTY SlotFetchedOnce
