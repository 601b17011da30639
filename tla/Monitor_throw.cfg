CONSTANTS
  Ops = {"run"}
  Verdicts = {"allowed"}
  RobotsModes = {"enforce"}
  StopThreshold = 3
  Neighbours = FALSE
  InitialNextRun = "ahead"
  MaxCrashes = 0
  MaxThrows = 1
SPECIFICATION Spec
CHECK_DEADLOCK FALSE
INVARIANT RunningJobHasCheck
PROPERTY LeaseReleased
