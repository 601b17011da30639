CONSTANTS
  Ops = {"run", "pause", "resume", "patch", "delete"}
  Verdicts = {"allowed", "unavailable"}
  RobotsModes = {"enforce"}
  StopThreshold = 3
  Neighbours = TRUE
  InitialNextRun = "ahead"
  MaxCrashes = 0
  MaxThrows = 0
SPECIFICATION FairSpec
CHECK_DEADLOCK FALSE
INVARIANT RunningJobHasCheck
PROPERTY ActiveIsChecked
