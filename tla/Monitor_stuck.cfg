CONSTANTS
  Ops = {"run"}
  Verdicts = {"allowed"}
  RobotsModes = {"enforce"}
  StopThreshold = 3
  Neighbours = FALSE
  InitialNextRun = "ahead"
  MaxCrashes = 1
  MaxThrows = 0
SPECIFICATION FairSpec
CHECK_DEADLOCK FALSE
PROPERTY ActiveIsChecked
