\* Not a regular run (-continue): statements about the scheduler that the
\* interleavings of routes, checks and neighbours break.
CONSTANTS
  Ops = {"run", "pause", "resume"}
  Verdicts = {"allowed", "disallowed", "unavailable"}
  RobotsModes = {"enforce"}
  StopThreshold = 3
  Neighbours = TRUE
  InitialNextRun = "ahead"
  MaxCrashes = 0
  MaxThrows = 0
SPECIFICATION Spec
INVARIANTS ResumeSchedules BlockedNeedsResume DeferredJobContinued
PROPERTY StopAfterOwnFailures
CHECK_DEADLOCK FALSE
