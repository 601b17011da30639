CONSTANTS
  Job = {j1, j2}
  Runner = {r1, r2}
  NoRunner = NoRunner
  MaxLease = 2
  MaxResets = 1
SPECIFICATION Spec
CHECK_DEADLOCK FALSE
INVARIANTS TypeOK WaitersAreTimed AlarmCoversOpenJobs LeasedOnce
PROPERTIES AnswersAreFinal FetchesAtMostOnce
