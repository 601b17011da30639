SPECIFICATION RunnerFairSpec
CONSTANTS
  Job = {j1, j2, j3}
  Concurrency = 2
  Retries = 2
INVARIANT WithinConcurrency
INVARIANT DrainedIsIdle
PROPERTY EveryJobEnds
PROPERTY KeepsAsking
\* The process ends after stop.
CHECK_DEADLOCK FALSE
