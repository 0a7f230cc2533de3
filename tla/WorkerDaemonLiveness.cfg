\* One daemon alone; every lease and every local deadline ends before the clock.
SPECIFICATION DaemonFairSpec
CONSTANTS
  Runs = {r1}
  MaxJobs = 1
  Principals = {w1, op}
  Workers = {w1}
  None = None
  Results = {a}
  MaxAttempts = 1
  LeaseSeconds = {2}
  MaxLease = 3
  EventInterval = 1
  Skew = 0
  MaxTime = 4
  Horizon = 4
  SkipLocked = FALSE
  Daemon = w1
  DaemonLease = 2
  FinalizeAttempts = 2
  MaxLate = 1
  Outcome = a
PROPERTIES CycleEnds
\* The clock stops at MaxTime and the Run may have ended.
CHECK_DEADLOCK FALSE
