\* One daemon and one other Worker on one Job: lost, delayed and late calls,
\* stops, crashes and restarts under the same worker_id.
SPECIFICATION DaemonSpec
CONSTANTS
  Runs = {r1}
  MaxJobs = 1
  Principals = {w1, w2, op}
  Workers = {w1, w2}
  None = None
  Results = {a}
  MaxAttempts = 2
  LeaseSeconds = {1, 2}
  MaxLease = 3
  EventInterval = 1
  Skew = 0
  MaxTime = 3
  Horizon = 6
  SkipLocked = FALSE
  Daemon = w1
  DaemonLease = 2
  FinalizeAttempts = 2
  MaxLate = 1
  Outcome = a
INVARIANTS
  LocalAuthorityIsExclusive
  HandledIsCommitted
  StopReportIsTrue
PROPERTIES
  CancelledExecutionSubmitsNothing
\* The clock stops at MaxTime and the Run may have ended.
CHECK_DEADLOCK FALSE
