\* Server clocks one tick apart: what the expiry and deadline rules still
\* guarantee when two API servers disagree on the time.
SPECIFICATION FairSpec
CONSTANTS
  Runs = {r1}
  MaxJobs = 2
  Principals = {w1, op}
  Workers = {w1}
  None = None
  Results = {a}
  MaxAttempts = 2
  LeaseSeconds = {1}
  MaxLease = 2
  EventInterval = 2
  Skew = 1
  MaxTime = 4
  Horizon = 4
  SkipLocked = FALSE
INVARIANTS
  OneTimelyEffectPerLease
  ContinuationAuthorised
PROPERTIES
  ServiceObeysTriggers
  
\* The clock stops at MaxTime and every Run may have ended.
CHECK_DEADLOCK FALSE
