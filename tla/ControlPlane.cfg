\* Two Runs or one Run with a continuation, two Workers, one clock: every
\* operation of the lifecycle, retries and lost or repeated calls, on PostgreSQL
\* (sweeps skip rows that are locked), against the abstract specification.
SPECIFICATION Spec
CONSTANTS
  Runs = {r1, r2}
  MaxJobs = 2
  Principals = {w1, w2, op}
  Workers = {w1, w2}
  None = None
  Results = {a, b}
  MaxAttempts = 2
  LeaseSeconds = {1}
  MaxLease = 2
  EventInterval = 1
  Skew = 0
  MaxTime = 3
  Horizon = 4
  SkipLocked = TRUE
SYMMETRY Interchangeable
INVARIANTS
  JobMatchesRun
  NoRunStranded
  OpenApprovalIsCurrent
  AckedIsPersisted
  SweepsNeverConflict
  CutOffLeaseIsFenced
PROPERTIES
  NoStaleEffect
  ImplementsRunAuthority
\* The clock stops at MaxTime and every Run may have ended.
CHECK_DEADLOCK FALSE
