\* Two processes, both accounts, one reservation open at a time; the clocks run
\* past the duration of the dedicated account, and the wall clock is set back
\* once.  A process may use its controllers once before it binds them.
SPECIFICATION BudgetSpec
CONSTANTS
  Owner = {p1, p2}
  Account <- BothAccounts
  Res = {r1}
  Limit <- SmallLimit
  Duration <- ShortDuration
  Bound = {1}
  MaxRevision = 3
  MaxTime = 2
  MaxSteps = 1
  MaxEarlyUse = 1
SYMMETRY Symmetric
VIEW UsableState
INVARIANT JournalCoversSpending
INVARIANT MemoryIsJournal
INVARIANT DurationNotRefilled
