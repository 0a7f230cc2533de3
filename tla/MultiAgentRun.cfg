\* Three specialists, two at a time, with a budget that may be partly used.
CONSTANTS
  NoParent = NoParent
  Grant <- Agents
  Scope <- Tools
  MaxToolCalls = 7
  MaxDepth = 1
  Plans <- ThreeSteps
  MaxParallel = 2
  Calls <- TwoForPlanner
  Shared <- FreshOrShared
SPECIFICATION FairRunSpec
INVARIANT ExecutedCallIsPayable
INVARIANT NeverRefusedLate
PROPERTY RunEnds
CHECK_DEADLOCK FALSE
