SPECIFICATION SupSpec
CONSTANTS
  p1 = p1
  p2 = p2
  Proc <- Processes
  MaxHead = 2
  MaxModelCalls = 2
  WallTimes = {1, 2}
  MaxPubs = 2
  MaxCrashes = 1
SYMMETRY ProcessSymmetry
INVARIANTS
  SealedResultMatchesIntent
  RefusedOnlyByClock
  OneProposalPerCheckpoint
PROPERTY ImplementsSingleUse
CHECK_DEADLOCK FALSE
