\* Two dispatchers race for the permits of one envelope.
SPECIFICATION PermitSpec
CONSTANTS
  p1 = p1  p2 = p2
  plain = plain  appr = appr  rev = rev  both = both
  None = None
  Dispatcher <- MCDispatcher
  Request <- MCRequest
  Reversible <- MCReversible
  Approved <- MCApproved
  Units <- MCUnits
  HoldUnits <- MCHoldUnits
  UnitLimit = 5
  WindowSeconds = 1
  WindowLimit = 3
  PermitTTL = 1
  ClaimExpiry <- MCClaimExpiry
  ApprovalExpiry <- MCApprovalExpiry
  EnvelopeExpiry = 2
  MaxEvents = 1
  MaxTime = 2
SYMMETRY MCSymmetry
INVARIANTS
  EnvelopeCoversCleanup
  RollingRateRespected
PROPERTIES
  NoOlderGraphLater
  PermitIsSingleUse
CHECK_DEADLOCK FALSE
