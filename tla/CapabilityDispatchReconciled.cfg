\* What CAP-005 says of a Permit recorded as consumed without a claim.
SPECIFICATION DispatchSpec
CONSTANTS
  w1 = w1  w2 = w2  k1 = k1  k2 = k2
  None = None
  Worker <- MCWorker
  Permit <- MCPermit
SYMMETRY MCSymmetry
INVARIANT
  RecordedUnclaimedNeverEntered
