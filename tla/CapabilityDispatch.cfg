\* Two Workers dispatch and reconcile two Permits on one Run log.
SPECIFICATION DispatchSpec
CONSTANTS
  w1 = w1  w2 = w2  k1 = k1  k2 = k2
  None = None
  Worker <- MCWorker
  Permit <- MCPermit
SYMMETRY MCSymmetry
VIEW UpToInterleaving
INVARIANTS
  ResultIsSealed
  EntryIsClaimed
PROPERTY
  GatewayEnteredOnce
