\* Two coordinators publish and two deliverers deliver.
SPECIFICATION CoordinationSpec
CONSTANTS
  p1 = p1  p2 = p2  d1 = d1  d2 = d2
  None = None
  Coordinator <- MCCoordinator
  Deliverer <- MCDeliverer
  MaxActiveAgents = 2
  MaxSessions = 2
  BeamWidth = 2
  MaxTotalAssignments = 3
  MaxRevision = 3
SYMMETRY MCSymmetry
INVARIANTS
  OutboxIsHeads
  AdmittedInOrder
  OneOpenAssignment
  EventIsBacked
CHECK_DEADLOCK FALSE
