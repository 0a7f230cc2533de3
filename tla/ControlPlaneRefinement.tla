----------------------- MODULE ControlPlaneRefinement -----------------------
(* The Control Plane implements RunAuthority: its Run states are the phases, *)
(* and the lease a Run is held under is the one on its leased Job row.       *)
EXTENDS ControlPlane

PhaseOf(state) ==
  CASE state = "absent" -> "none"
    [] state = "queued" -> "idle"
    [] state = "running" -> "held"
    [] state = "awaiting-approval" -> "waiting"
    [] OTHER -> state

LeasedJobs(r) == {j \in JobsOf(r) : job[j].state = "leased"}

LeaseOf(j) == <<j, job[j].token>>

NoLease == <<0, 0>>

RunPhase == [r \in Runs |-> PhaseOf(run[r].state)]

RunLease == [r \in Runs |-> IF LeasedJobs(r) = {} THEN NoLease
                            ELSE LeaseOf(CHOOSE j \in LeasedJobs(r) : TRUE)]

GrantedLeases == {<<g.job, g.token>> : g \in grants}

Authority == INSTANCE RunAuthority WITH
  phase <- RunPhase, lease <- RunLease, spent <- GrantedLeases

(* Every transaction of the Control Plane, whatever the order they commit in, *)
(* is a step RunAuthority allows or changes none of its state.                *)
ImplementsRunAuthority == Authority!Spec

=============================================================================
