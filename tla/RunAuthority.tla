---------------------------- MODULE RunAuthority ----------------------------
(***************************************************************************)
(* What the Control Plane promises its callers about one Run, with no      *)
(* clocks, retries, rows or sweeps.  A Run is held under at most one lease *)
(* at a time and every lease is new; only a held Run completes, fails or   *)
(* stops for an approval; a Run that has an outcome keeps it for ever.     *)
(***************************************************************************)
CONSTANTS Runs, NoLease

VARIABLES phase,    \* where each Run stands
          lease,    \* the lease a held Run is held under, else NoLease
          spent     \* every lease ever granted

authority == <<phase, lease, spent>>

Outcomes == {"completed", "failed", "cancelled"}
Phases == {"none", "idle", "held", "waiting"} \cup Outcomes

Init ==
  /\ phase = [r \in Runs |-> "none"]
  /\ lease = [r \in Runs |-> NoLease]
  /\ spent = {}

(* r moves from one of the phases of From to p and is held by no lease. *)
Moves(r, From, p) ==
  /\ phase[r] \in From
  /\ phase' = [phase EXCEPT ![r] = p]
  /\ lease' = [lease EXCEPT ![r] = NoLease]
  /\ UNCHANGED spent

Open(r) == Moves(r, {"none"}, "idle")

Grant(r) ==
  /\ phase[r] = "idle"
  /\ phase' = [phase EXCEPT ![r] = "held"]
  /\ lease' = [lease EXCEPT ![r] = lease'[r]]
  /\ lease'[r] \notin spent \cup {NoLease}
  /\ spent' = spent \cup {lease'[r]}

GiveBack(r) == Moves(r, {"held"}, "idle")
Suspend(r) == Moves(r, {"held"}, "waiting")
Resume(r) == Moves(r, {"waiting"}, "idle")
Complete(r) == Moves(r, {"held"}, "completed")
Fail(r) == Moves(r, {"held"}, "failed")
Cancel(r) == Moves(r, {"idle", "held", "waiting"}, "cancelled")

(* Time takes authority back from any number of Runs at once. *)
Lapses(r) ==
  /\ \/ phase[r] = "held" /\ phase'[r] \in {"idle", "failed"}
     \/ phase[r] = "waiting" /\ phase'[r] = "cancelled"
  /\ lease'[r] = NoLease

Expire ==
  /\ phase' \in [Runs -> Phases]
  /\ lease' = [r \in Runs |-> lease'[r]]
  /\ \A r \in Runs : Lapses(r) \/ (phase'[r] = phase[r] /\ lease'[r] = lease[r])
  /\ UNCHANGED spent

Next ==
  \/ \E r \in Runs : \/ Open(r) \/ Grant(r) \/ GiveBack(r) \/ Suspend(r)
                     \/ Resume(r) \/ Complete(r) \/ Fail(r) \/ Cancel(r)
  \/ Expire

Spec == Init /\ [][Next]_authority

=============================================================================
