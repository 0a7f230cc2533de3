-------------------------- MODULE MCActionPermits --------------------------
(***************************************************************************)
(* Instance of ActionPermits: one request for each of the four dispatch    *)
(* paths, for two dispatchers.  The limits leave room for two of them, but *)
(* not for two that are reversible, and the rolling window is shorter than *)
(* the time explored, so that claims age out of it while others wait for   *)
(* the writer lock.                                                        *)
(***************************************************************************)
EXTENDS ActionPermits, TLC

CONSTANTS p1, p2, plain, appr, rev, both

MCDispatcher == {p1, p2}
MCRequest == {plain, appr, rev, both}
MCReversible == {rev, both}
MCApproved == {appr, both}
MCUnits == [r \in MCRequest |-> IF r \in MCReversible THEN 1 ELSE 2]
MCHoldUnits == [r \in MCReversible |-> 2]
MCClaimExpiry == [r \in MCReversible |-> 2]
MCApprovalExpiry == (appr :> 2) @@ (both :> 1)

MCSymmetry == Permutations(MCDispatcher)
=============================================================================
