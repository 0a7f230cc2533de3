----------------------- MODULE MCSupervisorInvocation -----------------------
(* Bounded instance of SupervisorInvocation for TLC. *)
EXTENDS SupervisorInvocation, TLC

CONSTANTS p1, p2

Processes == {p1, p2}

ProcessSymmetry == Permutations(Processes)

=============================================================================
