------------------------ MODULE MCAgenticCoordination ------------------------
(***************************************************************************)
(* Instance of AgenticCoordination: two coordinators and two deliverers on *)
(* a chain long enough to spawn two agents and give one a second task.     *)
(***************************************************************************)
EXTENDS AgenticCoordination, TLC

CONSTANTS p1, p2, d1, d2

MCCoordinator == {p1, p2}
MCDeliverer == {d1, d2}

MCSymmetry == Permutations(MCCoordinator) \cup Permutations(MCDeliverer)
=============================================================================
