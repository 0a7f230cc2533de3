--------------------------- MODULE MCControlPlane ---------------------------
(* Bounded instances of ControlPlane and its refinement for TLC. *)
EXTENDS ControlPlaneRefinement, TLC

Interchangeable == Permutations(Runs) \cup Permutations(Workers)

=============================================================================
