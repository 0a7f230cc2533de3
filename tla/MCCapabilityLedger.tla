------------------------- MODULE MCCapabilityLedger -------------------------
(* Bounded instance of CapabilityLedger for TLC. *)
EXTENDS CapabilityLedger, TLC

\* No property reads a scope, and a delegation with the empty scope is possible
\* whenever one with another scope is.
Tools == {}

Symmetric == Permutations(Grant)

=============================================================================
