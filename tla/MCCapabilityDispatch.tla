------------------------ MODULE MCCapabilityDispatch ------------------------
(***************************************************************************)
(* Instance of CapabilityDispatch: two Workers, each free to execute the   *)
(* Job of either of two Permits again and again.  A Permit adds at most    *)
(* four events to the log, so the instance is finite without a bound.      *)
(***************************************************************************)
EXTENDS CapabilityDispatch, TLC

CONSTANTS w1, w2, k1, k2

MCWorker == {w1, w2}
MCPermit == {k1, k2}

MCSymmetry == Permutations(MCWorker) \cup Permutations(MCPermit)

EventsOf(k, events) == SelectSeq(events, LAMBDA e : e.permit = k)

\* Every definition reads the log one Permit at a time, or asks whether all of
\* it is sealed; the anchor is always its first event.  States count as one
\* when only the order of the events of different Permits differs.
UpToInterleaving ==
  <<[k \in Permit \cup {None} |->
       <<EventsOf(k, log), Len(EventsOf(k, SubSeq(log, 1, sealed)))>>],
    consumed, entered, work, results>>
=============================================================================
