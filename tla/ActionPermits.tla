--------------------------- MODULE ActionPermits ---------------------------
(***************************************************************************)
(* The single-Campaign Graph Store (graph/sqlite_store.py) as the place    *)
(* where an action is authorised: the event log, the published             *)
(* projections, the snapshots taken of them, and the append-only tables of *)
(* action permits, cleanup holds and cleanup permits of one                *)
(* MissionEnvelope.  Dispatchers in several processes read a clock, then   *)
(* wait for the database's writer lock, then run their callback; each      *)
(* operation of the store is one write transaction.                        *)
(*                                                                         *)
(* A request is an action the compiler wants to run.  It may be proposed   *)
(* again on a later snapshot, so an attempt (action_permit_attempt_id) is  *)
(* a request with the revision of its decision.  An event is its position  *)
(* in the log, and a projection or snapshot is the revision it stands for. *)
(* Request units stand for all three cumulative limits, which the code     *)
(* adds up in the same way.                                                *)
(***************************************************************************)
EXTENDS Integers, FiniteSets, FiniteSetsExt

CONSTANTS
  Dispatcher,      \* processes that call dispatch_once
  Request,         \* request identities
  Reversible,      \* the requests whose capability needs a cleanup hold
  Approved,        \* the requests whose capability needs an approval
  Units,           \* request_units of the action of each request
  HoldUnits,       \* request_units of its cleanup, for a reversible one
  UnitLimit,       \* request_unit_limit of the envelope
  WindowSeconds,   \* rolling_window_seconds
  WindowLimit,     \* rolling_request_unit_limit
  PermitTTL,
  ClaimExpiry,     \* claim_expires_at of the cleanup hold of a reversible one
  ApprovalExpiry,  \* expires_at of the approval of a request that needs one
  EnvelopeExpiry,
  MaxEvents,       \* bound on the event log
  MaxTime,         \* bound on the clock
  None

\* The rows of the permit tables: the revision and the time of the decision.
Claimed == [rev : Nat, at : Nat, expires : Nat]

\* The rows of graph_action_cleanup_reservations: the time of the decision.
Held == [at : Nat]

ASSUME PermitAssumption ==
  /\ Reversible \subseteq Request /\ Approved \subseteq Request
  /\ Units \in [Request -> Nat \ {0}] /\ HoldUnits \in [Reversible -> Nat \ {0}]
  /\ ClaimExpiry \in [Reversible -> 0 .. EnvelopeExpiry]
  /\ ApprovalExpiry \in [Approved -> Nat]
  /\ {UnitLimit, WindowSeconds, WindowLimit, PermitTTL, EnvelopeExpiry,
      MaxEvents, MaxTime} \subseteq Nat
  /\ None \notin Nat \cup Claimed \cup Held

VARIABLES
  log,          \* number of events in graph_events
  projections,  \* revisions in graph_projections
  snapshots,    \* revisions with a row in graph_snapshots
  permits,      \* request -> its row in graph_action_permits, or None
  holds,        \* request -> its row in graph_action_cleanup_reservations
  cleanups,     \* request -> its row in graph_cleanup_permits
  proc,         \* the call each process is in
  acted,        \* request -> times its Worker callback entered the Tool
  cleaned,      \* request -> times its cleanup callback did
  now

store == <<log, projections, snapshots, permits, holds, cleanups>>
vars == <<store, proc, acted, cleaned, now>>

Idle == [phase |-> "idle"]

Init ==
  /\ log = 0 /\ projections = {0} /\ snapshots = {}
  /\ permits = [r \in Request |-> None]
  /\ holds = [r \in Request |-> None]
  /\ cleanups = [r \in Request |-> None]
  /\ proc = [p \in Dispatcher |-> Idle]
  /\ acted = [r \in Request |-> 0] /\ cleaned = [r \in Request |-> 0]
  /\ now = 0

----------------------------------------------------------------------------
(* The graph: events, projections, snapshots. *)

Current == Max(projections)

\* GraphAdmissionAuthority._submit: an admission or a rejection, either of
\* which is an event; a submitter whose position is stale appends nothing.
AppendEvent ==
  /\ log < MaxEvents
  /\ log' = log + 1
  /\ UNCHANGED <<projections, snapshots, permits, holds, cleanups,
                 proc, acted, cleaned, now>>

\* refresh and reconcile: the events were read before the transaction, so the
\* published prefix may already be behind the log.
AdvanceProjection ==
  \E n \in 1 .. log :
    /\ n > Current
    /\ projections' = projections \cup {n}
    /\ UNCHANGED <<log, snapshots, permits, holds, cleanups,
                   proc, acted, cleaned, now>>

\* GraphSnapshotAuthority.capture: the projection was read before the append,
\* which only asks that it was published.
CaptureSnapshot ==
  \E n \in projections \ snapshots :
    /\ snapshots' = snapshots \cup {n}
    /\ UNCHANGED <<log, projections, permits, holds, cleanups,
                   proc, acted, cleaned, now>>

\* _require_latest_action_snapshot and its cleanup twin, with the defect that
\* the snapshot of the decision is looked up and not compared with the log.
AnySnapshot(n) == n \in snapshots

\* The stored projection is the log's, and the decision's snapshot is of it.
RequireLatestSnapshot(n) == n \in snapshots /\ Current = log /\ n = log

----------------------------------------------------------------------------
(* The budget of the envelope. *)

Rows(table) == {r \in Request : table[r] # None}

UnitsOf(requests) == MapThenSumSet(LAMBDA r : Units[r], requests)
HoldUnitsOf(requests) == MapThenSumSet(LAMBDA r : HoldUnits[r], requests)

\* What the new reservations of an authorisation add up to.
ActionOnly(r) == Units[r]
NewUnits(r) == Units[r] + (IF r \in Reversible THEN HoldUnits[r] ELSE 0)

\* The window's units, with the defect that a hold leaves the window with the
\* time it was made.
HoldsAgeOut(at) ==
  UnitsOf({r \in Rows(permits) : permits[r].at > at - WindowSeconds})
  + HoldUnitsOf({r \in Rows(holds) : holds[r].at > at - WindowSeconds})

\* A hold counts until it is claimed, and then for a window from the claim.
WindowUnits(at) ==
  UnitsOf({r \in Rows(permits) : permits[r].at > at - WindowSeconds})
  + HoldUnitsOf({r \in Rows(holds) :
      cleanups[r] # None => cleanups[r].at > at - WindowSeconds})

\* _require_aggregate_action_budget.
RequireAggregateBudget(r, at) ==
  /\ UnitsOf(Rows(permits)) + HoldUnitsOf(Rows(holds)) + NewUnits(r) <= UnitLimit
  /\ WindowUnits(at) + NewUnits(r) <= WindowLimit

----------------------------------------------------------------------------
(* dispatch_once of the four action paths and of cleanup. *)

Step(p, state) == proc' = [proc EXCEPT ![p] = state]

\* dispatch_once after the transaction, with the defect that every answer of
\* the store lets the callback run.
CallbackOnEveryAnswer(newlyConsumed, phase, r) == [phase |-> phase, req |-> r]

\* Only the consumption that is new lets the callback run.
AfterConsumption(newlyConsumed, phase, r) ==
  IF newlyConsumed THEN [phase |-> phase, req |-> r] ELSE Idle

\* authorize_for_dispatch of a permit authority up to the store's lock: the
\* attempt is fixed and evaluated_at is read.  The caller's approval names the
\* attempt on revision a.
Evaluate(p, r, n, a) ==
  /\ proc[p].phase = "idle" /\ n \in snapshots
  /\ IF r \in Approved THEN a \in snapshots ELSE a = None
  /\ Step(p, [phase |-> "authorize", req |-> r, rev |-> n, at |-> now, approval |-> a])
  /\ UNCHANGED <<store, acted, cleaned, now>>

\* validate_action_authority.
ActionValid(c) == c.at < EnvelopeExpiry

\* validate_action_approval_authority: the approval is of this very attempt.
ApprovalValid(c) == c.approval = c.rev /\ c.at < ApprovalExpiry[c.req]

\* validate_action_cleanup_reservation_authority.
HoldValid(c) == c.at < ClaimExpiry[c.req]

\* What the transactions of all four paths have in common: an exact retry
\* returns the stored permit, a consumed identity is refused, and a valid new
\* claim goes in, with its hold where there is one.
Consume(p, valid) ==
  LET c == proc[p]  r == c.req
      retry == permits[r] # None /\ permits[r].rev = c.rev
      grant == /\ permits[r] = None /\ valid
               /\ RequireLatestSnapshot(c.rev)
               /\ RequireAggregateBudget(r, c.at)
  IN /\ IF grant
          THEN /\ permits' = [permits EXCEPT ![r] =
                    [rev |-> c.rev, at |-> c.at,
                     expires |-> Min({EnvelopeExpiry, c.at + PermitTTL})]]
               /\ holds' = IF r \in Reversible
                             THEN [holds EXCEPT ![r] = [at |-> c.at]] ELSE holds
               /\ Step(p, AfterConsumption(TRUE, "dispatch", r))
          ELSE /\ Step(p, IF retry THEN AfterConsumption(FALSE, "dispatch", r)
                                   ELSE Idle)
               /\ UNCHANGED <<permits, holds>>
     /\ UNCHANGED <<log, projections, snapshots, cleanups, acted, cleaned, now>>

AuthorizeForDispatch(p) ==
  /\ proc[p].phase = "authorize" /\ proc[p].req \notin Approved \cup Reversible
  /\ Consume(p, ActionValid(proc[p]))

AuthorizeApproved(p) ==
  /\ proc[p].phase = "authorize" /\ proc[p].req \in Approved \ Reversible
  /\ Consume(p, ActionValid(proc[p]) /\ ApprovalValid(proc[p]))

AuthorizeReversible(p) ==
  /\ proc[p].phase = "authorize" /\ proc[p].req \in Reversible \ Approved
  /\ Consume(p, ActionValid(proc[p]) /\ HoldValid(proc[p]))

AuthorizeApprovedReversible(p) ==
  /\ proc[p].phase = "authorize" /\ proc[p].req \in Approved \cap Reversible
  /\ Consume(p, /\ ActionValid(proc[p]) /\ ApprovalValid(proc[p]) /\ HoldValid(proc[p]))

\* The gateway callback: an expired permit enters no Tool.
Dispatch(p) ==
  LET r == proc[p].req
  IN /\ proc[p].phase = "dispatch"
     /\ acted' = IF now < permits[r].expires
                   THEN [acted EXCEPT ![r] = @ + 1] ELSE acted
     /\ Step(p, Idle)
     /\ UNCHANGED <<store, cleaned, now>>

\* GraphCleanupPermitAuthority.authorize_for_dispatch up to the store's lock:
\* the request names the permit of its source action.
EvaluateCleanup(p, r, n) ==
  /\ proc[p].phase = "idle" /\ n \in snapshots
  /\ r \in Reversible /\ permits[r] # None
  /\ Step(p, [phase |-> "authorize_cleanup", req |-> r, rev |-> n, at |-> now])
  /\ UNCHANGED <<store, acted, cleaned, now>>

\* authorize_cleanup_for_dispatch: the claim of a hold, which charges no budget
\* again.
AuthorizeCleanup(p) ==
  LET r == proc[p].req  n == proc[p].rev  at == proc[p].at
      retry == cleanups[r] # None /\ cleanups[r].rev = n
      grant == /\ cleanups[r] = None /\ holds[r] # None
               /\ permits[r].at <= at
               /\ at < ClaimExpiry[r] /\ at < EnvelopeExpiry
               /\ RequireLatestSnapshot(n)
  IN /\ proc[p].phase = "authorize_cleanup"
     /\ IF grant
          THEN /\ cleanups' = [cleanups EXCEPT ![r] =
                    [rev |-> n, at |-> at,
                     expires |-> Min({EnvelopeExpiry, ClaimExpiry[r], at + PermitTTL})]]
               /\ Step(p, AfterConsumption(TRUE, "cleanup", r))
          ELSE /\ Step(p, IF retry THEN AfterConsumption(FALSE, "cleanup", r)
                                   ELSE Idle)
               /\ UNCHANGED cleanups
     /\ UNCHANGED <<log, projections, snapshots, permits, holds,
                    acted, cleaned, now>>

\* The cleanup callback of the gateway.
DispatchCleanup(p) ==
  LET r == proc[p].req
  IN /\ proc[p].phase = "cleanup"
     /\ cleaned' = IF now < cleanups[r].expires
                     THEN [cleaned EXCEPT ![r] = @ + 1] ELSE cleaned
     /\ Step(p, Idle)
     /\ UNCHANGED <<store, acted, now>>

\* A process dies between the commit and the callback, or loses the answer of
\* the commit; before it, a dead call is a call that was never made.
CrashDispatcher(p) ==
  /\ proc[p].phase \in {"dispatch", "cleanup"}
  /\ Step(p, Idle)
  /\ UNCHANGED <<store, acted, cleaned, now>>

Tick ==
  /\ now < MaxTime /\ now' = now + 1
  /\ UNCHANGED <<store, proc, acted, cleaned>>

Next ==
  \/ AppendEvent \/ AdvanceProjection \/ CaptureSnapshot \/ Tick
  \/ \E p \in Dispatcher :
       \/ \E r \in Request, n \in snapshots, a \in snapshots \cup {None} :
            Evaluate(p, r, n, a)
       \/ \E r \in Request, n \in snapshots : EvaluateCleanup(p, r, n)
       \/ AuthorizeForDispatch(p) \/ AuthorizeApproved(p)
       \/ AuthorizeReversible(p) \/ AuthorizeApprovedReversible(p)
       \/ Dispatch(p)
       \/ AuthorizeCleanup(p) \/ DispatchCleanup(p)
       \/ CrashDispatcher(p)

PermitSpec == Init /\ [][Next]_vars

----------------------------------------------------------------------------
(* Properties. *)

\* The envelope pays for every action that ran and for the cleanup of every
\* reversible one, done or still to do: no later action can spend what the
\* cleanup will need (_require_aggregate_action_budget counts holds, and a
\* reversible authorisation reserves both).
EnvelopeCoversCleanup ==
  LET ran == {r \in Request : acted[r] > 0}
  IN UnitsOf(ran) + HoldUnitsOf(ran \cap Reversible) <= UnitLimit

\* Whatever the order in which stale clock readings reach the writer lock, no
\* window of the rolling rate holds more units of claimed actions and claimed
\* cleanups than rolling_request_unit_limit.
RollingRateRespected ==
  \A t \in 0 .. MaxTime :
    LET In(table) == {r \in Rows(table) :
                        table[r].at <= t /\ table[r].at > t - WindowSeconds}
    IN UnitsOf(In(permits)) + HoldUnitsOf(In(cleanups)) <= WindowLimit

\* The revisions that the claimed rows rest on.
DecidedOn ==
  {permits[r].rev : r \in Rows(permits)} \cup {cleanups[r].rev : r \in Rows(cleanups)}

\* Authorisations never go back to an older graph: whichever dispatcher read its
\* snapshot first and waited longest for the writer lock, a permit or cleanup
\* permit that is claimed rests on a graph at least as new as that of every
\* permit and cleanup permit claimed before it, a cleanup's own action included
\* (_require_latest_action_snapshot, _require_latest_cleanup_snapshot).
NoOlderGraphLater ==
  [][\A r \in Request :
       /\ permits'[r] # permits[r] => \A n \in DecidedOn : n <= permits'[r].rev
       /\ cleanups'[r] # cleanups[r] => \A n \in DecidedOn : n <= cleanups'[r].rev]_vars

\* A claimed row is a spent authority, and the callback its effect.
ActionUse == INSTANCE SingleUseAuthority WITH
  Keys <- Request, NoResult <- None,
  stage <- [r \in Request |-> IF permits[r] = None THEN "free" ELSE "spent"],
  effects <- acted,
  result <- [r \in Request |-> None]

CleanupUse == INSTANCE SingleUseAuthority WITH
  Keys <- Request, NoResult <- None,
  stage <- [r \in Request |-> IF cleanups[r] = None THEN "free" ELSE "spent"],
  effects <- cleaned,
  result <- [r \in Request |-> None]

\* Every request and every cleanup is a single-use authority: it is spent by
\* the transaction, its callback acts at most once and only while it is spent,
\* and neither a retry, a new proposal nor a crash gives it back.
PermitIsSingleUse ==
  /\ ActionUse!Init /\ CleanupUse!Init
  /\ [][/\ UNCHANGED <<permits, acted>> \/ ActionUse!Next
        /\ UNCHANGED <<cleanups, cleaned>> \/ CleanupUse!Next]_vars

=============================================================================
