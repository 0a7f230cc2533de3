------------------------- MODULE CapabilityDispatch -------------------------
(***************************************************************************)
(* One consumed ActionPermit on its way through the Tool Gateway:          *)
(* _execute_capability_graph of the Worker's executor, the gateway         *)
(* dispatcher (capabilities/activation.py), the crash-window               *)
(* reconciliation (capabilities/reconciliation.py) and the sealed Run log  *)
(* they write (runtime/store.py).                                          *)
(*                                                                         *)
(* Workers execute the Jobs of several Permits on the one Run log of a     *)
(* deployment.  A Worker whose lease ran out may still be executing when   *)
(* another executes the same Job.  Every RunStore call holds the log's     *)
(* file lock and is one step; the Permit claim is one database transaction *)
(* (ActionPermits).  A Worker may die between any two of its steps.        *)
(***************************************************************************)
EXTENDS Naturals, Sequences

CONSTANTS
  Worker,   \* Worker processes
  Permit,   \* the Permits that Jobs may consume, one per Job
  None

VARIABLES
  log,       \* the Run's audit events
  sealed,    \* how many of them the last seal covers
  consumed,  \* the Permits that the Permit store has consumed
  entered,   \* how often the Tool Gateway was entered for each Permit
  work,      \* where each Worker is in its execution
  results    \* what executions returned to the Control Plane

dispatchVars == <<log, sealed, consumed, entered, work, results>>

\* The terminal stages; a cancelled dispatch is handled as a failed one.
Terminal == {"completed", "failed", "expired"}

ASSUME DispatchAssumption == None \notin Permit \cup Terminal

Idle == [pc |-> "idle", permit |-> None]

Init ==
  /\ log = <<>> /\ sealed = 0
  /\ consumed = {}
  /\ entered = [k \in Permit |-> 0]
  /\ work = [w \in Worker |-> Idle]
  /\ results = {}

-----------------------------------------------------------------------------
(* The Run log. *)

Event(type, k) == [type |-> type, permit |-> k]

\* append_event.
Append1(e) == log' = Append(log, e) /\ UNCHANGED sealed

\* append_unique_event: an equal event is returned, a different one of the
\* same identity is refused.  "same" are the events of that identity.
AppendUnique(e, same) ==
  IF same = {} THEN Append1(e) ELSE e \in same /\ UNCHANGED <<log, sealed>>

\* seal: a log without anything new is refused.
NothingToSeal == sealed = Len(log)

\* load_verified_run_snapshot: every event is under a seal.
FullySealed == Len(log) > 0 /\ sealed = Len(log)

-----------------------------------------------------------------------------
(* reconcile_capability_dispatch. *)

Positions(k, types) == {i \in DOMAIN log : log[i].permit = k /\ log[i].type \in types}

Anchors == {i \in DOMAIN log : log[i].type = "anchor"}
Lifecycle(k) == Positions(k, {"claimed"} \cup Terminal)
Records(k) == {log[i] : i \in Positions(k, {"recorded"})}

LifecycleValid(k) ==
  LET stages == SelectSeq(log, LAMBDA e : e.permit = k
                                          /\ e.type \in {"claimed"} \cup Terminal)
  IN /\ Len(stages) <= 2
     /\ Len(stages) > 0 => stages[1].type = "claimed"
     /\ Len(stages) = 2 => stages[2].type \in Terminal

\* Events carry no times here: a clock that was set back may have dated the
\* terminal of a lifecycle before its claim, and then the lifecycle is refused.
MayPredateClaim(k) == Positions(k, Terminal) # {}

\* The event an observation rests on; its earliest seal never changes.
Observed(k) ==
  CHOOSE i \in (IF Lifecycle(k) = {} THEN Anchors ELSE Lifecycle(k)) :
    \A j \in Lifecycle(k) : j <= i

Status(k) ==
  IF Lifecycle(k) = {} THEN "consumed-without-claim"
  ELSE IF log[Observed(k)].type = "claimed" THEN "claimed-outcome-unknown"
  ELSE log[Observed(k)].type

RecordOf(k) ==
  [type |-> "recorded", permit |-> k, status |-> Status(k), observed |-> Observed(k)]

\* A snapshot that can be classified, and that no sealed record contradicts.
Reconcilable(k) ==
  /\ FullySealed /\ LifecycleValid(k)
  /\ Lifecycle(k) = {} => \E i \in Anchors : Anchors = {i}
  /\ Records(k) \subseteq {RecordOf(k)}

-----------------------------------------------------------------------------
(* _execute_capability_graph. *)

At(w, pc) == work[w].pc = pc
Goto(w, pc) == work' = [work EXCEPT ![w].pc = pc]

\* The execution raises; the Job may be claimed again.
Raise(w) == work' = [work EXCEPT ![w] = Idle]

\* A Job is executed: open_run_store and _ensure_run_audit_anchor, which adds
\* the anchor, seals what may be nothing new, and loads a log that must be
\* sealed.
OpenRunStore(w, k) ==
  /\ At(w, "idle")
  /\ AppendUnique(Event("anchor", None), {log[i] : i \in Anchors})
  /\ work' = [work EXCEPT ![w] = [pc |-> "seal_anchor", permit |-> k]]
  /\ UNCHANGED <<consumed, entered, results>>

SealAnchor(w) ==
  /\ At(w, "seal_anchor")
  /\ sealed' = Len(log)
  /\ Goto(w, "verify_anchor")
  /\ UNCHANGED <<log, consumed, entered, results>>

VerifyAnchor(w) ==
  /\ At(w, "verify_anchor")
  /\ IF FullySealed /\ \E i \in Anchors : Anchors = {i}
       THEN Goto(w, "consume") ELSE Raise(w)
  /\ UNCHANGED <<log, sealed, consumed, entered, results>>

\* dispatch_once, with the defect that a retry enters the callback again.
ConsumeAgain(w) ==
  LET k == work[w].permit
  IN /\ At(w, "consume")
     /\ \/ consumed' = consumed \cup {k} /\ Goto(w, "claim")
        \/ k \notin consumed /\ UNCHANGED consumed /\ Raise(w)
     /\ UNCHANGED <<log, sealed, entered, results>>

\* The Permit store consumes the Permit, knows it, or refuses it.
ConsumePermit(w) ==
  LET k == work[w].permit
  IN /\ At(w, "consume")
     /\ \/ k \notin consumed /\ consumed' = consumed \cup {k} /\ Goto(w, "claim")
        \/ k \in consumed /\ UNCHANGED consumed /\ Goto(w, "reconcile")
        \/ k \notin consumed /\ UNCHANGED consumed /\ Raise(w)
     /\ UNCHANGED <<log, sealed, entered, results>>

\* The callback, with the defect that the claim is not written first.
ClaimUnwritten(w) ==
  /\ At(w, "claim") /\ Goto(w, "gateway")
  /\ UNCHANGED <<log, sealed, consumed, entered, results>>

\* The callback's first event; a Permit that has expired by now goes no further.
AppendClaimed(w) ==
  /\ At(w, "claim")
  /\ Append1(Event("claimed", work[w].permit))
  /\ \/ Goto(w, "gateway")
     \/ Goto(w, "append_expired")
  /\ UNCHANGED <<consumed, entered, results>>

AppendExpired(w) ==
  /\ At(w, "append_expired")
  /\ Append1(Event("expired", work[w].permit))
  /\ Goto(w, "seal_failed")
  /\ UNCHANGED <<consumed, entered, results>>

\* gateway.execute, which writes events and artifacts of its own.
EnterGateway(w) ==
  /\ At(w, "gateway")
  /\ entered' = [entered EXCEPT ![work[w].permit] = @ + 1]
  /\ Append1(Event("tool", work[w].permit))
  /\ Goto(w, "running")
  /\ UNCHANGED <<consumed, results>>

\* resolve_for_dispatch raises: the activation was withdrawn.
ResolveFails(w) ==
  /\ At(w, "gateway")
  /\ Append1(Event("failed", work[w].permit))
  /\ Goto(w, "seal_failed")
  /\ UNCHANGED <<consumed, entered, results>>

\* The Gateway returns, raises, or is cancelled.
AppendTerminal(w) ==
  /\ At(w, "running")
  /\ \E stage \in {"completed", "failed"} :
       /\ Append1(Event(stage, work[w].permit))
       /\ Goto(w, IF stage = "completed" THEN "seal" ELSE "seal_failed")
  /\ UNCHANGED <<consumed, entered, results>>

\* store.seal() after a dispatch: another Worker's seal may have been first.
SealDispatch(w) ==
  /\ At(w, "seal")
  /\ IF NothingToSeal THEN Raise(w) ELSE Goto(w, "reconcile")
  /\ sealed' = Len(log)
  /\ UNCHANGED <<log, consumed, entered, results>>

\* _seal_failed_dispatch, and the dispatch's exception goes on.
SealFailedDispatch(w) ==
  /\ At(w, "seal_failed")
  /\ sealed' = Len(log)
  /\ Raise(w)
  /\ UNCHANGED <<log, consumed, entered, results>>

\* _verified_dispatch_reconciliation and the result of a terminal, with the
\* defect that events after the last seal are read as well.
ReconcileUnsealed(w) ==
  LET k == work[w].permit
  IN /\ At(w, "reconcile")
     /\ IF ~LifecycleValid(k) \/ ~(Records(k) \subseteq {RecordOf(k)})
          THEN Raise(w) /\ UNCHANGED results
        ELSE IF Status(k) \in Terminal
          THEN /\ results' = results \cup {[permit |-> k, stage |-> Status(k)]}
               /\ Raise(w)
        ELSE /\ work' = [work EXCEPT ![w] =
                  [pc |-> "record", permit |-> k, seen |-> RecordOf(k)]]
             /\ UNCHANGED results
     /\ UNCHANGED <<log, sealed, consumed, entered>>

\* A terminal is the result of the execution; a record that stands already, or
\* one this Worker now writes, ends it without one.
Reconcile(w) ==
  LET k == work[w].permit
  IN /\ At(w, "reconcile")
     /\ \/ /\ ~Reconcilable(k) \/ MayPredateClaim(k)
           /\ Raise(w) /\ UNCHANGED results
        \/ /\ Reconcilable(k) /\ Status(k) \in Terminal
           /\ results' = results \cup {[permit |-> k, stage |-> Status(k)]}
           /\ Raise(w)
        \/ /\ Reconcilable(k) /\ Status(k) \notin Terminal /\ Records(k) # {}
           /\ Raise(w) /\ UNCHANGED results
        \/ /\ Reconcilable(k) /\ Status(k) \notin Terminal /\ Records(k) = {}
           /\ work' = [work EXCEPT ![w] =
                [pc |-> "record", permit |-> k, seen |-> RecordOf(k)]]
           /\ UNCHANGED results
     /\ UNCHANGED <<log, sealed, consumed, entered>>

\* _record_incomplete_dispatch_reconciliation: the record once per Permit, and
\* its seal; what is verified after it decides only which error is raised.
AppendRecord(w) ==
  LET k == work[w].permit
  IN /\ At(w, "record")
     /\ \/ /\ AppendUnique(work[w].seen, Records(k))
           /\ work' = [work EXCEPT ![w] = [pc |-> "seal_record", permit |-> k]]
        \/ /\ Records(k) # {} /\ work[w].seen \notin Records(k)
           /\ Raise(w) /\ UNCHANGED <<log, sealed>>
     /\ UNCHANGED <<consumed, entered, results>>

SealRecord(w) ==
  /\ At(w, "seal_record")
  /\ sealed' = Len(log)
  /\ Raise(w)
  /\ UNCHANGED <<log, consumed, entered, results>>

\* A Worker dies, and comes back with nothing.
CrashWorker(w) ==
  /\ ~At(w, "idle")
  /\ Raise(w)
  /\ UNCHANGED <<log, sealed, consumed, entered, results>>

Execute(w) ==
  \/ SealAnchor(w) \/ VerifyAnchor(w) \/ ConsumePermit(w) \/ AppendClaimed(w)
  \/ AppendExpired(w) \/ EnterGateway(w) \/ ResolveFails(w)
  \/ AppendTerminal(w) \/ SealDispatch(w) \/ SealFailedDispatch(w)
  \/ Reconcile(w) \/ AppendRecord(w) \/ SealRecord(w)

Next ==
  \E w \in Worker : (\E k \in Permit : OpenRunStore(w, k)) \/ Execute(w) \/ CrashWorker(w)

DispatchSpec == Init /\ [][Next]_dispatchVars

-----------------------------------------------------------------------------
(* Properties. *)

\* The stage a Permit's Gateway call ended in, once it is in the log.
OutcomeOf(k) ==
  IF entered[k] = 0 \/ Positions(k, Terminal) = {} THEN None
  ELSE log[CHOOSE i \in Positions(k, Terminal) : TRUE].type

PermitStage(k) ==
  IF k \notin consumed THEN "free" ELSE IF OutcomeOf(k) = None THEN "spent" ELSE "settled"

Gateway == INSTANCE SingleUseAuthority WITH
  Keys <- Permit, NoResult <- None,
  stage <- [k \in Permit |-> PermitStage(k)],
  effects <- entered,
  result <- [k \in Permit |-> OutcomeOf(k)]

\* However Workers overlap, die and retry, a Permit lets the Tool Gateway be
\* entered once, only after it was consumed, and the log settles it for good
\* with the stage of that very call (dispatch_once of the gateway dispatcher).
GatewayEnteredOnce ==
  /\ Gateway!Init
  /\ [][\/ UNCHANGED <<log, consumed, entered>>
        \/ UNCHANGED Gateway!authority
        \/ Gateway!Next]_dispatchVars

\* Whatever a Worker returns to the Control Plane, its own outcome or one it
\* found, is the one terminal of the Permit's lifecycle and lies under a seal:
\* no crash and no later writer can take it back.
ResultIsSealed ==
  \A r \in results :
    \E i \in Lifecycle(r.permit) :
      /\ i <= sealed /\ log[i].type = r.stage
      /\ \A j \in Lifecycle(r.permit) : j <= i

\* A Gateway call that a crash interrupts has its claim in the log before it, so
\* a reconciliation that reads the log from then on says at least that the
\* outcome is unknown; what an earlier reading has recorded is another matter
\* (RecordedUnclaimedNeverEntered).
EntryIsClaimed ==
  \A k \in Permit : entered[k] > 0 => Status(k) # "consumed-without-claim"

\* A Permit recorded as consumed without a claim never entered the Gateway.
RecordedUnclaimedNeverEntered ==
  \A k \in Permit : \A r \in Records(k) :
    r.status = "consumed-without-claim" => entered[k] = 0

=============================================================================
