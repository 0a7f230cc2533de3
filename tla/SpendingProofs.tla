---------------------------- MODULE SpendingProofs ----------------------------
(***************************************************************************)
(* What a Run may spend is spent once.  CapabilityDispatch: one Gateway    *)
(* entry per Permit, for any number of Workers and Permits and any         *)
(* crashes; it implements SingleUseAuthority, and an interrupted entry is  *)
(* never taken for one that did not happen.  BudgetLedger, for any number  *)
(* of processes, handles and ticks and any limits: the journal covers what *)
(* was granted, the memory of the current owner is the journal, and no     *)
(* restart refills the duration.                                           *)
(***************************************************************************)
EXTENDS CapabilityDispatch, BudgetLedger, TLAPS

\* The prover of a step that names no other.
USE ZenonT(40)

-----------------------------------------------------------------------------
(* Permits: CapabilityDispatch. *)

Statuses == Terminal \cup {"consumed-without-claim", "claimed-outcome-unknown"}
RunEvent == [type : {"anchor", "claimed", "tool"} \cup Terminal, permit : Permit \cup {None}]
RunRecord == [type : {"recorded"}, permit : Permit, status : Statuses, observed : Nat]
Entries == RunEvent \cup RunRecord

\* Where a Worker can be, with the Permit of its Job.
Pcs == {"seal_anchor", "verify_anchor", "consume", "claim", "append_expired", "gateway", "running",
        "seal", "seal_failed", "reconcile", "seal_record"}
Working == [pc : Pcs, permit : Permit]
Recording == [pc : {"record"}, permit : Permit, seen : RunRecord]

DispatchTypeOK ==
  /\ log \in Seq(Entries)
  /\ consumed \subseteq Permit
  /\ entered \in [Permit -> Nat]
  /\ work \in [Worker -> {Idle} \cup Working \cup Recording]

Claims(k) == Positions(k, {"claimed"})
Ends(k) == Positions(k, Terminal)

\* What the log and the Permit store say of a Permit.
PermitInv(k) ==
  /\ k \notin consumed => Claims(k) = {} /\ entered[k] = 0
  /\ entered[k] \in {0, 1}
  /\ entered[k] = 1 => Claims(k) # {}
  /\ Ends(k) # {} => Claims(k) # {}
  /\ \A i, j \in Claims(k) : i = j
  /\ \A i, j \in Ends(k) : i = j

\* The steps of the callback that dispatch_once enters.
Callback == {"claim", "append_expired", "gateway", "running"}

\* What the Worker in the callback knows of its Permit.
WorkerInv(w) ==
  work[w].pc \in Callback =>
    /\ work[w].permit \in consumed
    /\ Ends(work[w].permit) = {}
    /\ (Claims(work[w].permit) = {}) <=> (work[w].pc = "claim")
    /\ entered[work[w].permit] = IF work[w].pc = "running" THEN 1 ELSE 0

\* Only one Worker is in the callback of a Permit.
OneCallback ==
  \A v, w \in Worker :
    work[v].pc \in Callback /\ work[w].pc \in Callback /\ work[v].permit = work[w].permit => v = w

\* What the checked properties need to be inductive.
IInv ==
  /\ DispatchTypeOK
  /\ \A k \in Permit : PermitInv(k)
  /\ \A w \in Worker : WorkerInv(w)
  /\ OneCallback

-----------------------------------------------------------------------------
(* The log and the Workers. *)

\* The events that the Workers write.
LEMMA EventIs ==
  ASSUME NEW t \in {"anchor", "claimed", "tool", "completed", "failed", "expired"},
         NEW k \in Permit \cup {None}
  PROVE  Event(t, k) \in Entries /\ Event(t, k).type = t /\ Event(t, k).permit = k
  BY DEF Event, Entries, RunEvent, Terminal

\* An event appended to the log is at a position of its own.
LEMMA Grown ==
  ASSUME log \in Seq(Entries), NEW e \in Entries, log' = Append(log, e), NEW k, NEW T
  PROVE  /\ log' \in Seq(Entries)
         /\ e.permit = k /\ e.type \in T => Positions(k, T)' = Positions(k, T) \cup {Len(log) + 1}
         /\ ~(e.permit = k /\ e.type \in T) => Positions(k, T)' = Positions(k, T)
         /\ \A i \in Positions(k, T) : log'[i] = log[i] /\ i \in 1 .. Len(log)
         /\ log'[Len(log) + 1] = e
<1>1. /\ log' \in Seq(Entries) /\ Len(log') = Len(log) + 1 /\ log'[Len(log) + 1] = e
      /\ \A i \in 1 .. Len(log) : log'[i] = log[i]
      /\ Len(log) \in Nat /\ DOMAIN log = 1 .. Len(log) /\ DOMAIN log' = 1 .. Len(log')
  BY SMT
<1>2. DOMAIN log' = DOMAIN log \cup {Len(log) + 1}
  BY <1>1, SMT
<1> QED
  BY <1>1, <1>2 DEF Positions

\* A log that does not change.
LEMMA SameLog ==
  ASSUME UNCHANGED log, NEW k, NEW T
  PROVE  Positions(k, T)' = Positions(k, T)
  BY DEF Positions

WorkType == {Idle} \cup Working \cup Recording

\* A Worker at one of these steps has a Permit.
LEMMA AtWork ==
  ASSUME DispatchTypeOK, NEW w \in Worker, NEW s \in Pcs, At(w, s)
  PROVE  work[w] \in Working /\ work[w].permit \in Permit
  BY SMT DEF DispatchTypeOK, At, Idle, Pcs, Working, Recording

\* What Goto does to the Workers.
LEMMA GotoDoes ==
  ASSUME DispatchTypeOK, NEW w \in Worker, NEW s \in Pcs, work[w] \in Working, Goto(w, s)
  PROVE  /\ work' \in [Worker -> WorkType]
         /\ work'[w].pc = s /\ work'[w].permit = work[w].permit
         /\ \A v \in Worker \ {w} : work'[v] = work[v]
<1> DEFINE new == [work[w] EXCEPT !.pc = s]
<1>1. new \in Working /\ new.pc = s /\ new.permit = work[w].permit
  BY DEF Working
<1>2. work' = [work EXCEPT ![w] = new]
  BY DEF Goto
<1> HIDE DEF new
<1> QED
  BY <1>1, <1>2 DEF DispatchTypeOK, WorkType

\* What Raise does to the Workers.
LEMMA RaiseDoes ==
  ASSUME DispatchTypeOK, NEW w \in Worker, Raise(w)
  PROVE  /\ work' \in [Worker -> WorkType]
         /\ work'[w].pc = "idle"
         /\ \A v \in Worker \ {w} : work'[v] = work[v]
  BY DEF DispatchTypeOK, Raise, WorkType, Idle

-----------------------------------------------------------------------------
(* Steps inside and outside of the callback. *)

\* A step that ends outside of the callback and leaves every lifecycle alone.
LEMMA Outside ==
  ASSUME IInv, DispatchTypeOK', NEW w \in Worker,
         \A v \in Worker \ {w} : work'[v] = work[v],
         work'[w].pc \notin Callback,
         UNCHANGED <<consumed, entered>>,
         \A k \in Permit : Claims(k)' = Claims(k) /\ Ends(k)' = Ends(k)
  PROVE  IInv'
<1>1. ASSUME NEW k \in Permit PROVE PermitInv(k)'
  BY <1>1, SMT DEF IInv, PermitInv
<1>2. ASSUME NEW v \in Worker PROVE WorkerInv(v)'
  <2>1. CASE v = w
    BY <2>1 DEF WorkerInv
  <2>2. CASE v # w /\ work[v].pc \in Callback
    <3>1. work'[v] = work[v] /\ WorkerInv(v) /\ work[v].permit \in Permit
      BY <1>2, <2>2 DEF IInv, DispatchTypeOK, WorkerInv
    <3>2. PICK k \in Permit : k = work[v].permit
      BY <3>1
    <3> QED
      BY <2>2, <3>1, <3>2 DEF WorkerInv
  <2>3. CASE v # w /\ work[v].pc \notin Callback
    BY <1>2, <2>3 DEF WorkerInv
  <2> QED
    BY <2>1, <2>2, <2>3
<1>3. OneCallback'
  BY DEF IInv, OneCallback
<1> QED
  BY <1>1, <1>2, <1>3 DEF IInv

\* A step of the Worker that is, or now comes to be, in the callback of a Permit.
LEMMA Inside ==
  ASSUME IInv, DispatchTypeOK', NEW w \in Worker, NEW k \in Permit,
         work[w].permit = k, work'[w].permit = k \/ work'[w].pc \notin Callback,
         work[w].pc \in Callback \/ k \notin consumed,
         \A v \in Worker \ {w} : work'[v] = work[v],
         consumed \subseteq consumed',
         \A j \in Permit \ {k} : /\ Claims(j)' = Claims(j) /\ Ends(j)' = Ends(j)
                                 /\ entered'[j] = entered[j] /\ (j \in consumed' => j \in consumed),
         PermitInv(k)', WorkerInv(w)'
  PROVE  IInv'
<1>0. ASSUME NEW v \in Worker \ {w}, work[v].pc \in Callback PROVE work[v].permit \in Permit \ {k}
  <2>1. work[v].permit \in consumed /\ consumed \subseteq Permit
    BY <1>0 DEF IInv, WorkerInv, DispatchTypeOK
  <2> QED
    BY <1>0, <2>1 DEF IInv, OneCallback
<1>1. ASSUME NEW j \in Permit PROVE PermitInv(j)'
  BY <1>1, SMT DEF IInv, PermitInv
<1>2. ASSUME NEW v \in Worker PROVE WorkerInv(v)'
  <2>1. CASE v # w /\ work[v].pc \in Callback
    <3>1. PICK j \in Permit \ {k} : j = work[v].permit
      BY <1>0, <2>1
    <3>2. work'[v] = work[v] /\ WorkerInv(v)
      BY <1>2, <2>1 DEF IInv
    <3> QED
      BY <2>1, <3>1, <3>2, SMT DEF WorkerInv
  <2>2. CASE v # w /\ work[v].pc \notin Callback
    BY <1>2, <2>2 DEF WorkerInv
  <2> QED
    BY <2>1, <2>2
<1>3. OneCallback'
  BY <1>0, SMT DEF IInv, OneCallback
<1> QED
  BY <1>1, <1>2, <1>3 DEF IInv

-----------------------------------------------------------------------------
(* What reconciliation observes. *)

\* A lifecycle has a last event, and an observation rests on it.
LEMMA ObservedIn ==
  ASSUME IInv, NEW k \in Permit, Lifecycle(k) # {}
  PROVE  Observed(k) \in Lifecycle(k) /\ \A j \in Lifecycle(k) : j <= Observed(k)
<1>1. Lifecycle(k) = Claims(k) \cup Ends(k) /\ Lifecycle(k) \subseteq Nat
  BY SMT DEF Lifecycle, Claims, Ends, Positions, IInv, DispatchTypeOK
<1>2. PICK c \in Claims(k) : Claims(k) = {c}
  BY <1>1, SMT DEF IInv, PermitInv
<1>3. \E m \in Lifecycle(k) : \A j \in Lifecycle(k) : j <= m
  <2>1. CASE Ends(k) = {}
    BY <1>1, <1>2, <2>1, SMT
  <2>2. CASE Ends(k) # {}
    <3>1. PICK t \in Ends(k) : Ends(k) = {t}
      BY <2>2, SMT DEF IInv, PermitInv
    <3>2. Lifecycle(k) = {c, t} /\ c \in Nat /\ t \in Nat
      BY <1>1, <1>2, <3>1
    <3>3. CASE c <= t
      BY <3>2, <3>3, SMT
    <3>4. CASE t <= c
      BY <3>2, <3>4, SMT
    <3> QED
      BY <3>2, <3>3, <3>4, SMT
  <2> QED
    BY <2>1, <2>2
<1> QED
  BY <1>3 DEF Observed

\* What is observed of a lifecycle is one of its stages.
LEMMA StatusOf ==
  ASSUME IInv, NEW k \in Permit, Lifecycle(k) # {}
  PROVE  Status(k) \in Statuses /\ Status(k) # "consumed-without-claim"
<1>1. log[Observed(k)].type \in {"claimed"} \cup Terminal
  BY ObservedIn DEF Lifecycle, Positions
<1> QED
  BY <1>1 DEF Status, Statuses, Terminal

\* The record that a Worker may write is well formed.
LEMMA RecordTyped ==
  ASSUME IInv, NEW k \in Permit, Reconcilable(k)
  PROVE  RecordOf(k) \in RunRecord
<1>0. DOMAIN log \subseteq Nat
  BY SMT DEF IInv, DispatchTypeOK
<1>1. CASE Lifecycle(k) = {}
  <2>1. Observed(k) \in Anchors
    BY <1>1 DEF Reconcilable, Observed
  <2>2. Observed(k) \in Nat
    BY <1>0, <2>1 DEF Anchors
  <2>3. Status(k) = "consumed-without-claim"
    BY <1>1 DEF Status
  <2> QED
    BY <2>2, <2>3 DEF RecordOf, RunRecord, Statuses
<1>2. CASE Lifecycle(k) # {}
  <2>1. Observed(k) \in Nat
    BY <1>0, <1>2, ObservedIn DEF Lifecycle, Positions
  <2> QED
    BY <1>2, <2>1, StatusOf DEF RecordOf, RunRecord
<1> QED
  BY <1>1, <1>2

-----------------------------------------------------------------------------
(* The invariant. *)

\* The invariant holds before the first Job.
LEMMA InvInit == Init => IInv
<1> SUFFICES ASSUME Init PROVE IInv
  OBVIOUS
<1>1. DispatchTypeOK
  BY SMT DEF Init, DispatchTypeOK
<1>2. \A k, T : Positions(k, T) = {}
  BY SMT DEF Init, Positions
<1>3. \A k \in Permit : PermitInv(k)
  BY <1>2, SMT DEF Init, PermitInv, Claims, Ends
<1>4. \A w \in Worker : work[w].pc = "idle"
  BY DEF Init, Idle
<1> QED
  BY <1>1, <1>3, <1>4 DEF IInv, WorkerInv, OneCallback, Callback

\* A step without a new event that ends outside of the callback.
LEMMA NoEvent ==
  ASSUME IInv, NEW w \in Worker, UNCHANGED <<log, consumed, entered>>,
         work' \in [Worker -> WorkType], work'[w].pc \notin Callback,
         \A v \in Worker \ {w} : work'[v] = work[v]
  PROVE  IInv'
<1>1. DispatchTypeOK'
  BY DEF IInv, DispatchTypeOK, WorkType
<1>2. \A k \in Permit : Claims(k)' = Claims(k) /\ Ends(k)' = Ends(k)
  BY SameLog DEF Claims, Ends
<1> QED
  BY <1>1, <1>2, Outside

\* A step whose event is in no lifecycle and that ends outside of the callback.
LEMMA OtherEvent ==
  ASSUME IInv, NEW w \in Worker, NEW e \in Entries, log' = Append(log, e),
         e.type \notin {"claimed"} \cup Terminal, UNCHANGED <<consumed, entered>>,
         work' \in [Worker -> WorkType], work'[w].pc \notin Callback,
         \A v \in Worker \ {w} : work'[v] = work[v]
  PROVE  IInv'
<1>0. log \in Seq(Entries)
  BY DEF IInv, DispatchTypeOK
<1>1. log' \in Seq(Entries)
  BY <1>0, Grown
<1>2. DispatchTypeOK'
  BY <1>1 DEF IInv, DispatchTypeOK, WorkType
<1>3. \A k \in Permit : Claims(k)' = Claims(k) /\ Ends(k)' = Ends(k)
  BY <1>0, Grown, SMT DEF Claims, Ends
<1> QED
  BY <1>2, <1>3, Outside

\* The anchor is sealed.
LEMMA SealAnchorKeeps ==
  ASSUME IInv, NEW w \in Worker, SealAnchor(w)
  PROVE  IInv'
<1>0. DispatchTypeOK /\ "seal_anchor" \in Pcs /\ At(w, "seal_anchor") /\ UNCHANGED <<log, consumed, entered>>
  BY DEF IInv, Pcs, SealAnchor
<1>1. work[w] \in Working
  BY <1>0, AtWork
<1>2. Goto(w, "verify_anchor")
  BY DEF SealAnchor
<1>3. /\ work' \in [Worker -> WorkType] /\ work'[w].pc \notin Callback
      /\ \A v \in Worker \ {w} : work'[v] = work[v]
  BY <1>0, <1>1, <1>2, GotoDoes, RaiseDoes DEF Pcs, Callback
<1> QED
  BY <1>0, <1>3, NoEvent

\* The sealed log is loaded.
LEMMA VerifyAnchorKeeps ==
  ASSUME IInv, NEW w \in Worker, VerifyAnchor(w)
  PROVE  IInv'
<1>0. DispatchTypeOK /\ "verify_anchor" \in Pcs /\ At(w, "verify_anchor") /\ UNCHANGED <<log, consumed, entered>>
  BY DEF IInv, Pcs, VerifyAnchor
<1>1. work[w] \in Working
  BY <1>0, AtWork
<1>2. Goto(w, "consume") \/ Raise(w)
  BY DEF VerifyAnchor
<1>3. /\ work' \in [Worker -> WorkType] /\ work'[w].pc \notin Callback
      /\ \A v \in Worker \ {w} : work'[v] = work[v]
  BY <1>0, <1>1, <1>2, GotoDoes, RaiseDoes DEF Pcs, Callback
<1> QED
  BY <1>0, <1>3, NoEvent

\* The dispatch is sealed, or another Worker was first.
LEMMA SealDispatchKeeps ==
  ASSUME IInv, NEW w \in Worker, SealDispatch(w)
  PROVE  IInv'
<1>0. DispatchTypeOK /\ "seal" \in Pcs /\ At(w, "seal") /\ UNCHANGED <<log, consumed, entered>>
  BY DEF IInv, Pcs, SealDispatch
<1>1. work[w] \in Working
  BY <1>0, AtWork
<1>2. Goto(w, "reconcile") \/ Raise(w)
  BY DEF SealDispatch
<1>3. /\ work' \in [Worker -> WorkType] /\ work'[w].pc \notin Callback
      /\ \A v \in Worker \ {w} : work'[v] = work[v]
  BY <1>0, <1>1, <1>2, GotoDoes, RaiseDoes DEF Pcs, Callback
<1> QED
  BY <1>0, <1>3, NoEvent

\* A failed dispatch is sealed.
LEMMA SealFailedKeeps ==
  ASSUME IInv, NEW w \in Worker, SealFailedDispatch(w)
  PROVE  IInv'
<1>0. DispatchTypeOK /\ "seal_failed" \in Pcs /\ At(w, "seal_failed") /\ UNCHANGED <<log, consumed, entered>>
  BY DEF IInv, Pcs, SealFailedDispatch
<1>1. work[w] \in Working
  BY <1>0, AtWork
<1>2. Raise(w)
  BY DEF SealFailedDispatch
<1>3. /\ work' \in [Worker -> WorkType] /\ work'[w].pc \notin Callback
      /\ \A v \in Worker \ {w} : work'[v] = work[v]
  BY <1>0, <1>1, <1>2, GotoDoes, RaiseDoes DEF Pcs, Callback
<1> QED
  BY <1>0, <1>3, NoEvent

\* The record is sealed.
LEMMA SealRecordKeeps ==
  ASSUME IInv, NEW w \in Worker, SealRecord(w)
  PROVE  IInv'
<1>0. DispatchTypeOK /\ "seal_record" \in Pcs /\ At(w, "seal_record") /\ UNCHANGED <<log, consumed, entered>>
  BY DEF IInv, Pcs, SealRecord
<1>1. work[w] \in Working
  BY <1>0, AtWork
<1>2. Raise(w)
  BY DEF SealRecord
<1>3. /\ work' \in [Worker -> WorkType] /\ work'[w].pc \notin Callback
      /\ \A v \in Worker \ {w} : work'[v] = work[v]
  BY <1>0, <1>1, <1>2, GotoDoes, RaiseDoes DEF Pcs, Callback
<1> QED
  BY <1>0, <1>3, NoEvent

\* A Worker dies.
LEMMA CrashKeeps ==
  ASSUME IInv, NEW w \in Worker, CrashWorker(w)
  PROVE  IInv'
<1>1. DispatchTypeOK /\ Raise(w) /\ UNCHANGED <<log, consumed, entered>>
  BY DEF IInv, CrashWorker
<1>2. /\ work' \in [Worker -> WorkType] /\ work'[w].pc \notin Callback
      /\ \A v \in Worker \ {w} : work'[v] = work[v]
  BY <1>1, RaiseDoes DEF Callback
<1> QED
  BY <1>1, <1>2, NoEvent

\* The anchor is written once; the Job has a Permit.
LEMMA OpenKeeps ==
  ASSUME IInv, NEW w \in Worker, NEW k \in Permit, OpenRunStore(w, k)
  PROVE  IInv'
<1> DEFINE new == [pc |-> "seal_anchor", permit |-> k]
           e == Event("anchor", None)
<1>1. new \in Working /\ new.pc \notin Callback
  BY DEF Working, Pcs, Callback
<1>2. work' = [work EXCEPT ![w] = new] /\ UNCHANGED <<consumed, entered>>
  BY DEF OpenRunStore
<1>3. log' = Append(log, e) \/ UNCHANGED log
  BY DEF OpenRunStore, AppendUnique, Append1
<1>4. e \in Entries /\ e.type = "anchor"
  BY EventIs
<1> HIDE DEF new, e
<1>5. /\ work' \in [Worker -> WorkType] /\ work'[w].pc \notin Callback
      /\ \A v \in Worker \ {w} : work'[v] = work[v]
  BY <1>1, <1>2 DEF IInv, DispatchTypeOK, WorkType
<1>6. CASE UNCHANGED log
  BY <1>2, <1>5, <1>6, NoEvent
<1>7. CASE log' = Append(log, e)
  <2>1. e.type \notin {"claimed"} \cup Terminal
    BY <1>4 DEF Terminal
  <2> QED
    BY <1>2, <1>4, <1>5, <1>7, <2>1, OtherEvent
<1> QED
  BY <1>3, <1>6, <1>7

\* A Worker reconciles, and may be about to write a record.
LEMMA ReconcileKeeps ==
  ASSUME IInv, NEW w \in Worker, Reconcile(w)
  PROVE  IInv'
<1>0. DispatchTypeOK /\ "reconcile" \in Pcs /\ At(w, "reconcile") /\ UNCHANGED <<log, consumed, entered>>
  BY DEF IInv, Pcs, Reconcile
<1>1. PICK k \in Permit : k = work[w].permit
  BY <1>0, AtWork
<1>2. CASE Raise(w)
  <2>1. /\ work' \in [Worker -> WorkType] /\ work'[w].pc \notin Callback
        /\ \A v \in Worker \ {w} : work'[v] = work[v]
    BY <1>0, <1>2, RaiseDoes DEF Callback
  <2> QED
    BY <1>0, <2>1, NoEvent
<1>3. CASE Reconcilable(k) /\ work' = [work EXCEPT ![w] = [pc |-> "record", permit |-> k, seen |-> RecordOf(k)]]
  <2> DEFINE new == [pc |-> "record", permit |-> k, seen |-> RecordOf(k)]
  <2>1. RecordOf(k) \in RunRecord
    BY <1>3, RecordTyped
  <2>2. new \in Recording /\ new.pc \notin Callback
    BY <2>1 DEF Recording, Callback
  <2>3. work' = [work EXCEPT ![w] = new]
    BY <1>3
  <2> HIDE DEF new
  <2>4. /\ work' \in [Worker -> WorkType] /\ work'[w].pc \notin Callback
        /\ \A v \in Worker \ {w} : work'[v] = work[v]
    BY <1>0, <2>2, <2>3 DEF DispatchTypeOK, WorkType
  <2> QED
    BY <1>0, <2>4, NoEvent
<1> QED
  BY <1>1, <1>2, <1>3 DEF Reconcile

\* A record is written once per Permit.
LEMMA AppendRecordKeeps ==
  ASSUME IInv, NEW w \in Worker, AppendRecord(w)
  PROVE  IInv'
<1>0. DispatchTypeOK /\ work[w].pc = "record" /\ UNCHANGED <<consumed, entered>>
  BY DEF IInv, AppendRecord, At
<1>1. work[w] \in Recording
  BY <1>0, SMT DEF DispatchTypeOK, Idle, Working, Pcs
<1>2. /\ work[w].permit \in Permit /\ work[w].seen \in Entries
      /\ work[w].seen.type \notin {"claimed"} \cup Terminal
  BY <1>1 DEF Recording, Entries, RunRecord, Terminal
<1>3. CASE Raise(w) /\ UNCHANGED log
  <2>1. /\ work' \in [Worker -> WorkType] /\ work'[w].pc \notin Callback
        /\ \A v \in Worker \ {w} : work'[v] = work[v]
    BY <1>0, <1>3, RaiseDoes DEF Callback
  <2> QED
    BY <1>0, <1>3, <2>1, NoEvent
<1>4. CASE /\ UNCHANGED log \/ log' = Append(log, work[w].seen)
           /\ work' = [work EXCEPT ![w] = [pc |-> "seal_record", permit |-> work[w].permit]]
  <2> DEFINE new == [pc |-> "seal_record", permit |-> work[w].permit]
  <2>1. new \in Working /\ new.pc \notin Callback
    BY <1>2 DEF Working, Pcs, Callback
  <2>2. work' = [work EXCEPT ![w] = new]
    BY <1>4
  <2> HIDE DEF new
  <2>3. /\ work' \in [Worker -> WorkType] /\ work'[w].pc \notin Callback
        /\ \A v \in Worker \ {w} : work'[v] = work[v]
    BY <1>0, <2>1, <2>2 DEF DispatchTypeOK, WorkType
  <2>4. PICK e \in Entries : e = work[w].seen
    BY <1>2
  <2>5. CASE UNCHANGED log
    BY <1>0, <2>3, <2>5, NoEvent
  <2>6. CASE log' = Append(log, e)
    BY <1>0, <1>2, <2>3, <2>4, <2>6, OtherEvent
  <2> QED
    BY <1>4, <2>4, <2>5, <2>6
<1> QED
  BY <1>3, <1>4 DEF AppendRecord, AppendUnique, Append1

\* A step of the callback that appends one event of its Permit.
LEMMA CallbackEvent ==
  ASSUME IInv, NEW w \in Worker, NEW k \in Permit, NEW t \in {"claimed", "tool", "completed", "failed", "expired"},
         work[w].permit = k, work[w].pc \in Callback, log' = Append(log, Event(t, k)), UNCHANGED consumed,
         entered' \in [Permit -> Nat], \A j \in Permit \ {k} : entered'[j] = entered[j],
         work' \in [Worker -> WorkType], work'[w].permit = k \/ work'[w].pc \notin Callback,
         \A v \in Worker \ {w} : work'[v] = work[v],
         DispatchTypeOK' => PermitInv(k)' /\ WorkerInv(w)'
  PROVE  IInv'
<1>0. log \in Seq(Entries)
  BY DEF IInv, DispatchTypeOK
<1>1. PICK e \in Entries : e = Event(t, k) /\ e.type = t /\ e.permit = k
  BY EventIs, SMT
<1>2. log' \in Seq(Entries)
  BY <1>0, <1>1, Grown
<1>3. DispatchTypeOK'
  BY <1>2 DEF IInv, DispatchTypeOK, WorkType
<1>4. \A j \in Permit \ {k} : Claims(j)' = Claims(j) /\ Ends(j)' = Ends(j)
  BY <1>0, <1>1, Grown, SMT DEF Claims, Ends
<1> QED
  BY <1>3, <1>4, Inside

\* What that event does to the Permit's own lifecycle.
LEMMA OwnLifecycle ==
  ASSUME IInv, NEW k \in Permit, NEW t \in {"claimed", "tool", "completed", "failed", "expired"},
         log' = Append(log, Event(t, k))
  PROVE  /\ Claims(k)' = IF t = "claimed" THEN Claims(k) \cup {Len(log) + 1} ELSE Claims(k)
         /\ Ends(k)' = IF t \in Terminal THEN Ends(k) \cup {Len(log) + 1} ELSE Ends(k)
         /\ \A i \in Ends(k) : log'[i] = log[i]
         /\ log'[Len(log) + 1].type = t
<1>0. log \in Seq(Entries)
  BY DEF IInv, DispatchTypeOK
<1>1. PICK e \in Entries : e = Event(t, k) /\ e.type = t /\ e.permit = k
  BY EventIs, SMT
<1>2. Claims(k)' = IF t = "claimed" THEN Claims(k) \cup {Len(log) + 1} ELSE Claims(k)
  <2>1. CASE t = "claimed"
    <3>1. e.permit = k /\ e.type \in {"claimed"} /\ log' = Append(log, e)
      BY <1>1, <2>1
    <3>2. Positions(k, {"claimed"})' = Positions(k, {"claimed"}) \cup {Len(log) + 1}
      BY <1>0, <3>1, Grown
    <3> QED
      BY <2>1, <3>2 DEF Claims
  <2>2. CASE t # "claimed"
    <3>1. e.type \notin {"claimed"} /\ log' = Append(log, e)
      BY <1>1, <2>2
    <3>2. Positions(k, {"claimed"})' = Positions(k, {"claimed"})
      BY <1>0, <3>1, Grown
    <3> QED
      BY <2>2, <3>2 DEF Claims
  <2> QED
    BY <2>1, <2>2
<1>3. Ends(k)' = IF t \in Terminal THEN Ends(k) \cup {Len(log) + 1} ELSE Ends(k)
  <2>1. CASE t \in Terminal
    <3>1. e.permit = k /\ e.type \in Terminal /\ log' = Append(log, e)
      BY <1>1, <2>1
    <3>2. Positions(k, Terminal)' = Positions(k, Terminal) \cup {Len(log) + 1}
      BY <1>0, <3>1, Grown
    <3> QED
      BY <2>1, <3>2 DEF Ends
  <2>2. CASE t \notin Terminal
    <3>1. e.type \notin Terminal /\ log' = Append(log, e)
      BY <1>1, <2>2
    <3>2. Positions(k, Terminal)' = Positions(k, Terminal)
      BY <1>0, <3>1, Grown
    <3> QED
      BY <2>2, <3>2 DEF Ends
  <2> QED
    BY <2>1, <2>2
<1>4. \A i \in Ends(k) : log'[i] = log[i]
  BY <1>0, <1>1, Grown, SMT DEF Ends
<1>5. log'[Len(log) + 1] = e
  BY <1>0, <1>1, Grown
<1> QED
  BY <1>1, <1>2, <1>3, <1>4, <1>5

\* dispatch_once: the Permit store consumes the Permit for one Worker only.
LEMMA ConsumeKeeps ==
  ASSUME IInv, NEW w \in Worker, ConsumePermit(w)
  PROVE  IInv'
<1>0. DispatchTypeOK /\ "consume" \in Pcs /\ At(w, "consume") /\ UNCHANGED <<log, entered>>
  BY DEF IInv, Pcs, ConsumePermit
<1>1. work[w] \in Working /\ work[w].pc = "consume"
  BY <1>0, AtWork DEF At
<1>2. PICK k \in Permit : k = work[w].permit
  BY <1>0, AtWork
<1>3. CASE UNCHANGED consumed /\ (Goto(w, "reconcile") \/ Raise(w))
  <2>1. /\ work' \in [Worker -> WorkType] /\ work'[w].pc \notin Callback
        /\ \A v \in Worker \ {w} : work'[v] = work[v]
    BY <1>0, <1>1, <1>3, GotoDoes, RaiseDoes DEF Pcs, Callback
  <2> QED
    BY <1>0, <1>3, <2>1, NoEvent
<1>4. CASE k \notin consumed /\ consumed' = consumed \cup {k} /\ Goto(w, "claim")
  <2>1. /\ work' \in [Worker -> WorkType] /\ work'[w].pc = "claim" /\ work'[w].permit = k
        /\ \A v \in Worker \ {w} : work'[v] = work[v]
    BY <1>0, <1>1, <1>2, <1>4, GotoDoes DEF Pcs
  <2>2. DispatchTypeOK'
    BY <1>0, <1>4, <2>1 DEF DispatchTypeOK, WorkType
  <2>3. \A j \in Permit : Claims(j)' = Claims(j) /\ Ends(j)' = Ends(j)
    BY <1>0, SameLog DEF Claims, Ends
  <2>4. PermitInv(k) /\ Claims(k) = {} /\ Ends(k) = {} /\ entered[k] = 0
    BY <1>4 DEF IInv, PermitInv
  <2>5. PermitInv(k)'
    BY <1>0, <1>4, <2>3, <2>4 DEF PermitInv
  <2>6. WorkerInv(w)'
    BY <1>0, <1>4, <2>1, <2>3, <2>4 DEF WorkerInv
  <2>7. \A j \in Permit \ {k} : j \in consumed' => j \in consumed
    BY <1>4
  <2> QED
    BY <1>0, <1>2, <1>4, <2>1, <2>2, <2>3, <2>5, <2>6, <2>7, Inside
<1> QED
  BY <1>2, <1>3, <1>4 DEF ConsumePermit

\* The claim is the first event of its Permit.
LEMMA AppendClaimedKeeps ==
  ASSUME IInv, NEW w \in Worker, AppendClaimed(w)
  PROVE  IInv'
<1>0. DispatchTypeOK /\ "claim" \in Pcs /\ At(w, "claim") /\ UNCHANGED consumed
  BY DEF IInv, Pcs, AppendClaimed
<1>1. work[w] \in Working /\ work[w].pc = "claim" /\ work[w].pc \in Callback
  BY <1>0, AtWork DEF At, Callback
<1>2. PICK k \in Permit : k = work[w].permit
  BY <1>0, AtWork
<1>3. PermitInv(k) /\ WorkerInv(w) /\ k \in consumed /\ Ends(k) = {}
  <2>1. PermitInv(k) /\ WorkerInv(w)
    BY DEF IInv
  <2> QED
    BY <1>1, <1>2, <2>1 DEF WorkerInv
<1>4. PICK t \in {"claimed"} : log' = Append(log, Event(t, k)) /\ (Goto(w, "gateway") \/ Goto(w, "append_expired"))
  BY <1>2 DEF AppendClaimed, Append1
<1>5. /\ Claims(k)' = IF t = "claimed" THEN Claims(k) \cup {Len(log) + 1} ELSE Claims(k)
      /\ Ends(k)' = IF t \in Terminal THEN Ends(k) \cup {Len(log) + 1} ELSE Ends(k)
  BY <1>4, OwnLifecycle
<1>6. /\ work' \in [Worker -> WorkType] /\ work'[w].pc \in {"gateway", "append_expired"}
      /\ work'[w].permit = k /\ \A v \in Worker \ {w} : work'[v] = work[v]
  BY <1>0, <1>1, <1>2, <1>4, GotoDoes DEF Pcs
<1>7. entered' = entered /\ entered[k] = 0 /\ Claims(k)' = {Len(log) + 1} /\ Ends(k)' = {}
  BY <1>1, <1>2, <1>3, <1>4, <1>5 DEF AppendClaimed, WorkerInv, Terminal
<1>8. PermitInv(k)' /\ WorkerInv(w)'
  BY <1>0, <1>3, <1>6, <1>7 DEF PermitInv, WorkerInv
<1> QED
  BY <1>0, <1>1, <1>2, <1>4, <1>6, <1>7, <1>8, CallbackEvent DEF DispatchTypeOK

\* The Gateway is entered for a claimed Permit that nobody entered it for.
LEMMA EnterGatewayKeeps ==
  ASSUME IInv, NEW w \in Worker, EnterGateway(w)
  PROVE  IInv'
<1>0. DispatchTypeOK /\ "gateway" \in Pcs /\ At(w, "gateway") /\ UNCHANGED consumed
  BY DEF IInv, Pcs, EnterGateway
<1>1. work[w] \in Working /\ work[w].pc = "gateway" /\ work[w].pc \in Callback
  BY <1>0, AtWork DEF At, Callback
<1>2. PICK k \in Permit : k = work[w].permit
  BY <1>0, AtWork
<1>3. PermitInv(k) /\ WorkerInv(w) /\ k \in consumed /\ Ends(k) = {}
  <2>1. PermitInv(k) /\ WorkerInv(w)
    BY DEF IInv
  <2> QED
    BY <1>1, <1>2, <2>1 DEF WorkerInv
<1>4. PICK t \in {"tool"} : log' = Append(log, Event(t, k)) /\ Goto(w, "running")
  BY <1>2 DEF EnterGateway, Append1
<1>5. /\ Claims(k)' = IF t = "claimed" THEN Claims(k) \cup {Len(log) + 1} ELSE Claims(k)
      /\ Ends(k)' = IF t \in Terminal THEN Ends(k) \cup {Len(log) + 1} ELSE Ends(k)
  BY <1>4, OwnLifecycle
<1>6. /\ work' \in [Worker -> WorkType] /\ work'[w].pc = "running"
      /\ work'[w].permit = k /\ \A v \in Worker \ {w} : work'[v] = work[v]
  BY <1>0, <1>1, <1>2, <1>4, GotoDoes DEF Pcs
<1>7. entered[k] = 0 /\ Claims(k) # {} /\ Claims(k)' = Claims(k) /\ Ends(k)' = {}
  BY <1>1, <1>2, <1>3, <1>4, <1>5 DEF WorkerInv, Terminal, Callback
<1>8. entered' = [entered EXCEPT ![k] = entered[k] + 1]
  BY <1>2 DEF EnterGateway
<1>9. /\ entered' \in [Permit -> Nat] /\ entered'[k] = 1
      /\ \A j \in Permit \ {k} : entered'[j] = entered[j]
  BY <1>0, <1>7, <1>8, SMT DEF DispatchTypeOK
<1>10. PermitInv(k)' /\ WorkerInv(w)'
  BY <1>0, <1>3, <1>6, <1>7, <1>9, SMT DEF PermitInv, WorkerInv
<1> QED
  BY <1>0, <1>1, <1>2, <1>4, <1>6, <1>9, <1>10, CallbackEvent

\* An expired Permit ends without an entry.
LEMMA AppendExpiredKeeps ==
  ASSUME IInv, NEW w \in Worker, AppendExpired(w)
  PROVE  IInv'
<1>0. DispatchTypeOK /\ "append_expired" \in Pcs /\ At(w, "append_expired") /\ UNCHANGED consumed
  BY DEF IInv, Pcs, AppendExpired
<1>1. work[w] \in Working /\ work[w].pc = "append_expired" /\ work[w].pc \in Callback
  BY <1>0, AtWork DEF At, Callback
<1>2. PICK k \in Permit : k = work[w].permit
  BY <1>0, AtWork
<1>3. PermitInv(k) /\ WorkerInv(w) /\ k \in consumed /\ Ends(k) = {}
  <2>1. PermitInv(k) /\ WorkerInv(w)
    BY DEF IInv
  <2> QED
    BY <1>1, <1>2, <2>1 DEF WorkerInv
<1>4. PICK t \in {"expired"} : log' = Append(log, Event(t, k)) /\ (Goto(w, "seal") \/ Goto(w, "seal_failed"))
  BY <1>2 DEF AppendExpired, Append1
<1>5. /\ Claims(k)' = IF t = "claimed" THEN Claims(k) \cup {Len(log) + 1} ELSE Claims(k)
      /\ Ends(k)' = IF t \in Terminal THEN Ends(k) \cup {Len(log) + 1} ELSE Ends(k)
  BY <1>4, OwnLifecycle
<1>6. /\ work' \in [Worker -> WorkType] /\ work'[w].pc \notin Callback
      /\ work'[w].permit = k /\ \A v \in Worker \ {w} : work'[v] = work[v]
  BY <1>0, <1>1, <1>2, <1>4, GotoDoes DEF Pcs, Callback
<1>7. entered' = entered /\ Claims(k) # {} /\ Claims(k)' = Claims(k) /\ Ends(k)' = {Len(log) + 1}
  BY <1>1, <1>2, <1>3, <1>4, <1>5 DEF AppendExpired, WorkerInv, Terminal
<1>8. PermitInv(k)' /\ WorkerInv(w)'
  BY <1>0, <1>3, <1>6, <1>7, SMT DEF PermitInv, WorkerInv
<1> QED
  BY <1>0, <1>1, <1>2, <1>4, <1>6, <1>7, <1>8, CallbackEvent DEF DispatchTypeOK

\* A withdrawn activation ends without an entry.
LEMMA ResolveFailsKeeps ==
  ASSUME IInv, NEW w \in Worker, ResolveFails(w)
  PROVE  IInv'
<1>0. DispatchTypeOK /\ "gateway" \in Pcs /\ At(w, "gateway") /\ UNCHANGED consumed
  BY DEF IInv, Pcs, ResolveFails
<1>1. work[w] \in Working /\ work[w].pc = "gateway" /\ work[w].pc \in Callback
  BY <1>0, AtWork DEF At, Callback
<1>2. PICK k \in Permit : k = work[w].permit
  BY <1>0, AtWork
<1>3. PermitInv(k) /\ WorkerInv(w) /\ k \in consumed /\ Ends(k) = {}
  <2>1. PermitInv(k) /\ WorkerInv(w)
    BY DEF IInv
  <2> QED
    BY <1>1, <1>2, <2>1 DEF WorkerInv
<1>4. PICK t \in {"failed"} : log' = Append(log, Event(t, k)) /\ (Goto(w, "seal") \/ Goto(w, "seal_failed"))
  BY <1>2 DEF ResolveFails, Append1
<1>5. /\ Claims(k)' = IF t = "claimed" THEN Claims(k) \cup {Len(log) + 1} ELSE Claims(k)
      /\ Ends(k)' = IF t \in Terminal THEN Ends(k) \cup {Len(log) + 1} ELSE Ends(k)
  BY <1>4, OwnLifecycle
<1>6. /\ work' \in [Worker -> WorkType] /\ work'[w].pc \notin Callback
      /\ work'[w].permit = k /\ \A v \in Worker \ {w} : work'[v] = work[v]
  BY <1>0, <1>1, <1>2, <1>4, GotoDoes DEF Pcs, Callback
<1>7. entered' = entered /\ Claims(k) # {} /\ Claims(k)' = Claims(k) /\ Ends(k)' = {Len(log) + 1}
  BY <1>1, <1>2, <1>3, <1>4, <1>5 DEF ResolveFails, WorkerInv, Terminal
<1>8. PermitInv(k)' /\ WorkerInv(w)'
  BY <1>0, <1>3, <1>6, <1>7, SMT DEF PermitInv, WorkerInv
<1> QED
  BY <1>0, <1>1, <1>2, <1>4, <1>6, <1>7, <1>8, CallbackEvent DEF DispatchTypeOK

\* The Gateway call ends, once.
LEMMA AppendTerminalKeeps ==
  ASSUME IInv, NEW w \in Worker, AppendTerminal(w)
  PROVE  IInv'
<1>0. DispatchTypeOK /\ "running" \in Pcs /\ At(w, "running") /\ UNCHANGED consumed
  BY DEF IInv, Pcs, AppendTerminal
<1>1. work[w] \in Working /\ work[w].pc = "running" /\ work[w].pc \in Callback
  BY <1>0, AtWork DEF At, Callback
<1>2. PICK k \in Permit : k = work[w].permit
  BY <1>0, AtWork
<1>3. PermitInv(k) /\ WorkerInv(w) /\ k \in consumed /\ Ends(k) = {}
  <2>1. PermitInv(k) /\ WorkerInv(w)
    BY DEF IInv
  <2> QED
    BY <1>1, <1>2, <2>1 DEF WorkerInv
<1>4. PICK t \in {"completed", "failed"} : log' = Append(log, Event(t, k)) /\ (Goto(w, "seal") \/ Goto(w, "seal_failed"))
  BY <1>2 DEF AppendTerminal, Append1
<1>5. /\ Claims(k)' = IF t = "claimed" THEN Claims(k) \cup {Len(log) + 1} ELSE Claims(k)
      /\ Ends(k)' = IF t \in Terminal THEN Ends(k) \cup {Len(log) + 1} ELSE Ends(k)
  BY <1>4, OwnLifecycle
<1>6. /\ work' \in [Worker -> WorkType] /\ work'[w].pc \notin Callback
      /\ work'[w].permit = k /\ \A v \in Worker \ {w} : work'[v] = work[v]
  BY <1>0, <1>1, <1>2, <1>4, GotoDoes DEF Pcs, Callback
<1>7. entered' = entered /\ Claims(k) # {} /\ Claims(k)' = Claims(k) /\ Ends(k)' = {Len(log) + 1}
  BY <1>1, <1>2, <1>3, <1>4, <1>5 DEF AppendTerminal, WorkerInv, Terminal
<1>8. PermitInv(k)' /\ WorkerInv(w)'
  BY <1>0, <1>3, <1>6, <1>7, SMT DEF PermitInv, WorkerInv
<1> QED
  BY <1>0, <1>1, <1>2, <1>4, <1>6, <1>7, <1>8, CallbackEvent DEF DispatchTypeOK

\* Every step keeps the invariant.
LEMMA InvStep == IInv /\ [Next]_dispatchVars => IInv'
<1> SUFFICES ASSUME IInv, [Next]_dispatchVars PROVE IInv'
  OBVIOUS
<1>1. CASE UNCHANGED dispatchVars
  <2>1. \A k, T : Positions(k, T)' = Positions(k, T)
    BY <1>1, SameLog DEF dispatchVars
  <2>2. DispatchTypeOK' /\ OneCallback'
    BY <1>1 DEF IInv, DispatchTypeOK, OneCallback, dispatchVars
  <2>3. ASSUME NEW k \in Permit PROVE PermitInv(k)'
    BY <1>1, <2>1 DEF IInv, PermitInv, Claims, Ends, dispatchVars
  <2>4. ASSUME NEW w \in Worker PROVE WorkerInv(w)'
    <3>1. WorkerInv(w) /\ work' = work /\ consumed' = consumed /\ entered' = entered
      BY <1>1 DEF IInv, dispatchVars
    <3> QED
      BY <2>1, <3>1 DEF WorkerInv, Claims, Ends
  <2> QED
    BY <2>2, <2>3, <2>4 DEF IInv
<1>2. ASSUME NEW w \in Worker, Execute(w) PROVE IInv'
  BY <1>2, SealAnchorKeeps, VerifyAnchorKeeps, ConsumeKeeps, AppendClaimedKeeps, AppendExpiredKeeps,
     EnterGatewayKeeps, ResolveFailsKeeps, AppendTerminalKeeps, SealDispatchKeeps, SealFailedKeeps,
     ReconcileKeeps, AppendRecordKeeps, SealRecordKeeps DEF Execute
<1> QED
  BY <1>1, <1>2, OpenKeeps, CrashKeeps DEF Next

\* The invariant holds however Workers overlap, retry and die.
THEOREM DispatchInvariant == DispatchSpec => []IInv
  BY InvInit, InvStep, PTL DEF DispatchSpec

\* An entry of the Gateway is in the log as claimed before it happens, so
\* reconciliation never takes it for one that did not happen (the callback of
\* dispatch_once, and reconcile_capability_dispatch).
THEOREM EntryIsAlwaysClaimed == DispatchSpec => []EntryIsClaimed
<1>1. IInv => EntryIsClaimed
  <2> SUFFICES ASSUME IInv, NEW k \in Permit, entered[k] > 0
               PROVE  Status(k) # "consumed-without-claim"
    BY DEF EntryIsClaimed
  <2>1. Claims(k) # {}
    BY SMT DEF IInv, PermitInv
  <2>2. Lifecycle(k) # {}
    BY <2>1 DEF Lifecycle, Claims, Positions
  <2> QED
    BY <2>2, StatusOf
<1> QED
  BY <1>1, DispatchInvariant, PTL

-----------------------------------------------------------------------------
(* CapabilityDispatch implements SingleUseAuthority. *)

\* The outcome of an entered Permit is its one terminal event.
LEMMA OutcomeIs ==
  ASSUME IInv, NEW k \in Permit
  PROVE  /\ entered[k] = 0 \/ Ends(k) = {} => OutcomeOf(k) = None
         /\ \A i \in Ends(k) : entered[k] # 0 => OutcomeOf(k) = log[i].type /\ OutcomeOf(k) # None
<1>1. entered[k] = 0 \/ Ends(k) = {} => OutcomeOf(k) = None
  BY DEF OutcomeOf, Ends
<1>2. ASSUME NEW i \in Ends(k), entered[k] # 0
      PROVE  OutcomeOf(k) = log[i].type /\ OutcomeOf(k) # None
  <2>1. \A j \in Ends(k) : j = i
    BY <1>2 DEF IInv, PermitInv
  <2>2. (CHOOSE j \in Ends(k) : TRUE) = i
    BY <2>1
  <2>3. OutcomeOf(k) = log[i].type
    BY <1>2, <2>2 DEF OutcomeOf, Ends
  <2>4. log[i].type \in Terminal
    BY <1>2 DEF Ends, Positions
  <2> QED
    BY <2>3, <2>4, DispatchAssumption
<1> QED
  BY <1>1, <1>2

\* The same after a step.
LEMMA OutcomeWillBe ==
  ASSUME IInv', NEW k \in Permit
  PROVE  /\ entered'[k] = 0 \/ Ends(k)' = {} => OutcomeOf(k)' = None
         /\ \A i \in Ends(k)' : entered'[k] # 0 => OutcomeOf(k)' = log'[i].type /\ OutcomeOf(k)' # None
<1>1. entered'[k] = 0 \/ Ends(k)' = {} => OutcomeOf(k)' = None
  BY DEF OutcomeOf, Ends
<1>2. ASSUME NEW i \in Ends(k)', entered'[k] # 0
      PROVE  OutcomeOf(k)' = log'[i].type /\ OutcomeOf(k)' # None
  <2>1. \A j \in Ends(k)' : j = i
    BY <1>2 DEF IInv, PermitInv
  <2>2. (CHOOSE j \in Ends(k)' : TRUE) = i
    BY <2>1
  <2>3. OutcomeOf(k)' = log'[i].type
    BY <1>2, <2>2 DEF OutcomeOf, Ends
  <2>4. log'[i].type \in Terminal
    BY <1>2 DEF Ends, Positions
  <2> QED
    BY <2>3, <2>4, DispatchAssumption
<1> QED
  BY <1>1, <1>2

\* A step that does not end a Permit's Gateway call leaves its outcome alone.
LEMMA SameOutcome ==
  ASSUME IInv, IInv', NEW k \in Permit, entered'[k] = entered[k] \/ Ends(k) = {},
         entered'[k] = 0 \/ (Ends(k)' = Ends(k) /\ \A i \in Ends(k) : log'[i] = log[i])
  PROVE  OutcomeOf(k)' = OutcomeOf(k)
<1>1. CASE entered'[k] = 0
  BY <1>1, OutcomeIs, OutcomeWillBe
<1>2. CASE entered'[k] # 0 /\ Ends(k) = {}
  BY <1>2, OutcomeIs, OutcomeWillBe
<1>3. CASE entered'[k] # 0 /\ Ends(k) # {}
  <2>1. PICK i \in Ends(k) : TRUE
    BY <1>3
  <2>2. i \in Ends(k)' /\ log'[i] = log[i] /\ entered'[k] = entered[k]
    BY <1>3, <2>1
  <2> QED
    BY <1>3, <2>1, <2>2, OutcomeIs, OutcomeWillBe
<1> QED
  BY <1>1, <1>2, <1>3

\* An event of another Permit, or one that ends nothing, changes no authority.
LEMMA SameAuthority ==
  ASSUME UNCHANGED <<consumed, entered>>, \A k \in Permit : OutcomeOf(k)' = OutcomeOf(k)
  PROVE  UNCHANGED Gateway!authority
<1>1. \A k \in Permit : PermitStage(k)' = PermitStage(k)
  BY DEF PermitStage
<1> QED
  BY <1>1 DEF Gateway!authority

\* What an event does to the outcomes of the Permits it is not about.
LEMMA OtherOutcomes ==
  ASSUME IInv, IInv', NEW k \in Permit, NEW e \in Entries, log' = Append(log, e),
         entered'[k] = entered[k], e.permit # k \/ e.type \notin Terminal
  PROVE  OutcomeOf(k)' = OutcomeOf(k)
<1>1. log \in Seq(Entries)
  BY DEF IInv, DispatchTypeOK
<1>2. Ends(k)' = Ends(k) /\ \A i \in Ends(k) : log'[i] = log[i]
  BY <1>1, Grown, SMT DEF Ends
<1> QED
  BY <1>2, SameOutcome

\* The Permit store's consumption spends the authority.
LEMMA ConsumeRefines ==
  ASSUME IInv, IInv', NEW w \in Worker, ConsumePermit(w)
  PROVE  UNCHANGED <<log, consumed, entered>> \/ Gateway!Next
<1>1. CASE UNCHANGED consumed
  BY <1>1 DEF ConsumePermit
<1>2. CASE consumed' # consumed
  <2>0. DispatchTypeOK /\ "consume" \in Pcs /\ At(w, "consume")
    BY DEF IInv, Pcs, ConsumePermit
  <2>1. PICK k \in Permit : k = work[w].permit
    BY <2>0, AtWork
  <2>2. k \notin consumed /\ consumed' = consumed \cup {k} /\ UNCHANGED <<log, entered>>
    BY <1>2, <2>1 DEF ConsumePermit
  <2>3. \A j \in Permit : OutcomeOf(j)' = OutcomeOf(j)
    <3>1. \A j \in Permit : Ends(j)' = Ends(j)
      BY <2>2, SameLog DEF Ends
    <3> QED
      BY <2>2, <3>1, SameOutcome
  <2>4. PermitInv(k) /\ entered[k] = 0
    BY <2>2 DEF IInv, PermitInv
  <2>5. OutcomeOf(k) = None
    BY <2>4, OutcomeIs
  <2>6. PermitStage(k) = "free" /\ PermitStage(k)' = "spent"
    BY <2>2, <2>3, <2>5 DEF PermitStage
  <2>7. \A j \in Permit \ {k} : PermitStage(j)' = PermitStage(j)
    BY <2>2, <2>3 DEF PermitStage
  <2>8. Gateway!Spend(k)
    BY <2>2, <2>3, <2>6, <2>7, ZenonT(30) DEF Gateway!Spend
  <2> QED
    BY <2>8 DEF Gateway!Next
<1> QED
  BY <1>1, <1>2

\* The entry of the Gateway is the effect of the authority.
LEMMA EnterRefines ==
  ASSUME IInv, IInv', NEW w \in Worker, EnterGateway(w)
  PROVE  Gateway!Next
<1>0. DispatchTypeOK /\ "gateway" \in Pcs /\ At(w, "gateway")
  BY DEF IInv, Pcs, EnterGateway
<1>1. PICK k \in Permit : k = work[w].permit
  BY <1>0, AtWork
<1>2. WorkerInv(w) /\ work[w].pc = "gateway"
  BY <1>0 DEF IInv, At
<1>3. k \in consumed /\ Ends(k) = {} /\ entered[k] = 0
  BY <1>1, <1>2 DEF WorkerInv, Callback
<1>4. /\ entered' = [entered EXCEPT ![k] = entered[k] + 1] /\ UNCHANGED consumed
      /\ log' = Append(log, Event("tool", k))
  BY <1>1 DEF EnterGateway, Append1
<1>5. PICK e \in Entries : e = Event("tool", k) /\ e.type = "tool" /\ e.permit = k
  BY EventIs, SMT
<1>6. entered' = [entered EXCEPT ![k] = 1] /\ \A j \in Permit \ {k} : entered'[j] = entered[j]
  BY <1>0, <1>3, <1>4, SMT DEF DispatchTypeOK
<1>7. \A j \in Permit \ {k} : OutcomeOf(j)' = OutcomeOf(j)
  BY <1>4, <1>5, <1>6, OtherOutcomes
<1>8. OutcomeOf(k) = None /\ OutcomeOf(k)' = None
  <2>1. Ends(k)' = Ends(k)
    BY <1>4, OwnLifecycle DEF Terminal
  <2> QED
    BY <1>3, <2>1, OutcomeIs, OutcomeWillBe
<1>9. \A j \in Permit : PermitStage(j)' = PermitStage(j) /\ OutcomeOf(j)' = OutcomeOf(j)
  BY <1>4, <1>7, <1>8 DEF PermitStage
<1>10. PermitStage(k) = "spent"
  BY <1>3, <1>8 DEF PermitStage
<1>11. Gateway!Act(k)
  BY <1>3, <1>6, <1>9, <1>10 DEF Gateway!Act
<1> QED
  BY <1>11 DEF Gateway!Next

\* The terminal event of an entered Permit settles the authority.
LEMMA TerminalRefines ==
  ASSUME IInv, IInv', NEW w \in Worker, AppendTerminal(w)
  PROVE  Gateway!Next
<1>0. DispatchTypeOK /\ "running" \in Pcs /\ At(w, "running")
  BY DEF IInv, Pcs, AppendTerminal
<1>1. PICK k \in Permit : k = work[w].permit
  BY <1>0, AtWork
<1>2. WorkerInv(w) /\ work[w].pc = "running"
  BY <1>0 DEF IInv, At
<1>3. k \in consumed /\ Ends(k) = {} /\ entered[k] = 1
  BY <1>1, <1>2 DEF WorkerInv, Callback
<1>4. PICK t \in {"completed", "failed"} :
        log' = Append(log, Event(t, k)) /\ UNCHANGED <<consumed, entered>>
  BY <1>1 DEF AppendTerminal, Append1
<1>5. PICK e \in Entries : e = Event(t, k) /\ e.type = t /\ e.permit = k
  BY EventIs, SMT
<1>6. \A j \in Permit \ {k} : OutcomeOf(j)' = OutcomeOf(j)
  BY <1>4, <1>5, OtherOutcomes
<1>7. OutcomeOf(k) = None /\ OutcomeOf(k)' # None
  <2>1. Len(log) + 1 \in Ends(k)' /\ entered'[k] # 0
    BY <1>3, <1>4, OwnLifecycle, SMT DEF Terminal
  <2> QED
    BY <1>3, <2>1, OutcomeIs, OutcomeWillBe
<1>8. PermitStage(k) = "spent" /\ PermitStage(k)' = "settled"
  BY <1>3, <1>4, <1>7 DEF PermitStage
<1>9. \A j \in Permit \ {k} : PermitStage(j)' = PermitStage(j)
  BY <1>4, <1>6 DEF PermitStage
<1>10. Gateway!Settle(k)
  <2> DEFINE stages == [j \in Permit |-> PermitStage(j)]
             outcomes == [j \in Permit |-> OutcomeOf(j)]
  <2>1. stages[k] = "spent" /\ stages' = [stages EXCEPT ![k] = "settled"]
    BY <1>8, <1>9
  <2>2. outcomes' = [outcomes EXCEPT ![k] = OutcomeOf(k)'] /\ outcomes'[k] = OutcomeOf(k)'
    BY <1>6, ZenonT(30)
  <2>3. outcomes' = [outcomes EXCEPT ![k] = outcomes'[k]] /\ outcomes'[k] # None
    <3> HIDE DEF outcomes
    <3> QED
      BY <1>7, <2>2
  <2> QED
    BY <1>3, <1>4, <2>1, <2>3 DEF Gateway!Settle
<1> QED
  BY <1>10 DEF Gateway!Next

\* A terminal event of a Permit whose Gateway call never began settles nothing.
LEMMA NeverEnteredRefines ==
  ASSUME IInv, IInv', NEW w \in Worker, AppendExpired(w) \/ ResolveFails(w)
  PROVE  UNCHANGED Gateway!authority
<1>0. PICK s \in {"gateway", "append_expired"} : DispatchTypeOK /\ s \in Pcs /\ At(w, s)
  BY DEF IInv, Pcs, AppendExpired, ResolveFails
<1>1. PICK k \in Permit : k = work[w].permit
  BY <1>0, AtWork
<1>2. WorkerInv(w) /\ work[w].pc = s
  BY <1>0 DEF IInv, At
<1>3. entered[k] = 0
  BY <1>1, <1>2 DEF WorkerInv, Callback
<1>4. PICK t \in {"expired", "failed"} :
        log' = Append(log, Event(t, k)) /\ UNCHANGED <<consumed, entered>>
  BY <1>1 DEF AppendExpired, ResolveFails, Append1
<1>5. PICK e \in Entries : e = Event(t, k) /\ e.type = t /\ e.permit = k
  BY EventIs, SMT
<1>6. \A j \in Permit \ {k} : OutcomeOf(j)' = OutcomeOf(j)
  BY <1>4, <1>5, OtherOutcomes
<1>7. OutcomeOf(k)' = OutcomeOf(k)
  BY <1>3, <1>4, OutcomeIs, OutcomeWillBe
<1> QED
  BY <1>4, <1>6, <1>7, SameAuthority

\* An event that ends nothing.
LEMMA OpenEventRefines ==
  ASSUME IInv, IInv', NEW e \in Entries, log' = Append(log, e), e.type \notin Terminal,
         UNCHANGED <<consumed, entered>>
  PROVE  UNCHANGED Gateway!authority
  BY OtherOutcomes, SameAuthority

\* Every other event of the log ends nothing.
LEMMA OtherStepsRefine ==
  ASSUME IInv, IInv', NEW w \in Worker,
         AppendClaimed(w) \/ AppendRecord(w) \/ \E k \in Permit : OpenRunStore(w, k)
  PROVE  UNCHANGED <<log, consumed, entered>> \/ UNCHANGED Gateway!authority
<1>1. CASE AppendClaimed(w)
  <2>0. DispatchTypeOK /\ "claim" \in Pcs /\ At(w, "claim")
    BY <1>1 DEF IInv, Pcs, AppendClaimed
  <2>1. work[w].permit \in Permit
    BY <2>0, AtWork
  <2>2. PICK e \in Entries : e = Event("claimed", work[w].permit) /\ e.type = "claimed"
    BY <2>1, EventIs, SMT
  <2>3. log' = Append(log, e) /\ UNCHANGED <<consumed, entered>>
    BY <1>1, <2>2 DEF AppendClaimed, Append1
  <2> QED
    BY <2>2, <2>3, OpenEventRefines DEF Terminal
<1>2. CASE AppendRecord(w)
  <2>1. CASE UNCHANGED log
    BY <1>2, <2>1 DEF AppendRecord
  <2>2. CASE log' # log
    <3>1. /\ log' = Append(log, work[w].seen) /\ UNCHANGED <<consumed, entered>>
          /\ work[w].pc = "record"
      BY <1>2, <2>2 DEF AppendRecord, AppendUnique, Append1, At
    <3>2. work[w] \in {Idle} \cup Working \cup Recording
      BY DEF IInv, DispatchTypeOK
    <3>3. work[w].seen \in RunRecord
      BY <3>1, <3>2, SMT DEF Idle, Working, Pcs, Recording
    <3>4. PICK e \in Entries : e = work[w].seen /\ e.type = "recorded"
      BY <3>3 DEF Entries, RunRecord
    <3> QED
      BY <3>1, <3>4, OpenEventRefines DEF Terminal
  <2> QED
    BY <2>1, <2>2
<1>3. ASSUME NEW k \in Permit, OpenRunStore(w, k)
      PROVE  UNCHANGED <<log, consumed, entered>> \/ UNCHANGED Gateway!authority
  <2>1. CASE UNCHANGED log
    BY <1>3, <2>1 DEF OpenRunStore
  <2>2. CASE log' # log
    <3>1. PICK e \in Entries : e = Event("anchor", None) /\ e.type = "anchor"
      BY EventIs, SMT
    <3>2. log' = Append(log, e) /\ UNCHANGED <<consumed, entered>>
      BY <1>3, <2>2, <3>1 DEF OpenRunStore, AppendUnique, Append1
    <3> QED
      BY <3>1, <3>2, OpenEventRefines DEF Terminal
  <2> QED
    BY <2>1, <2>2
<1> QED
  BY <1>1, <1>2, <1>3

\* Every step is a step of the abstract authority, or one it does not see.
LEMMA RefinesStep ==
  ASSUME IInv, IInv', [Next]_dispatchVars
  PROVE  UNCHANGED <<log, consumed, entered>> \/ UNCHANGED Gateway!authority \/ Gateway!Next
<1>1. CASE UNCHANGED dispatchVars
  BY <1>1 DEF dispatchVars
<1>2. ASSUME NEW w \in Worker, Execute(w)
      PROVE  UNCHANGED <<log, consumed, entered>> \/ UNCHANGED Gateway!authority \/ Gateway!Next
  <2>1. CASE SealAnchor(w) \/ VerifyAnchor(w) \/ SealDispatch(w) \/ SealFailedDispatch(w)
             \/ Reconcile(w) \/ SealRecord(w)
    BY <2>1 DEF SealAnchor, VerifyAnchor, SealDispatch, SealFailedDispatch, Reconcile, SealRecord
  <2> QED
    BY <1>2, <2>1, ConsumeRefines, EnterRefines, TerminalRefines, NeverEnteredRefines, OtherStepsRefine
    DEF Execute
<1>3. ASSUME NEW w \in Worker, CrashWorker(w)
      PROVE  UNCHANGED <<log, consumed, entered>>
  BY <1>3 DEF CrashWorker
<1> QED
  BY <1>1, <1>2, <1>3, OtherStepsRefine DEF Next

\* However many Workers overlap, die and retry, a Permit lets the Tool Gateway
\* be entered once, only after it was consumed, and the log settles it for good
\* with the stage of that very call (dispatch_once of the gateway dispatcher).
THEOREM GatewayIsSingleUse == DispatchSpec => GatewayEnteredOnce
<1>1. Init => Gateway!Init
  BY DEF Init, Gateway!Init, PermitStage, OutcomeOf
<1>2. IInv /\ IInv' /\ [Next]_dispatchVars =>
        [\/ UNCHANGED <<log, consumed, entered>>
         \/ UNCHANGED Gateway!authority
         \/ Gateway!Next]_dispatchVars
  BY RefinesStep
<1> QED
  BY <1>1, <1>2, DispatchInvariant, PTL DEF DispatchSpec, GatewayEnteredOnce

\* The same, stated with the abstract specification.
THEOREM ImplementsGateway == DispatchSpec => Gateway!Spec
<1>1. Init => Gateway!Init
  BY DEF Init, Gateway!Init, PermitStage, OutcomeOf
<1>2. IInv /\ IInv' /\ [Next]_dispatchVars => [Gateway!Next]_(Gateway!authority)
  <2> SUFFICES ASSUME IInv, IInv', [Next]_dispatchVars, UNCHANGED <<log, consumed, entered>>
               PROVE  UNCHANGED Gateway!authority
    BY RefinesStep
  <2>1. \A k \in Permit : Ends(k)' = Ends(k)
    BY SameLog DEF Ends
  <2>2. \A k \in Permit : OutcomeOf(k)' = OutcomeOf(k)
    BY <2>1, SameOutcome
  <2> QED
    BY <2>2, SameAuthority
<1> QED
  BY <1>1, <1>2, DispatchInvariant, PTL DEF DispatchSpec, Gateway!Spec

-----------------------------------------------------------------------------
(* The results that Workers return. *)

\* A result is the last event of its Permit's lifecycle, at or below the seal.
SealedAs(r) ==
  /\ r.permit \in Permit
  /\ \E i \in Ends(r.permit) :
       i <= sealed /\ log[i].type = r.stage /\ \A j \in Lifecycle(r.permit) : j <= i

SealInv == sealed \in 0 .. Len(log) /\ \A r \in results : SealedAs(r)

\* A seal only covers more.
LEMMA SealKeeps ==
  ASSUME IInv, SealInv, UNCHANGED <<log, results>>, sealed' = sealed \/ sealed' = Len(log)
  PROVE  SealInv'
<1>1. Len(log) \in Nat /\ sealed \in Nat /\ sealed <= sealed' /\ sealed' \in 0 .. Len(log')
  BY SMT DEF IInv, DispatchTypeOK, SealInv
<1>2. ASSUME NEW r \in results' PROVE SealedAs(r)'
  <2>0. SealedAs(r)
    BY <1>2 DEF SealInv
  <2>1. PICK i \in Ends(r.permit) :
          i <= sealed /\ log[i].type = r.stage /\ \A j \in Lifecycle(r.permit) : j <= i
    BY <2>0 DEF SealedAs
  <2>2. Ends(r.permit)' = Ends(r.permit) /\ Lifecycle(r.permit)' = Lifecycle(r.permit)
    BY SameLog DEF Ends, Lifecycle
  <2>3. i \in Nat
    BY SMT DEF IInv, DispatchTypeOK, Ends, Positions
  <2>4. i <= sealed'
    BY <1>1, <2>1, <2>3, SMT
  <2> QED
    BY <2>0, <2>1, <2>2, <2>4 DEF SealedAs
<1> QED
  BY <1>1, <1>2 DEF SealInv

\* An event of a Permit that has no terminal yet, or outside of every lifecycle,
\* touches no result.
LEMMA EventKeepsResults ==
  ASSUME IInv, SealInv, UNCHANGED <<sealed, results>>, NEW e \in Entries, log' = Append(log, e),
         \/ e.type \notin {"claimed"} \cup Terminal
         \/ e.permit \in Permit /\ Ends(e.permit) = {}
  PROVE  SealInv'
<1>0. log \in Seq(Entries)
  BY DEF IInv, DispatchTypeOK
<1>1. sealed' \in 0 .. Len(log')
  BY <1>0, SMT DEF SealInv
<1>2. ASSUME NEW r \in results' PROVE SealedAs(r)'
  <2>0. SealedAs(r)
    BY <1>2 DEF SealInv
  <2>1. PICK i \in Ends(r.permit) :
          i <= sealed /\ log[i].type = r.stage /\ \A j \in Lifecycle(r.permit) : j <= i
    BY <2>0 DEF SealedAs
  <2>2. ~(e.permit = r.permit /\ e.type \in {"claimed"} \cup Terminal)
    BY <2>1
  <2>3. ~(e.permit = r.permit /\ e.type \in Terminal)
    BY <2>2
  <2>4. Lifecycle(r.permit)' = Lifecycle(r.permit)
    BY <1>0, <2>2, Grown, SMT DEF Lifecycle
  <2>5. Ends(r.permit)' = Ends(r.permit) /\ log'[i] = log[i]
    BY <1>0, <2>3, Grown, SMT DEF Ends
  <2> QED
    BY <2>0, <2>1, <2>4, <2>5 DEF SealedAs
<1> QED
  BY <1>1, <1>2 DEF SealInv

\* The event of a Worker in the callback.
LEMMA CallbackKeepsResults ==
  ASSUME IInv, SealInv, UNCHANGED <<sealed, results>>, NEW w \in Worker,
         NEW s \in Callback, At(w, s), NEW t \in {"claimed", "tool", "completed", "failed", "expired"},
         log' = Append(log, Event(t, work[w].permit))
  PROVE  SealInv'
<1>1. DispatchTypeOK /\ s \in Pcs /\ WorkerInv(w)
  BY DEF IInv, Callback, Pcs
<1>2. PICK k \in Permit : k = work[w].permit
  BY <1>1, AtWork
<1>3. Ends(k) = {}
  BY <1>1, <1>2 DEF WorkerInv, At
<1>4. PICK e \in Entries : e = Event(t, k) /\ e.permit = k
  BY EventIs, SMT
<1> QED
  BY <1>2, <1>3, <1>4, EventKeepsResults

\* A Worker returns the terminal of a log that is sealed to its last event.
LEMMA ReconcileKeepsResults ==
  ASSUME IInv, SealInv, NEW w \in Worker, Reconcile(w)
  PROVE  SealInv'
<1>1. CASE UNCHANGED results
  BY <1>1, SealKeeps DEF Reconcile
<1>2. CASE results' # results
  <2>0. DispatchTypeOK /\ "reconcile" \in Pcs /\ At(w, "reconcile") /\ UNCHANGED <<log, sealed>>
    BY DEF IInv, Pcs, Reconcile
  <2>1. PICK k \in Permit : k = work[w].permit
    BY <2>0, AtWork
  <2>2. PICK r : r = [permit |-> k, stage |-> Status(k)]
    OBVIOUS
  <2>3. /\ Reconcilable(k) /\ Status(k) \in Terminal /\ results' = results \cup {r}
        /\ r.permit = k /\ r.stage = Status(k)
    BY <1>2, <2>1, <2>2 DEF Reconcile
  <2>4. Lifecycle(k) # {}
    BY <2>3 DEF Status, Terminal
  <2>5. PICK i \in Lifecycle(k) : i = Observed(k) /\ \A j \in Lifecycle(k) : j <= i
    BY <2>4, ObservedIn
  <2>6. log[i].type = Status(k)
    BY <2>3, <2>4, <2>5 DEF Status, Terminal
  <2>7. i \in Ends(k) /\ i \in 1 .. Len(log) /\ sealed = Len(log)
    BY <2>0, <2>3, <2>5, <2>6, SMT
    DEF Lifecycle, Ends, Positions, DispatchTypeOK, Reconcilable, FullySealed
  <2>8. i <= sealed
    BY <2>0, <2>7, SMT DEF DispatchTypeOK
  <2>9. SealedAs(r)
    BY <2>3, <2>5, <2>6, <2>7, <2>8 DEF SealedAs
  <2>10. ASSUME NEW q, SealedAs(q) PROVE SealedAs(q)'
    BY <2>0, <2>10, SameLog DEF SealedAs, Ends, Lifecycle
  <2> QED
    BY <2>0, <2>3, <2>9, <2>10 DEF SealInv
<1> QED
  BY <1>1, <1>2

\* Every step keeps the results under the seal.
LEMMA SealStep == IInv /\ SealInv /\ [Next]_dispatchVars => SealInv'
<1> SUFFICES ASSUME IInv, SealInv, [Next]_dispatchVars PROVE SealInv'
  OBVIOUS
<1>1. CASE UNCHANGED dispatchVars
  BY <1>1, SealKeeps DEF dispatchVars
<1>2. ASSUME NEW w \in Worker, Execute(w) PROVE SealInv'
  <2>1. CASE \/ SealAnchor(w) \/ VerifyAnchor(w) \/ ConsumePermit(w) \/ SealDispatch(w)
             \/ SealFailedDispatch(w) \/ SealRecord(w)
    BY <2>1, SealKeeps
    DEF SealAnchor, VerifyAnchor, ConsumePermit, SealDispatch, SealFailedDispatch, SealRecord
  <2>2. CASE AppendClaimed(w) \/ AppendExpired(w) \/ ResolveFails(w)
    BY <2>2, CallbackKeepsResults DEF AppendClaimed, AppendExpired, ResolveFails, Append1, Callback
  <2>3. CASE EnterGateway(w) \/ AppendTerminal(w)
    BY <2>3, CallbackKeepsResults DEF EnterGateway, AppendTerminal, Append1, Callback
  <2>4. CASE AppendRecord(w)
    <3>1. CASE UNCHANGED log
      BY <2>4, <3>1, SealKeeps DEF AppendRecord, AppendUnique, Append1
    <3>2. CASE log' # log
      <4>1. /\ log' = Append(log, work[w].seen) /\ UNCHANGED <<sealed, results>>
            /\ work[w].pc = "record"
        BY <2>4, <3>2 DEF AppendRecord, AppendUnique, Append1, At
      <4>2. work[w] \in {Idle} \cup Working \cup Recording
        BY DEF IInv, DispatchTypeOK
      <4>3. work[w].seen \in RunRecord
        BY <4>1, <4>2, SMT DEF Idle, Working, Pcs, Recording
      <4>4. PICK e \in Entries : e = work[w].seen /\ e.type = "recorded"
        BY <4>3 DEF Entries, RunRecord
      <4> QED
        BY <4>1, <4>4, EventKeepsResults DEF Terminal
    <3> QED
      BY <3>1, <3>2
  <2> QED
    BY <1>2, <2>1, <2>2, <2>3, <2>4, ReconcileKeepsResults DEF Execute
<1>3. ASSUME NEW w \in Worker, NEW k \in Permit, OpenRunStore(w, k) PROVE SealInv'
  <2>1. CASE UNCHANGED log
    BY <1>3, <2>1, SealKeeps DEF OpenRunStore, AppendUnique, Append1
  <2>2. CASE log' # log
    <3>1. PICK e \in Entries : e = Event("anchor", None) /\ e.type = "anchor"
      BY EventIs, SMT
    <3>2. log' = Append(log, e) /\ UNCHANGED <<sealed, results>>
      BY <1>3, <2>2, <3>1 DEF OpenRunStore, AppendUnique, Append1
    <3> QED
      BY <3>1, <3>2, EventKeepsResults DEF Terminal
  <2> QED
    BY <2>1, <2>2
<1>4. ASSUME NEW w \in Worker, CrashWorker(w) PROVE SealInv'
  BY <1>4, SealKeeps DEF CrashWorker
<1> QED
  BY <1>1, <1>2, <1>3, <1>4 DEF Next

\* Whatever a Worker returns to the Control Plane is the one terminal of its
\* Permit's lifecycle and lies under a seal, for any number of Workers and
\* Permits (_verified_dispatch_reconciliation).
THEOREM ResultIsAlwaysSealed == DispatchSpec => []ResultIsSealed
<1>1. Init => SealInv
  BY SMT DEF Init, SealInv
<1>2. SealInv => ResultIsSealed
  <2> SUFFICES ASSUME SealInv, NEW r \in results
               PROVE  \E i \in Lifecycle(r.permit) :
                        /\ i <= sealed /\ log[i].type = r.stage
                        /\ \A j \in Lifecycle(r.permit) : j <= i
    BY DEF ResultIsSealed
  <2>1. Ends(r.permit) \subseteq Lifecycle(r.permit)
    BY DEF Ends, Lifecycle, Positions
  <2> QED
    BY <2>1 DEF SealInv, SealedAs
<1>3. IInv /\ SealInv /\ [Next]_dispatchVars => SealInv'
  BY SealStep
<1> QED
  BY <1>1, <1>2, <1>3, DispatchInvariant, PTL DEF DispatchSpec

-----------------------------------------------------------------------------
(* Budgets: BudgetLedger. *)

Usage == [tools : Int, calls : Int, tokens : Int]

CheckpointRecord == [rev : Nat, owner : Owner \cup {NoOne}, use : Usage,
                     origin : Int, at : Int, elapsed : Int]

ControllerRecord ==
  [up : BOOLEAN, bound : BOOLEAN, failed : BOOLEAN, mem : [Account -> Usage],
   live : [Account -> SUBSET Res], saved : [Account -> CheckpointRecord],
   started : Int, offset : [Account -> Int]]

CallRecord == [kind : Kind \cup {"none"}, owner : Owner \cup {NoOne}, bound : Nat, done : BOOLEAN]

TypeOK ==
  /\ ctl \in [Owner -> ControllerRecord]
  /\ head \in [Account -> CheckpointRecord]
  /\ call \in [Res -> CallRecord]
  /\ clock \in [mono : Int, wall : Int, steps : Nat]
  /\ owed \in [Account -> Usage]

-----------------------------------------------------------------------------
(* Usage vectors. *)

(* Usages add and subtract column by column. *)
LEMMA UsageArithmetic ==
  ASSUME NEW u \in Usage, NEW v \in Usage
  PROVE  /\ Plus(u, v) \in Usage /\ Minus(u, v) \in Usage
         /\ Minus(Plus(u, v), v) = u /\ Minus(u, Nothing) = u
BY SMT DEF Usage, Plus, Minus, Nothing, Use

(* Adding and subtracting keep which usage covers which. *)
LEMMA UsageOrder ==
  ASSUME NEW u \in Usage, NEW v \in Usage, NEW x \in Usage, Covers(u, v)
  PROVE  /\ Covers(Plus(u, x), Plus(v, x)) /\ Covers(Minus(u, x), Minus(v, x))
         /\ Covers(x, Nothing) => Covers(u, Minus(v, x)) /\ Covers(Plus(u, x), v)
BY SMT DEF Usage, Plus, Minus, Nothing, Use, Covers

(* A usage covers itself. *)
LEMMA CoversItself == ASSUME NEW u \in Usage PROVE Covers(u, u)
BY SMT DEF Usage, Covers

(* A charge is a usage, and never negative. *)
LEMMA ChargeType ==
  ASSUME NEW kind, NEW n \in Nat
  PROVE  /\ Charge(kind, n) \in Usage /\ Covers(Charge(kind, n), Nothing)
         /\ Nothing \in Usage /\ Covers(Nothing, Nothing)
         /\ Use(0, 0, n) \in Usage /\ Covers(Use(0, 0, n), Nothing)
BY SMT DEF Charge, Usage, Use, Covers, Nothing

(* A limit is a usage, and never negative. *)
LEMMA LimitType ==
  ASSUME NEW a \in Account
  PROVE  Limit[a] \in Usage /\ Covers(Limit[a], Nothing)
BY BudgetAssumption, SMT DEF Usage, Covers, Nothing, Use

-----------------------------------------------------------------------------
(* What a mutation makes of the controllers: usage and reservations of the *)
(* accounts in A, and nothing else of the process.                         *)

SameProcess(c, b) ==
  /\ b \in ControllerRecord
  /\ b.up = c.up /\ b.bound = c.bound /\ b.failed = c.failed
  /\ b.saved = c.saved /\ b.started = c.started /\ b.offset = c.offset

\* The accounts in A are charged x for the handle r; or r ended on them.
Charged(c, b, A, r, x) ==
  /\ SameProcess(c, b)
  /\ \A a \in Account :
       IF a \in A THEN b.mem[a] = Plus(c.mem[a], x) /\ b.live[a] = c.live[a] \cup {r}
                  ELSE b.mem[a] = c.mem[a] /\ b.live[a] = c.live[a]

Ended(c, b, A, r, x) ==
  /\ SameProcess(c, b)
  /\ \A a \in Account :
       IF a \in A THEN b.mem[a] = Minus(c.mem[a], x) /\ b.live[a] = c.live[a] \ {r}
                  ELSE b.mem[a] = c.mem[a] /\ b.live[a] = c.live[a]

(* What a reservation changes in the memory of its process. *)
LEMMA ReserveOnBody ==
  ASSUME NEW c \in ControllerRecord, NEW a \in Account, NEW r \in Res, NEW x \in Usage
  PROVE  /\ SameProcess(c, ReserveOn(c, a, r, x))
         /\ ReserveOn(c, a, r, x).mem = [c.mem EXCEPT ![a] = Plus(c.mem[a], x)]
         /\ ReserveOn(c, a, r, x).live = [c.live EXCEPT ![a] = c.live[a] \cup {r}]
<1>1. Plus(c.mem[a], x) \in Usage BY UsageArithmetic DEF ControllerRecord
<1> QED BY <1>1 DEF ReserveOn, SameProcess, ControllerRecord

(* What a commit changes in the memory of its process. *)
LEMMA CommitOnBody ==
  ASSUME NEW c \in ControllerRecord, NEW A \in SUBSET Account, NEW r \in Res
  PROVE  /\ SameProcess(c, CommitOn(c, A, r))
         /\ CommitOn(c, A, r).mem = c.mem
         /\ CommitOn(c, A, r).live = [a \in Account |-> IF a \in A THEN c.live[a] \ {r} ELSE c.live[a]]
BY DEF CommitOn, SameProcess, ControllerRecord

(* What a release changes in the memory of its process. *)
LEMMA ReleaseOnBody ==
  ASSUME NEW c \in ControllerRecord, NEW A \in SUBSET Account, NEW r \in Res, NEW x \in Usage
  PROVE  Ended(c, ReleaseOn(c, A, r, x), A, r, x)
<1>1. ASSUME NEW a \in Account PROVE Minus(c.mem[a], x) \in Usage
  BY UsageArithmetic DEF ControllerRecord
<1> DEFINE b == CommitOn(c, A, r)
<1>2. SameProcess(c, b) BY CommitOnBody
<1>3. b \in ControllerRecord BY <1>2 DEF SameProcess
<1>4. b.live = [a \in Account |-> IF a \in A THEN c.live[a] \ {r} ELSE c.live[a]] BY CommitOnBody, SMT
<1> HIDE DEF b
<1> QED BY <1>1, <1>2, <1>3, <1>4 DEF ReleaseOn, Ended, SameProcess, ControllerRecord, b

Within(c) == \A a \in Account : Covers(Limit[a], c.mem[a])

\* A reservation charges all its accounts or none.
LEMMA ReservedBody ==
  ASSUME NEW c \in ControllerRecord, NEW r \in Res, NEW kind \in Kind, NEW x \in Usage,
         AccountsOf(kind) \subseteq Account, \A a \in Account : r \notin c.live[a], Within(c)
  PROVE  /\ \/ Charged(c, Reserved(c, r, kind, x), AccountsOf(kind), r, x)
            \/ Charged(c, Reserved(c, r, kind, x), {}, r, x)
         /\ Within(Reserved(c, r, kind, x))
<1> DEFINE first == ReserveOn(c, "campaign", r, x)
<1>0. "campaign" \in Account /\ SameProcess(c, c)
  BY BudgetAssumption DEF SameProcess
<1>1. /\ SameProcess(c, first) /\ first \in ControllerRecord
      /\ first.mem = [c.mem EXCEPT !["campaign"] = Plus(c.mem["campaign"], x)]
      /\ first.live = [c.live EXCEPT !["campaign"] = c.live["campaign"] \cup {r}]
  BY <1>0, ReserveOnBody, SMT DEF SameProcess
<1>2. CASE ~Admits(c, "campaign", x)
  <2>1. Reserved(c, r, kind, x) = c BY <1>2 DEF Reserved
  <2> QED BY <1>0, <2>1 DEF Charged
<1>3. CASE Admits(c, "campaign", x) /\ kind # "dual"
  <2>1. Reserved(c, r, kind, x) = first /\ AccountsOf(kind) = {"campaign"}
    BY <1>3 DEF Reserved, AccountsOf
  <2> HIDE DEF first
  <2>2. Charged(c, first, {"campaign"}, r, x)
    BY <1>0, <1>1 DEF Charged, ControllerRecord
  <2>3. Within(first) BY <1>0, <1>1, <1>3 DEF Within, Admits, Fits, ControllerRecord
  <2> QED BY <2>1, <2>2, <2>3
<1>4. CASE Admits(c, "campaign", x) /\ kind = "dual" /\ Admits(first, "dedicated", x)
  <2> DEFINE b == ReserveOn(first, "dedicated", r, x)
  <2>1. /\ Reserved(c, r, kind, x) = b /\ AccountsOf(kind) = {"campaign", "dedicated"}
        /\ "dedicated" \in Account
    BY <1>4 DEF Reserved, AccountsOf
  <2>2. /\ SameProcess(first, b)
        /\ b.mem = [first.mem EXCEPT !["dedicated"] = Plus(first.mem["dedicated"], x)]
        /\ b.live = [first.live EXCEPT !["dedicated"] = first.live["dedicated"] \cup {r}]
    BY <1>1, <2>1, ReserveOnBody, SMT
  <2> HIDE DEF b, first
  <2>3. Charged(c, b, {"campaign", "dedicated"}, r, x)
    BY <1>0, <1>1, <2>1, <2>2, SMT DEF Charged, SameProcess, ControllerRecord
  <2>4. Within(b)
    BY <1>0, <1>1, <1>4, <2>1, <2>2, SMT DEF Within, Admits, Fits, ControllerRecord
  <2> QED BY <2>1, <2>3, <2>4
<1>5. CASE Admits(c, "campaign", x) /\ kind = "dual" /\ ~Admits(first, "dedicated", x)
  <2> DEFINE b == ReleaseOn(first, {"campaign"}, r, x)
  <2>1. Reserved(c, r, kind, x) = b BY <1>5 DEF Reserved
  <2>2. Ended(first, b, {"campaign"}, r, x)
    BY <1>0, <1>1, ReleaseOnBody
  <2> HIDE DEF b, first
  <2>3. Minus(Plus(c.mem["campaign"], x), x) = c.mem["campaign"]
    BY <1>0, UsageArithmetic DEF ControllerRecord
  <2>4. \A a \in Account : b.mem[a] = c.mem[a] BY <1>0, <1>1, <2>2, <2>3 DEF Ended, ControllerRecord
  <2>5. \A a \in Account : b.live[a] = c.live[a]
    <3>1. (c.live["campaign"] \cup {r}) \ {r} = c.live["campaign"] BY <1>0
    <3>2. first.live["campaign"] = c.live["campaign"] \cup {r} BY <1>0, <1>1 DEF ControllerRecord
    <3>3. \A a \in Account \ {"campaign"} : first.live[a] = c.live[a] BY <1>1 DEF ControllerRecord
    <3>4. \A a \in Account \ {"campaign"} : b.live[a] = first.live[a] BY <2>2 DEF Ended
    <3>5. b.live["campaign"] = c.live["campaign"] BY <1>0, <2>2, <3>1, <3>2 DEF Ended
    <3> QED BY <3>3, <3>4, <3>5
  <2>6. SameProcess(c, b) BY <1>1, <2>2 DEF Ended, SameProcess
  <2> QED BY <2>1, <2>4, <2>5, <2>6 DEF Charged, Within
<1> QED BY <1>2, <1>3, <1>4, <1>5

(* Ending a reservation leaves the usage within the limit. *)
LEMMA EndedWithin ==
  ASSUME NEW c \in ControllerRecord, NEW b, NEW A, NEW r, NEW x \in Usage,
         Within(c), Covers(x, Nothing), Ended(c, b, A, r, x)
  PROVE  Within(b)
<1> SUFFICES ASSUME NEW a \in Account PROVE Covers(Limit[a], b.mem[a])
  BY DEF Within
<1>1. c.mem[a] \in Usage /\ Covers(Limit[a], c.mem[a]) /\ Limit[a] \in Usage
  BY LimitType DEF Within, ControllerRecord
<1>2. Covers(Limit[a], Minus(c.mem[a], x)) BY <1>1, UsageOrder
<1> QED BY <1>1, <1>2 DEF Ended

\* The three ways a handle ends, when it is active on its accounts.
LEMMA EndedBodies ==
  ASSUME TypeOK, NEW c \in ControllerRecord, NEW r \in Res,
         AccountsOf(call[r].kind) \subseteq Account, Active(c, r)
  PROVE  /\ Ended(c, Committed(c, r), AccountsOf(call[r].kind), r, Nothing)
         /\ Ended(c, Released(c, r), AccountsOf(call[r].kind), r, Charge(call[r].kind, call[r].bound))
         /\ call[r].kind = "model" => \A actual \in Nat :
              Ended(c, Settled(c, r, actual), AccountsOf(call[r].kind), r,
                    Use(0, 0, IF actual > call[r].bound THEN 0 ELSE call[r].bound - actual))
<1> DEFINE A == AccountsOf(call[r].kind)
<1>0. call[r].bound \in Nat BY DEF TypeOK, CallRecord
<1>1. ASSUME NEW x \in Usage PROVE Ended(c, ReleaseOn(c, A, r, x), A, r, x)
  BY ReleaseOnBody
<1>2. Ended(c, CommitOn(c, A, r), A, r, Nothing)
  <2>1. \A a \in Account : Minus(c.mem[a], Nothing) = c.mem[a]
    <3> TAKE a \in Account
    <3>1. c.mem[a] \in Usage BY DEF ControllerRecord
    <3> QED BY <3>1, UsageArithmetic
  <2>2. /\ SameProcess(c, CommitOn(c, A, r)) /\ CommitOn(c, A, r).mem = c.mem
        /\ CommitOn(c, A, r).live = [a \in Account |-> IF a \in A THEN c.live[a] \ {r} ELSE c.live[a]]
    BY CommitOnBody, SMT
  <2> QED BY <2>1, <2>2 DEF Ended
<1>3. Charge(call[r].kind, call[r].bound) \in Usage BY <1>0, ChargeType
<1>4. ASSUME call[r].kind = "model", NEW actual \in Nat
      PROVE  Ended(c, Settled(c, r, actual), A, r,
                   Use(0, 0, IF actual > call[r].bound THEN 0 ELSE call[r].bound - actual))
  <2>1. A = {"campaign"} BY <1>4 DEF AccountsOf
  <2>2. CASE actual <= call[r].bound
    <3>1. Settled(c, r, actual) = ReleaseOn(c, {"campaign"}, r, Use(0, 0, call[r].bound - actual))
      BY <2>2 DEF Settled
    <3>2. Use(0, 0, call[r].bound - actual) \in Usage BY <1>0, <2>2, ChargeType, SMT
    <3>3. ~(actual > call[r].bound) BY <1>0, <2>2, SMT
    <3> QED BY <1>1, <2>1, <3>1, <3>2, <3>3
  <2>3. CASE ~(actual <= call[r].bound)
    <3>1. Settled(c, r, actual) = CommitOn(c, A, r) BY <2>3 DEF Settled, Committed
    <3>2. actual > call[r].bound BY <1>0, <2>3, SMT
    <3> QED BY <1>2, <3>1, <3>2 DEF Nothing
  <2> QED BY <2>2, <2>3
<1>5. Committed(c, r) = CommitOn(c, A, r) BY DEF Committed
<1>6. Released(c, r) = ReleaseOn(c, A, r, Charge(call[r].kind, call[r].bound)) BY DEF Released
<1> QED BY <1>1, <1>2, <1>3, <1>4, <1>5, <1>6

-----------------------------------------------------------------------------
(* The inductive invariant. *)

\* A handle belongs to a live process, and names accounts that exist.
HandlesBelong ==
  \A r \in Res : call[r].owner # NoOne =>
    /\ call[r].kind # "none" /\ AccountsOf(call[r].kind) \subseteq Account
    /\ ctl[call[r].owner].up

\* Every controller is within the limits, and an account without a checkpoint
\* has no owner.
WithinLimits == \A o \in Owner : Within(ctl[o])
HeadsOwned == \A a \in Account : head[a].rev = 0 => head[a].owner = NoOne

CurrentMemory ==
  \A o \in Owner, a \in Account :
    InForce(o) /\ head[a].owner = o => ctl[o].mem[a] = head[a].use

LiveHandles ==
  \A o \in Owner, a \in Account :
    ctl[o].up /\ ~ctl[o].failed =>
      ctl[o].live[a] =
        {r \in Res : call[r].owner = o /\ ~call[r].done /\ a \in AccountsOf(call[r].kind)}

BudgetInv ==
  /\ TypeOK /\ HandlesBelong /\ WithinLimits /\ HeadsOwned /\ CurrentMemory /\ LiveHandles
  /\ JournalCoversSpending /\ DurationNotRefilled

-----------------------------------------------------------------------------
(* One mutation of a process. *)

\* What `change' leaves of a mutation with body b on the accounts in A.
Left(o, b, outcome) ==
  /\ ctl' \in [Owner -> ControllerRecord]
  /\ \A p \in Owner \ {o} : ctl'[p] = ctl[p]
  /\ ctl'[o].up = ctl[o].up /\ ctl'[o].bound = ctl[o].bound
  /\ ctl'[o].started = ctl[o].started /\ ctl'[o].offset = ctl[o].offset
  /\ IF outcome = "ok" THEN ctl'[o].mem = b.mem /\ ctl'[o].live = b.live /\ ~ctl'[o].failed
     ELSE ctl'[o].failed /\ ctl'[o].mem \in {b.mem, ctl[o].mem}

\* The journal stays, or the current owner o replaces its heads in A.
Advanced(o, A, b) ==
  /\ InForce(o)
  /\ \A a \in Account \ A : head'[a] = head[a]
  /\ \A a \in A :
       /\ head[a].owner = o /\ head[a].rev # 0
       /\ head'[a].owner = o /\ head'[a].rev \in Nat \ {0}
       /\ head'[a].use = b.mem[a] /\ head'[a].origin = head[a].origin
       /\ head'[a].elapsed = Elapsed(ctl[o], a)

Journalled(o, A, b) == head' = head \/ Advanced(o, A, b)

(* What one journalled mutation leaves in memory and in the journal, *)
(* whatever its outcome.                                             *)
LEMMA MutateLeaves ==
  ASSUME TypeOK, HeadsOwned, NEW o \in Owner, NEW A \in SUBSET Account, NEW b,
         SameProcess(ctl[o], b), NEW outcome \in Outcome, Mutate(o, A, b, outcome)
  PROVE  /\ Left(o, b, outcome)
         /\ head' \in [Account -> CheckpointRecord] /\ Journalled(o, A, b)
         /\ outcome = "ok" /\ ctl[o].bound => Advanced(o, A, b)
<1>0. ctl[o] \in ControllerRecord /\ b \in ControllerRecord /\ clock.wall \in Int /\ clock.mono \in Int
  BY DEF TypeOK, SameProcess
<1>1. CASE outcome = "ok" /\ Unjournalled(o, b)
  <2>1. Left(o, b, outcome)
    BY <1>0, <1>1 DEF Left, Unjournalled, TypeOK, SameProcess
  <2> QED BY <1>1, <2>1 DEF Unjournalled, TypeOK, Journalled
<1>2. CASE Change(o, A, b, outcome)
  <2> DEFINE new == [a \in Account |-> IF a \in A THEN NextCheckpoint(o, b, a) ELSE head[a]]
             ok == Current(o, A) /\ \A a \in A : Recordable(b, a)
  <2>1. /\ ctl[o].bound /\ ~ctl[o].failed
        /\ ~ok => outcome = "rolled back"
        /\ head' = IF outcome = "rolled back" THEN head ELSE new
        /\ ctl' = [ctl EXCEPT ![o] =
                     IF outcome = "ok"
                     THEN [b EXCEPT !.saved = [a \in Account |-> IF a \in A THEN new[a] ELSE b.saved[a]]]
                     ELSE [(IF Current(o, A) THEN b ELSE ctl[o]) EXCEPT !.failed = TRUE]]
    BY <1>2 DEF Change
  <2>2. ASSUME NEW a \in Account
        PROVE  /\ Elapsed(b, a) = Elapsed(ctl[o], a) /\ Elapsed(b, a) \in Int
               /\ b.mem[a] \in Usage /\ b.saved[a] = ctl[o].saved[a]
               /\ b.saved[a] \in CheckpointRecord
    <3>1. /\ b.offset = ctl[o].offset /\ b.started = ctl[o].started /\ b.saved = ctl[o].saved
          /\ b.offset[a] \in Int /\ b.started \in Int /\ clock.mono \in Int
          /\ b.mem[a] \in Usage /\ b.saved[a] \in CheckpointRecord
      BY <1>0 DEF SameProcess, ControllerRecord
    <3>2. Elapsed(b, a) \in Int BY <3>1, SMT DEF Elapsed
    <3> QED BY <3>1, <3>2 DEF Elapsed
  <2>3. ASSUME NEW a \in Account
        PROVE  /\ NextCheckpoint(o, b, a) \in CheckpointRecord
               /\ NextCheckpoint(o, b, a).owner = o /\ NextCheckpoint(o, b, a).rev # 0
               /\ NextCheckpoint(o, b, a).use = b.mem[a]
               /\ NextCheckpoint(o, b, a).origin = ctl[o].saved[a].origin
               /\ NextCheckpoint(o, b, a).elapsed = Elapsed(ctl[o], a)
    BY <1>0, <2>2, SMT DEF NextCheckpoint, CheckpointRecord
  <2>4. new \in [Account -> CheckpointRecord] BY <2>3 DEF TypeOK
  <2>5. \A a \in A : new[a] = NextCheckpoint(o, b, a) OBVIOUS
  <2>6. \A a \in Account \ A : new[a] = head[a] OBVIOUS
  <2> HIDE DEF new
  <2>7. [b EXCEPT !.saved = [a \in Account |-> IF a \in A THEN new[a] ELSE b.saved[a]]]
          \in ControllerRecord
    BY <1>0, <2>4 DEF ControllerRecord
  <2>8. head' \in [Account -> CheckpointRecord] BY <2>1, <2>4 DEF TypeOK
  <2>9. Left(o, b, outcome)
    <3>1. CASE outcome = "ok"
      BY <1>0, <2>1, <2>7, <3>1 DEF Left, TypeOK, SameProcess, ControllerRecord
    <3>2. CASE outcome # "ok" /\ Current(o, A)
      <4>1. ctl' = [ctl EXCEPT ![o] = [b EXCEPT !.failed = TRUE]] BY <2>1, <3>2
      <4> QED BY <1>0, <3>2, <4>1 DEF Left, TypeOK, SameProcess, ControllerRecord
    <3>3. CASE outcome # "ok" /\ ~Current(o, A)
      <4>1. ctl' = [ctl EXCEPT ![o] = [ctl[o] EXCEPT !.failed = TRUE]] BY <2>1, <3>3
      <4> QED BY <1>0, <3>3, <4>1 DEF Left, TypeOK, SameProcess, ControllerRecord
    <3> QED BY <3>1, <3>2, <3>3
  <2>10. CASE outcome = "rolled back"
    BY <2>1, <2>8, <2>9, <2>10 DEF Journalled
  <2>11. CASE outcome # "rolled back"
    <3>1. head' = new /\ Current(o, A) BY <2>1, <2>11
    <3>2. ASSUME NEW a \in A
          PROVE  /\ head[a].owner = o /\ head[a].rev # 0 /\ head[a] = ctl[o].saved[a]
                 /\ head'[a] = NextCheckpoint(o, b, a)
      BY <2>5, <3>1, BudgetAssumption DEF Current, HeadsOwned
    <3>3. ASSUME NEW a \in A
          PROVE  /\ head'[a].owner = o /\ head'[a].rev \in Nat \ {0}
                 /\ head'[a].use = b.mem[a] /\ head'[a].origin = head[a].origin
                 /\ head'[a].elapsed = Elapsed(ctl[o], a)
      <4>1. a \in Account OBVIOUS
      <4> QED BY <2>3, <3>2, <4>1, SMT DEF CheckpointRecord
    <3>4. Advanced(o, A, b)
      BY <2>1, <2>6, <3>1, <3>2, <3>3 DEF Advanced, InForce
    <3> QED BY <2>8, <2>9, <3>4 DEF Journalled
  <2> QED BY <2>10, <2>11
<1> QED BY <1>1, <1>2 DEF Mutate

\* What every mutation keeps, whatever its caller does with the answer.
LEMMA MutateKeeps ==
  ASSUME BudgetInv, NEW o \in Owner, NEW A \in SUBSET Account, NEW b,
         SameProcess(ctl[o], b), Within(b), \A a \in Account \ A : b.mem[a] = ctl[o].mem[a],
         NEW outcome \in Outcome, Mutate(o, A, b, outcome), UNCHANGED clock
  PROVE  WithinLimits' /\ HeadsOwned' /\ CurrentMemory' /\ DurationNotRefilled'
<1>1. Left(o, b, outcome) /\ Journalled(o, A, b)
  BY MutateLeaves DEF BudgetInv
<1>2. outcome = "ok" /\ ctl[o].bound => Advanced(o, A, b)
  BY MutateLeaves DEF BudgetInv
<1>3. WithinLimits'
  <2> SUFFICES ASSUME NEW p \in Owner, NEW a \in Account PROVE Covers(Limit[a], ctl'[p].mem[a])
    BY DEF WithinLimits, Within
  <2> QED BY <1>1 DEF Left, BudgetInv, WithinLimits, Within
<1>4. HeadsOwned'
  <2> SUFFICES ASSUME NEW a \in Account PROVE head'[a].rev = 0 => head'[a].owner = NoOne
    BY DEF HeadsOwned
  <2> QED BY <1>1 DEF Journalled, Advanced, BudgetInv, HeadsOwned
<1>5. ASSUME NEW p \in Owner, NEW a \in Account, InForce(p)', head'[a].owner = p
      PROVE  /\ ctl'[p].mem[a] = head'[a].use
             /\ Elapsed(ctl[p], a) >= head'[a].elapsed
             /\ clock.steps = 0 => Elapsed(ctl[p], a) >= clock.wall - head'[a].origin
  <2>0. /\ Elapsed(ctl[p], a) \in Int
    BY SMT DEF BudgetInv, TypeOK, Elapsed, ControllerRecord
  <2>1. CASE p # o
    <3>1. ctl'[p] = ctl[p] /\ InForce(p) BY <1>1, <1>5, <2>1 DEF Left, InForce
    <3>2. head'[a] = head[a] BY <1>1, <1>5, <2>1 DEF Journalled, Advanced
    <3> QED BY <1>5, <3>1, <3>2 DEF BudgetInv, CurrentMemory, DurationNotRefilled
  <2>2. CASE p = o
    <3>1. outcome = "ok" /\ Advanced(o, A, b) /\ InForce(o) /\ ctl'[o].mem = b.mem
      BY <1>1, <1>2, <1>5, <2>2 DEF Left, InForce, Advanced
    <3>2. CASE a \in A
      <4>1. head[a].owner = o /\ head'[a].origin = head[a].origin BY <3>1, <3>2 DEF Advanced
      <4>2. clock.steps = 0 => Elapsed(ctl[o], a) >= clock.wall - head[a].origin
        BY <3>1, <4>1 DEF BudgetInv, DurationNotRefilled
      <4> QED BY <2>0, <2>2, <3>1, <3>2, <4>1, <4>2, SMT DEF Advanced
    <3>3. CASE a \notin A
      <4>1. head'[a] = head[a] /\ b.mem[a] = ctl[o].mem[a] BY <3>1, <3>3 DEF Advanced
      <4> QED BY <1>5, <2>2, <3>1, <4>1 DEF BudgetInv, CurrentMemory, DurationNotRefilled
    <3> QED BY <3>2, <3>3
  <2> QED BY <2>1, <2>2
<1>6. CurrentMemory' BY <1>5 DEF CurrentMemory
<1>7. DurationNotRefilled'
  <2> SUFFICES ASSUME NEW p \in Owner, NEW a \in Account, InForce(p)', head'[a].owner = p
               PROVE  /\ Elapsed(ctl[p], a)' >= head'[a].elapsed
                      /\ clock'.steps = 0 => Elapsed(ctl[p], a)' >= clock'.wall - head'[a].origin
    BY DEF DurationNotRefilled
  <2>1. Elapsed(ctl[p], a)' = Elapsed(ctl[p], a) BY <1>1 DEF Left, Elapsed
  <2> QED BY <1>5, <2>1
<1> QED BY <1>3, <1>4, <1>6, <1>7

\* A reservation.
LEMMA ReserveKeeps ==
  ASSUME BudgetInv, NEW o \in Owner, NEW r \in Res, NEW kind \in Kind, NEW n \in Nat,
         NEW outcome \in Outcome, Reserve(o, r, kind, n, outcome)
  PROVE  BudgetInv'
<1> DEFINE c == ctl[o]
           x == Charge(kind, n)
           A == AccountsOf(kind)
           b == Reserved(c, r, kind, x)
           granted == outcome = "ok" /\ \A a \in A : r \in b.live[a]
<1>1. /\ c.up /\ call[r].kind = "none" /\ A \subseteq Account /\ "campaign" \in A
      /\ Mutate(o, A, b, outcome) /\ UNCHANGED clock
      /\ IF granted
         THEN /\ call' = [call EXCEPT ![r] = [kind |-> kind, owner |-> o, bound |-> n, done |-> FALSE]]
              /\ Granted(o, A, x)
         ELSE UNCHANGED <<call, owed>>
  BY DEF Reserve, AccountsOf
<1>2. x \in Usage /\ Covers(x, Nothing) /\ c \in ControllerRecord
  BY ChargeType DEF BudgetInv, TypeOK
<1>3. call[r].owner = NoOne /\ NoOne # o
  BY <1>1, BudgetAssumption DEF BudgetInv, HandlesBelong
<1>4. ~c.failed BY <1>1 DEF Mutate, Change, Unjournalled
<1>5. \A a \in Account : r \notin c.live[a]
  BY <1>1, <1>3, <1>4, SMT DEF BudgetInv, LiveHandles
<1>6. /\ Charged(c, b, A, r, x) \/ Charged(c, b, {}, r, x)
      /\ Within(b)
  <2>1. Within(c) BY DEF BudgetInv, WithinLimits
  <2> QED BY <1>1, <1>2, <1>5, <2>1, ReservedBody
<1> HIDE DEF b, x, A
<1>7. SameProcess(c, b) /\ \A a \in Account \ A : b.mem[a] = c.mem[a] /\ b.live[a] = c.live[a]
  BY <1>6 DEF Charged
<1>8. WithinLimits' /\ HeadsOwned' /\ CurrentMemory' /\ DurationNotRefilled'
  BY <1>1, <1>6, <1>7, MutateKeeps
<1>9. /\ Left(o, b, outcome) /\ Journalled(o, A, b)
      /\ head' \in [Account -> CheckpointRecord]
      /\ outcome = "ok" /\ c.bound => Advanced(o, A, b)
  BY <1>1, <1>7, MutateLeaves DEF BudgetInv
<1>10. granted => Charged(c, b, A, r, x)
  BY <1>1, <1>5, <1>6 DEF Charged
<1>11. ~granted /\ outcome = "ok" => Charged(c, b, {}, r, x)
  BY <1>1, <1>6 DEF Charged
<1>12. TypeOK'
  <2>1. call' \in [Res -> CallRecord]
    <3>1. [kind |-> kind, owner |-> o, bound |-> n, done |-> FALSE] \in CallRecord BY DEF CallRecord
    <3> QED BY <1>1, <3>1 DEF BudgetInv, TypeOK
  <2>2. owed' \in [Account -> Usage]
    <3>1. \A a \in Account : Plus(owed[a], x) \in Usage
      BY <1>2, UsageArithmetic DEF BudgetInv, TypeOK
    <3> QED BY <1>1, <3>1, SMT DEF Granted, BudgetInv, TypeOK
  <2> QED BY <1>1, <1>9, <2>1, <2>2 DEF Left, BudgetInv, TypeOK
<1>13. HandlesBelong'
  <2> SUFFICES ASSUME NEW q \in Res, call'[q].owner # NoOne
               PROVE  /\ call'[q].kind # "none" /\ AccountsOf(call'[q].kind) \subseteq Account
                      /\ ctl'[call'[q].owner].up
    BY DEF HandlesBelong
  <2>1. \A p \in Owner : ctl'[p].up = ctl[p].up BY <1>9 DEF Left
  <2>2. CASE call'[q] = call[q]
    BY <2>1, <2>2, SMT DEF BudgetInv, HandlesBelong, TypeOK, CallRecord
  <2>3. CASE call'[q] # call[q]
    <3>1. call'[q].kind = kind /\ call'[q].owner = o BY <1>1, <2>3, SMT DEF BudgetInv, TypeOK
    <3> QED BY <1>1, <2>1, <3>1 DEF Kind, A
  <2> QED BY <2>2, <2>3
<1>14. LiveHandles'
  <2> SUFFICES ASSUME NEW p \in Owner, NEW a \in Account, ctl'[p].up, ~ctl'[p].failed
               PROVE  ctl'[p].live[a] = {q \in Res : /\ call'[q].owner = p /\ ~call'[q].done
                                                     /\ a \in AccountsOf(call'[q].kind)}
    BY DEF LiveHandles
  <2>0. ctl[p].up /\ ~ctl[p].failed
    BY <1>1, <1>4, <1>9 DEF Left
  <2>1. ctl[p].live[a] = {q \in Res : call[q].owner = p /\ ~call[q].done /\ a \in AccountsOf(call[q].kind)}
    BY <2>0 DEF BudgetInv, LiveHandles
  <2>2. CASE p # o
    <3>1. ctl'[p] = ctl[p] BY <1>9, <2>2 DEF Left
    <3>2. \A q \in Res : call'[q] = call[q] \/ (q = r /\ call'[r].owner = o)
      BY <1>1, SMT DEF BudgetInv, TypeOK
    <3>3. \A q \in Res : call'[q].owner = p => call'[q] = call[q] BY <2>2, <3>2
    <3>4. \A q \in Res : call[q].owner = p => call'[q] = call[q] BY <1>3, <2>2, <3>2, BudgetAssumption
    <3> QED BY <2>1, <3>1, <3>3, <3>4, SMT
  <2>3. CASE p = o
    <3>1. outcome = "ok" /\ ctl'[o].live = b.live BY <1>9, <2>3 DEF Left
    <3>2. CASE granted
      <4>1. /\ call'[r].owner = o /\ ~call'[r].done /\ AccountsOf(call'[r].kind) = A
            /\ \A q \in Res \ {r} : call'[q] = call[q]
        BY <1>1, <3>2, SMT DEF BudgetInv, TypeOK, A
      <4>2. b.live[a] = IF a \in A THEN c.live[a] \cup {r} ELSE c.live[a]
        BY <1>10, <3>2 DEF Charged
      <4> SUFFICES ASSUME NEW q \in Res
                   PROVE  q \in b.live[a] <=> /\ call'[q].owner = o /\ ~call'[q].done
                                              /\ a \in AccountsOf(call'[q].kind)
        BY <2>1, <2>3, <3>1, <4>2
      <4>3. CASE q = r BY <1>3, <2>1, <2>3, <4>1, <4>2, <4>3
      <4>4. CASE q # r
        <5>1. call'[q] = call[q] BY <4>1, <4>4
        <5>2. q \in b.live[a] <=> q \in c.live[a] BY <4>2, <4>4
        <5> QED BY <2>1, <2>3, <5>1, <5>2
      <4> QED BY <4>3, <4>4
    <3>3. CASE ~granted
      <4>1. call' = call /\ b.live[a] = c.live[a] BY <1>1, <1>11, <3>1, <3>3 DEF Charged
      <4> QED BY <2>1, <2>3, <3>1, <4>1
    <3> QED BY <3>2, <3>3
  <2> QED BY <2>2, <2>3
<1>15. JournalCoversSpending'
  <2>0. \A a \in Account : owed[a] \in Usage /\ head[a].use \in Usage
    BY DEF BudgetInv, TypeOK, CheckpointRecord
  <2>1. CASE Advanced(o, A, b)
    <3>1. ~Fresh BY <1>1, <2>1 DEF Advanced, Fresh
    <3> SUFFICES ASSUME NEW a \in Account
                 PROVE  Covers(head'[a].use, owed'[a]) /\ Covers(Limit[a], head'[a].use)
      BY DEF JournalCoversSpending
    <3>2. Covers(head[a].use, owed[a]) /\ Covers(Limit[a], head[a].use)
      BY <3>1 DEF BudgetInv, JournalCoversSpending
    <3>3. CASE a \in A
      <4>1. head'[a].use = b.mem[a] /\ head[a].use = c.mem[a]
        BY <2>1, <3>3 DEF Advanced, BudgetInv, CurrentMemory
      <4>2. Covers(Limit[a], head'[a].use) BY <1>6, <4>1 DEF Within
      <4>3. CASE granted
        <5>1. b.mem[a] = Plus(c.mem[a], x) BY <1>10, <3>3, <4>3 DEF Charged
        <5>2. owed'[a] = Plus(owed[a], x)
          BY <1>1, <2>1, <3>3, <4>3 DEF Granted, Advanced, InForce
        <5> QED BY <1>2, <2>0, <3>2, <4>1, <4>2, <5>1, <5>2, UsageOrder
      <4>4. CASE ~granted
        <5>1. owed' = owed BY <1>1, <4>4
        <5>2. b.mem[a] \in {c.mem[a], Plus(c.mem[a], x)} BY <1>6, <3>3 DEF Charged
        <5>3. Covers(Plus(head[a].use, x), owed[a]) BY <1>2, <2>0, <3>2, UsageOrder
        <5> QED BY <3>2, <4>1, <4>2, <5>1, <5>2, <5>3
      <4> QED BY <4>3, <4>4
    <3>4. CASE a \notin A
      <4>1. head'[a] = head[a] BY <2>1, <3>4 DEF Advanced
      <4>2. owed'[a] = owed[a] BY <1>1, <3>4 DEF Granted, BudgetInv, TypeOK
      <4> QED BY <3>2, <4>1, <4>2
    <3> QED BY <3>3, <3>4
  <2>2. CASE head' = head /\ ~Advanced(o, A, b)
    <3>1. owed' = owed BY <1>1, <1>9, <2>2 DEF Granted
    <3> QED BY <2>2, <3>1 DEF BudgetInv, JournalCoversSpending, Fresh
  <2> QED BY <1>9, <2>1, <2>2 DEF Journalled
<1> QED BY <1>8, <1>12, <1>13, <1>14, <1>15 DEF BudgetInv

\* The end of a handle that may be active; one that is not changes nothing.
LEMMA FinishKeeps ==
  ASSUME BudgetInv, NEW o \in Owner, NEW r \in Res, NEW b, NEW y \in Usage, NEW outcome \in Outcome,
         Covers(y, Nothing), Finish(o, r, b, y, outcome),
         IF Active(ctl[o], r) THEN Ended(ctl[o], b, AccountsOf(call[r].kind), r, y) ELSE b = ctl[o]
  PROVE  BudgetInv'
<1> DEFINE c == ctl[o]
           A == AccountsOf(call[r].kind)
<1>1. /\ c.up /\ call[r].owner = o /\ "campaign" \in A
      /\ Mutate(o, A, b, outcome) /\ UNCHANGED clock
      /\ call' = [call EXCEPT ![r].done = TRUE]
      /\ IF call[r].done THEN UNCHANGED owed ELSE Refunded(o, A, y)
  BY DEF Finish, AccountsOf
<1>2. /\ A \subseteq Account /\ c \in ControllerRecord /\ call[r] \in CallRecord
      /\ call[r].kind # "none" /\ ~c.failed /\ Within(c)
  BY <1>1, BudgetAssumption
     DEF BudgetInv, HandlesBelong, TypeOK, Mutate, Change, Unjournalled, WithinLimits
<1>3. \A a \in Account : r \in c.live[a] <=> ~call[r].done /\ a \in A
  BY <1>1, <1>2, SMT DEF BudgetInv, LiveHandles
<1>4. Active(c, r) <=> ~call[r].done BY <1>1, <1>2, <1>3 DEF Active
<1> HIDE DEF A
<1>5. /\ SameProcess(c, b) /\ Within(b)
      /\ \A a \in Account \ A : b.mem[a] = c.mem[a] /\ b.live[a] = c.live[a]
      /\ \A a \in A : b.mem[a] = IF call[r].done THEN c.mem[a] ELSE Minus(c.mem[a], y)
      /\ \A a \in A : b.live[a] = c.live[a] \ {r}
  <2>1. CASE Active(c, r)
    <3>1. Ended(c, b, A, r, y) BY <2>1 DEF A
    <3>2. Within(b) BY <1>2, <3>1, EndedWithin
    <3> QED BY <1>2, <1>4, <2>1, <3>1, <3>2 DEF Ended
  <2>2. CASE ~Active(c, r)
    <3>1. b = c BY <2>2
    <3>2. \A a \in A : c.live[a] \ {r} = c.live[a]
      <4> TAKE a \in A
      <4>1. r \notin c.live[a] BY <1>2, <1>3, <1>4, <2>2 DEF A
      <4> QED BY <4>1
    <3>3. SameProcess(c, b) /\ Within(b) BY <1>2, <3>1 DEF SameProcess
    <3> QED BY <1>4, <2>2, <3>1, <3>2, <3>3
  <2> QED BY <2>1, <2>2
<1>6. WithinLimits' /\ HeadsOwned' /\ CurrentMemory' /\ DurationNotRefilled'
  BY <1>1, <1>2, <1>5, MutateKeeps
<1>7. Left(o, b, outcome) /\ Journalled(o, A, b) /\ head' \in [Account -> CheckpointRecord]
  BY <1>1, <1>2, <1>5, MutateLeaves DEF BudgetInv
<1>8. /\ call' \in [Res -> CallRecord]
      /\ call'[r].done /\ call'[r].owner = o /\ call'[r].kind = call[r].kind
      /\ \A q \in Res \ {r} : call'[q] = call[q]
  BY <1>1, <1>2 DEF BudgetInv, TypeOK, CallRecord
<1>9. TypeOK'
  <2>1. owed' \in [Account -> Usage]
    <3>1. \A a \in Account : Minus(owed[a], y) \in Usage
      BY UsageArithmetic DEF BudgetInv, TypeOK
    <3> QED BY <1>1, <3>1 DEF Refunded, BudgetInv, TypeOK
  <2> QED BY <1>1, <1>7, <1>8, <2>1 DEF Left, BudgetInv, TypeOK
<1>10. HandlesBelong'
  <2> SUFFICES ASSUME NEW q \in Res, call'[q].owner # NoOne
               PROVE  /\ call'[q].kind # "none" /\ AccountsOf(call'[q].kind) \subseteq Account
                      /\ ctl'[call'[q].owner].up
    BY DEF HandlesBelong
  <2>1. \A p \in Owner : ctl'[p].up = ctl[p].up BY <1>7 DEF Left
  <2>2. call'[q].kind = call[q].kind /\ call'[q].owner = call[q].owner BY <1>1, <1>8
  <2>3. call[q].owner \in Owner BY <2>2 DEF BudgetInv, TypeOK, CallRecord
  <2> QED BY <2>1, <2>2, <2>3 DEF BudgetInv, HandlesBelong
<1>11. LiveHandles'
  <2> SUFFICES ASSUME NEW p \in Owner, NEW a \in Account, ctl'[p].up, ~ctl'[p].failed
               PROVE  ctl'[p].live[a] = {q \in Res : /\ call'[q].owner = p /\ ~call'[q].done
                                                     /\ a \in AccountsOf(call'[q].kind)}
    BY DEF LiveHandles
  <2>0. ctl[p].up /\ ~ctl[p].failed BY <1>1, <1>2, <1>7 DEF Left
  <2>1. ctl[p].live[a] = {q \in Res : call[q].owner = p /\ ~call[q].done /\ a \in AccountsOf(call[q].kind)}
    BY <2>0 DEF BudgetInv, LiveHandles
  <2>2. CASE p # o
    <3>1. ctl'[p] = ctl[p] BY <1>7, <2>2 DEF Left
    <3> QED BY <1>1, <1>8, <2>1, <2>2, <3>1, SMT
  <2>3. CASE p = o
    <3>1. outcome = "ok" /\ ctl'[o].live = b.live BY <1>7, <2>3 DEF Left
    <3>2. b.live[a] = c.live[a] \ {r}
      <4>1. CASE a \in A BY <1>5, <4>1
      <4>2. CASE a \notin A
        <5>1. r \notin c.live[a] BY <1>3, <4>2 DEF A
        <5> QED BY <1>5, <4>2, <5>1
      <4> QED BY <4>1, <4>2
    <3> QED BY <1>8, <2>1, <2>3, <3>1, <3>2, SMT
  <2> QED BY <2>2, <2>3
<1>12. JournalCoversSpending'
  <2>0. \A a \in Account : owed[a] \in Usage /\ head[a].use \in Usage
    BY DEF BudgetInv, TypeOK, CheckpointRecord
  <2>1. ASSUME NEW a \in Account
        PROVE  \/ owed'[a] = owed[a]
               \/ a \in A /\ ~call[r].done /\ owed'[a] = Minus(owed[a], y)
    BY <1>1 DEF Refunded, BudgetInv, TypeOK
  <2>2. CASE Advanced(o, A, b)
    <3>1. ~Fresh BY <1>1, <1>2, <2>2 DEF Advanced, Fresh, A
    <3> SUFFICES ASSUME NEW a \in Account
                 PROVE  Covers(head'[a].use, owed'[a]) /\ Covers(Limit[a], head'[a].use)
      BY DEF JournalCoversSpending
    <3>2. Covers(head[a].use, owed[a]) /\ Covers(Limit[a], head[a].use)
      BY <3>1 DEF BudgetInv, JournalCoversSpending
    <3>3. CASE a \in A
      <4>1. head'[a].use = b.mem[a] /\ head[a].use = c.mem[a]
        BY <2>2, <3>3 DEF Advanced, BudgetInv, CurrentMemory
      <4>2. Covers(Limit[a], head'[a].use) BY <1>5, <4>1 DEF Within
      <4>3. CASE call[r].done
        BY <1>1, <1>5, <3>2, <3>3, <4>1, <4>2, <4>3
      <4>4. CASE ~call[r].done
        <5>1. b.mem[a] = Minus(c.mem[a], y) BY <1>5, <3>3, <4>4
        <5>2. owed'[a] = Minus(owed[a], y)
          BY <1>1, <2>2, <3>3, <4>4 DEF Refunded, Advanced, InForce
        <5> QED BY <2>0, <3>2, <4>1, <4>2, <5>1, <5>2, UsageOrder
      <4> QED BY <4>3, <4>4
    <3>4. CASE a \notin A
      <4>1. head'[a] = head[a] BY <2>2, <3>4 DEF Advanced
      <4> QED BY <2>1, <3>2, <3>4, <4>1
    <3> QED BY <3>3, <3>4
  <2>3. CASE head' = head
    <3>1. ASSUME NEW a \in Account, Covers(head[a].use, owed[a]) PROVE Covers(head[a].use, owed'[a])
      BY <2>0, <2>1, <3>1, UsageOrder
    <3> QED BY <2>3, <3>1 DEF BudgetInv, JournalCoversSpending, Fresh
  <2> QED BY <1>7, <2>2, <2>3 DEF Journalled
<1> QED BY <1>6, <1>9, <1>10, <1>11, <1>12 DEF BudgetInv

(* Committing, releasing or settling a reservation keeps the invariant. *)
LEMMA EndKeeps ==
  ASSUME BudgetInv, NEW o \in Owner, NEW r \in Res, NEW outcome \in Outcome,
         \/ Commit(o, r, outcome) \/ Release(o, r, outcome)
         \/ \E actual \in Nat : Settle(o, r, actual, outcome)
  PROVE  BudgetInv'
<1> DEFINE c == ctl[o]
<1>1. call[r].owner = o BY DEF Commit, Release, Settle, Finish
<1>2. /\ AccountsOf(call[r].kind) \subseteq Account /\ c \in ControllerRecord
      /\ call[r].bound \in Nat /\ TypeOK
  BY <1>1, BudgetAssumption DEF BudgetInv, HandlesBelong, TypeOK, CallRecord
<1>3. CASE Commit(o, r, outcome)
  <2>1. IF Active(c, r) THEN Ended(c, Committed(c, r), AccountsOf(call[r].kind), r, Nothing)
        ELSE Committed(c, r) = c
    BY <1>2, EndedBodies DEF Committed
  <2> QED BY <1>3, <2>1, ChargeType, FinishKeeps DEF Commit
<1>4. CASE Release(o, r, outcome)
  <2>1. IF Active(c, r)
        THEN Ended(c, Released(c, r), AccountsOf(call[r].kind), r, Charge(call[r].kind, call[r].bound))
        ELSE Released(c, r) = c
    BY <1>2, EndedBodies DEF Released
  <2>2. Charge(call[r].kind, call[r].bound) \in Usage
        /\ Covers(Charge(call[r].kind, call[r].bound), Nothing)
    BY <1>2, ChargeType
  <2> QED BY <1>4, <2>1, <2>2, FinishKeeps DEF Release
<1>5. ASSUME NEW actual \in Nat, Settle(o, r, actual, outcome) PROVE BudgetInv'
  <2> DEFINE y == Use(0, 0, IF actual > call[r].bound THEN 0 ELSE call[r].bound - actual)
  <2>0. call[r].kind = "model" BY <1>5 DEF Settle
  <2>1. IF Active(c, r) THEN Ended(c, Settled(c, r, actual), AccountsOf(call[r].kind), r, y)
        ELSE Settled(c, r, actual) = c
    BY <1>2, <2>0, EndedBodies DEF Settled, Committed
  <2>2. y \in Usage /\ Covers(y, Nothing)
    <3>1. (IF actual > call[r].bound THEN 0 ELSE call[r].bound - actual) \in Nat BY <1>2, SMT
    <3> QED BY <3>1, ChargeType
  <2>3. Finish(o, r, Settled(c, r, actual), y, outcome) BY <1>5 DEF Settle
  <2> HIDE DEF y
  <2> QED BY <2>1, <2>2, <2>3, FinishKeeps
<1> QED BY <1>3, <1>4, <1>5

\* A charge without a reservation.
LEMMA RecordKeeps ==
  ASSUME BudgetInv, NEW o \in Owner, NEW x \in Usage, NEW outcome \in Outcome,
         Covers(x, Nothing), Record(o, x, outcome)
  PROVE  BudgetInv'
<1> DEFINE c == ctl[o]
           admits == Fits(c, "campaign", x) /\ (x.calls > 0 => InTime(c, "campaign"))
           b == IF admits THEN [c EXCEPT !.mem["campaign"] = Plus(c.mem["campaign"], x)] ELSE c
           A == {"campaign"}
<1>1. /\ c.up /\ Mutate(o, A, b, outcome) /\ UNCHANGED <<call, clock>>
      /\ IF outcome = "ok" /\ admits THEN Granted(o, A, x) ELSE UNCHANGED owed
  BY DEF Record
<1>2. A \subseteq Account /\ c \in ControllerRecord /\ Within(c) /\ c.mem["campaign"] \in Usage
  BY BudgetAssumption, SMT DEF BudgetInv, TypeOK, WithinLimits, ControllerRecord
<1>3. ~c.failed BY <1>1 DEF Mutate, Change, Unjournalled
<1>4. /\ SameProcess(c, b) /\ b.live = c.live
      /\ b.mem["campaign"] = IF admits THEN Plus(c.mem["campaign"], x) ELSE c.mem["campaign"]
      /\ \A a \in Account \ A : b.mem[a] = c.mem[a]
  <2>1. Plus(c.mem["campaign"], x) \in Usage BY <1>2, UsageArithmetic
  <2>2. CASE admits
    <3>1. b = [c EXCEPT !.mem["campaign"] = Plus(c.mem["campaign"], x)] BY <2>2
    <3> HIDE DEF b, admits
    <3> QED BY <1>2, <2>1, <2>2, <3>1 DEF SameProcess, ControllerRecord
  <2>3. CASE ~admits BY <1>2, <2>3 DEF SameProcess
  <2> QED BY <2>2, <2>3
<1>5. Within(b)
  <2>1. admits => Covers(Limit["campaign"], Plus(c.mem["campaign"], x)) BY DEF Fits
  <2> HIDE DEF b, admits
  <2> QED BY <1>2, <1>4, <2>1 DEF Within
<1> HIDE DEF b, admits
<1>6. WithinLimits' /\ HeadsOwned' /\ CurrentMemory' /\ DurationNotRefilled'
  BY <1>1, <1>2, <1>4, <1>5, MutateKeeps
<1>7. /\ Left(o, b, outcome) /\ Journalled(o, A, b)
      /\ head' \in [Account -> CheckpointRecord]
      /\ outcome = "ok" /\ c.bound => Advanced(o, A, b)
  BY <1>1, <1>2, <1>4, MutateLeaves DEF BudgetInv
<1>8. TypeOK'
  <2>1. owed' \in [Account -> Usage]
    <3>1. \A a \in Account : Plus(owed[a], x) \in Usage
      BY UsageArithmetic DEF BudgetInv, TypeOK
    <3> QED BY <1>1, <3>1 DEF Granted, BudgetInv, TypeOK
  <2> QED BY <1>1, <1>7, <2>1 DEF Left, BudgetInv, TypeOK
<1>9. HandlesBelong'
  BY <1>1, <1>7 DEF Left, BudgetInv, HandlesBelong, TypeOK, CallRecord
<1>10. LiveHandles'
  <2> SUFFICES ASSUME NEW p \in Owner, NEW a \in Account, ctl'[p].up, ~ctl'[p].failed
               PROVE  ctl[p].up /\ ~ctl[p].failed /\ ctl'[p].live = ctl[p].live
    BY <1>1, SMT DEF LiveHandles, BudgetInv
  <2> QED BY <1>1, <1>3, <1>4, <1>7 DEF Left
<1>11. JournalCoversSpending'
  <2>0. \A a \in Account : owed[a] \in Usage /\ head[a].use \in Usage
    BY DEF BudgetInv, TypeOK, CheckpointRecord
  <2>1. CASE Advanced(o, A, b)
    <3>1. ~Fresh BY <1>2, <2>1 DEF Advanced, Fresh
    <3> SUFFICES ASSUME NEW a \in Account
                 PROVE  Covers(head'[a].use, owed'[a]) /\ Covers(Limit[a], head'[a].use)
      BY DEF JournalCoversSpending
    <3>2. Covers(head[a].use, owed[a]) /\ Covers(Limit[a], head[a].use)
      BY <3>1 DEF BudgetInv, JournalCoversSpending
    <3>3. CASE a \in A
      <4>1. head'[a].use = b.mem[a] /\ head[a].use = c.mem[a] /\ a = "campaign"
        BY <2>1, <3>3 DEF Advanced, BudgetInv, CurrentMemory
      <4>2. Covers(Limit[a], head'[a].use) BY <1>5, <4>1 DEF Within
      <4>3. Covers(Plus(head[a].use, x), Plus(owed[a], x)) /\ Covers(Plus(head[a].use, x), owed[a])
        BY <2>0, <3>2, UsageOrder
      <4>4. owed'[a] = owed[a] \/ (admits /\ owed'[a] = Plus(owed[a], x))
        BY <1>1, <3>3 DEF Granted, BudgetInv, TypeOK
      <4> QED BY <1>4, <3>2, <4>1, <4>2, <4>3, <4>4
    <3>4. CASE a \notin A
      <4>1. head'[a] = head[a] BY <2>1, <3>4 DEF Advanced
      <4>2. owed'[a] = owed[a] BY <1>1, <3>4 DEF Granted, BudgetInv, TypeOK
      <4> QED BY <3>2, <4>1, <4>2
    <3> QED BY <3>3, <3>4
  <2>2. CASE head' = head /\ ~Advanced(o, A, b)
    <3>1. owed' = owed BY <1>1, <1>7, <2>2 DEF Granted
    <3> QED BY <2>2, <3>1 DEF BudgetInv, JournalCoversSpending, Fresh
  <2> QED BY <1>7, <2>1, <2>2 DEF Journalled
<1> QED BY <1>6, <1>8, <1>9, <1>10, <1>11 DEF BudgetInv

-----------------------------------------------------------------------------
(* Binding. *)

Binding(o) == [a \in Account |-> IF Fresh THEN FirstCheckpoint(o, ctl[o], a) ELSE RecoveredCheckpoint(o, a)]

\* The checkpoints a binding inserts: the usage is that of the controllers or
\* of the journal, and the elapsed time is not below either.
LEMMA BindingCheckpoints ==
  ASSUME TypeOK, NEW o \in Owner
  PROVE  /\ Binding(o) \in [Account -> CheckpointRecord]
         /\ \A a \in Account :
              /\ Binding(o)[a].owner = o /\ Binding(o)[a].rev # 0
              /\ Binding(o)[a].use = IF Fresh THEN ctl[o].mem[a] ELSE head[a].use
              /\ Binding(o)[a].elapsed >= clock.wall - Binding(o)[a].origin
              /\ Fresh => Binding(o)[a].elapsed = Elapsed(ctl[o], a)
<1>1. /\ clock.wall \in Int /\ clock.mono \in Int /\ ctl[o] \in ControllerRecord
      /\ \A a \in Account : head[a] \in CheckpointRecord
  BY DEF TypeOK
<1>2. ASSUME NEW a \in Account
      PROVE  /\ FirstCheckpoint(o, ctl[o], a) \in CheckpointRecord
             /\ FirstCheckpoint(o, ctl[o], a).owner = o /\ FirstCheckpoint(o, ctl[o], a).rev # 0
             /\ FirstCheckpoint(o, ctl[o], a).use = ctl[o].mem[a]
             /\ FirstCheckpoint(o, ctl[o], a).elapsed = Elapsed(ctl[o], a)
             /\ FirstCheckpoint(o, ctl[o], a).elapsed >= clock.wall - FirstCheckpoint(o, ctl[o], a).origin
  <2>1. Elapsed(ctl[o], a) \in Int /\ ctl[o].mem[a] \in Usage
    BY <1>1, SMT DEF Elapsed, ControllerRecord
  <2> DEFINE e == Elapsed(ctl[o], a)
             w == clock.wall
             start == w - e
  <2>2. /\ e \in Int /\ w \in Int /\ start \in Int /\ e >= w - start
        /\ 1 \in Nat /\ 1 # 0
    BY <1>1, <2>1, SMT
  <2>3. FirstCheckpoint(o, ctl[o], a) = [rev |-> 1, owner |-> o, use |-> ctl[o].mem[a], at |-> w,
                                         origin |-> start, elapsed |-> e]
    BY DEF FirstCheckpoint
  <2> HIDE DEF e, start, w
  <2>4. FirstCheckpoint(o, ctl[o], a) \in CheckpointRecord
    BY <2>1, <2>2, <2>3, SMT DEF CheckpointRecord
  <2>5. w = clock.wall /\ e = Elapsed(ctl[o], a) BY DEF e, w
  <2> QED BY <2>2, <2>3, <2>4, <2>5, SMT
<1>3. ASSUME NEW a \in Account
      PROVE  /\ RecoveredCheckpoint(o, a) \in CheckpointRecord
             /\ RecoveredCheckpoint(o, a).owner = o /\ RecoveredCheckpoint(o, a).rev # 0
             /\ RecoveredCheckpoint(o, a).use = head[a].use
             /\ RecoveredCheckpoint(o, a).elapsed >= clock.wall - RecoveredCheckpoint(o, a).origin
  <2>1. /\ RecoveredElapsed(a) \in Int /\ RecoveredElapsed(a) >= clock.wall - head[a].origin
        /\ head[a].origin \in Int /\ head[a].rev \in Nat
    BY <1>1, SMT DEF RecoveredElapsed, CheckpointRecord
  <2> DEFINE h == head[a]
             e == RecoveredElapsed(a)
             w == clock.wall
             k == head[a].rev + 1
  <2>2. /\ h \in CheckpointRecord /\ e \in Int /\ w \in Int /\ k \in Nat /\ k # 0
        /\ e >= w - h.origin
        /\ RecoveredCheckpoint(o, a) = [h EXCEPT !.rev = k, !.owner = o, !.at = w, !.elapsed = e]
    BY <1>1, <2>1, SMT DEF RecoveredCheckpoint
  <2> HIDE DEF h, e, w, k
  <2>3. RecoveredCheckpoint(o, a) \in CheckpointRecord
    BY <2>2 DEF CheckpointRecord
  <2>4. /\ RecoveredCheckpoint(o, a).owner = o /\ RecoveredCheckpoint(o, a).rev = k
        /\ RecoveredCheckpoint(o, a).use = h.use /\ RecoveredCheckpoint(o, a).elapsed = e
        /\ RecoveredCheckpoint(o, a).origin = h.origin
    BY <2>2 DEF CheckpointRecord
  <2>5. h.use = head[a].use /\ w = clock.wall BY DEF h, w
  <2> QED BY <2>2, <2>3, <2>4, <2>5
<1>4. CASE Fresh
  <2>1. \A a \in Account : Binding(o)[a] = FirstCheckpoint(o, ctl[o], a) BY <1>4 DEF Binding
  <2>2. Binding(o) \in [Account -> CheckpointRecord] BY <1>2, <1>4 DEF Binding
  <2> QED BY <1>2, <1>4, <2>1, <2>2
<1>5. CASE ~Fresh
  <2>1. \A a \in Account : Binding(o)[a] = RecoveredCheckpoint(o, a) BY <1>5 DEF Binding
  <2>2. Binding(o) \in [Account -> CheckpointRecord] BY <1>3, <1>5 DEF Binding
  <2> QED BY <1>3, <1>5, <2>1, <2>2
<1> QED BY <1>4, <1>5

(* Binding a controller to the journal keeps the invariant. *)
LEMMA BindKeeps ==
  ASSUME BudgetInv, NEW o \in Owner, NEW outcome \in Outcome, Bind(o, outcome)
  PROVE  BudgetInv'
<1> DEFINE c == ctl[o]
           new == Binding(o)
<1>1. /\ c.up /\ ~c.bound /\ ~c.failed
      /\ head' = IF outcome = "rolled back" THEN head ELSE new
      /\ ctl' = [ctl EXCEPT ![o] = IF outcome = "ok" THEN Adopted(c, new) ELSE [c EXCEPT !.failed = TRUE]]
      /\ owed' = IF Fresh /\ outcome # "rolled back" THEN c.mem ELSE owed
      /\ UNCHANGED <<call, clock>>
  BY DEF Bind, Binding
<1>2. /\ new \in [Account -> CheckpointRecord] /\ c \in ControllerRecord
      /\ clock.wall \in Int /\ clock.mono \in Int /\ clock.steps \in Nat
      /\ \A a \in Account :
           /\ new[a].owner = o /\ new[a].rev # 0
           /\ new[a].use = IF Fresh THEN c.mem[a] ELSE head[a].use
           /\ new[a].elapsed >= clock.wall - new[a].origin
           /\ Fresh => new[a].elapsed = Elapsed(c, a)
  BY BindingCheckpoints DEF BudgetInv, TypeOK
<1> HIDE DEF new
<1>3. ASSUME NEW a \in Account PROVE new[a].use \in Usage /\ new[a].elapsed \in Int /\ new[a].origin \in Int
  BY <1>2 DEF CheckpointRecord
<1>4. /\ Adopted(c, new) \in ControllerRecord /\ Adopted(c, new).up /\ ~Adopted(c, new).failed
      /\ Adopted(c, new).live = c.live
      /\ \A a \in Account : /\ Adopted(c, new).mem[a] = new[a].use
                            /\ Elapsed(Adopted(c, new), a) = new[a].elapsed
  <2>1. CASE Fresh
    <3>1. Adopted(c, new) = [c EXCEPT !.bound = TRUE, !.saved = new] BY <2>1 DEF Adopted
    <3>2. Adopted(c, new) \in ControllerRecord BY <1>2, <3>1 DEF ControllerRecord
    <3>3. /\ Adopted(c, new).up = c.up /\ Adopted(c, new).failed = c.failed
          /\ Adopted(c, new).live = c.live /\ Adopted(c, new).started = c.started
          /\ Adopted(c, new).mem = c.mem /\ Adopted(c, new).offset = c.offset
      BY <1>2, <3>1 DEF ControllerRecord
    <3>4. ASSUME NEW a \in Account PROVE Elapsed(Adopted(c, new), a) = Elapsed(c, a)
      BY <3>3 DEF Elapsed
    <3> QED BY <1>1, <1>2, <2>1, <3>2, <3>3, <3>4
  <2>2. CASE ~Fresh
    <3>1. Adopted(c, new) = [c EXCEPT !.bound = TRUE, !.saved = new,
                 !.mem = [a \in Account |-> new[a].use],
                 !.offset = [a \in Account |-> new[a].elapsed],
                 !.started = clock.mono]
      BY <2>2 DEF Adopted
    <3>2. [a \in Account |-> new[a].use] \in [Account -> Usage] BY <1>3
    <3>3. [a \in Account |-> new[a].elapsed] \in [Account -> Int] BY <1>3
    <3>4. Adopted(c, new) \in ControllerRecord BY <1>2, <3>1, <3>2, <3>3 DEF ControllerRecord
    <3>5. /\ Adopted(c, new).up = c.up /\ Adopted(c, new).failed = c.failed
          /\ Adopted(c, new).live = c.live /\ Adopted(c, new).started = clock.mono
          /\ Adopted(c, new).mem = [a \in Account |-> new[a].use]
          /\ Adopted(c, new).offset = [a \in Account |-> new[a].elapsed]
      BY <1>2, <3>1 DEF ControllerRecord
    <3>6. ASSUME NEW a \in Account PROVE Adopted(c, new).mem[a] = new[a].use BY <3>5
    <3>7. ASSUME NEW a \in Account PROVE Elapsed(Adopted(c, new), a) = new[a].elapsed
      <4>1. Adopted(c, new).offset[a] = new[a].elapsed BY <3>5
      <4> QED BY <1>2, <1>3, <3>5, <4>1, SMT DEF Elapsed
    <3> QED BY <1>1, <3>4, <3>5, <3>6, <3>7
  <2> QED BY <2>1, <2>2
<1>5. /\ [c EXCEPT !.failed = TRUE] \in ControllerRecord
      /\ [c EXCEPT !.failed = TRUE].up /\ [c EXCEPT !.failed = TRUE].failed
      /\ [c EXCEPT !.failed = TRUE].mem = c.mem
  BY <1>1, <1>2 DEF ControllerRecord
<1>6. /\ ctl' \in [Owner -> ControllerRecord] /\ ctl'[o].up
      /\ \A p \in Owner \ {o} : ctl'[p] = ctl[p]
      /\ ctl'[o] = IF outcome = "ok" THEN Adopted(c, new) ELSE [c EXCEPT !.failed = TRUE]
  BY <1>1, <1>4, <1>5 DEF BudgetInv, TypeOK
<1>7. TypeOK'
  BY <1>1, <1>2, <1>6 DEF BudgetInv, TypeOK, ControllerRecord
<1>8. HandlesBelong'
  BY <1>1, <1>6 DEF BudgetInv, HandlesBelong, TypeOK, CallRecord
<1>9. ASSUME NEW a \in Account PROVE Covers(Limit[a], new[a].use)
  BY <1>2 DEF BudgetInv, JournalCoversSpending, WithinLimits, Within
<1>10. WithinLimits'
  <2> SUFFICES ASSUME NEW p \in Owner, NEW a \in Account PROVE Covers(Limit[a], ctl'[p].mem[a])
    BY DEF WithinLimits, Within
  <2>1. CASE p # o BY <1>6, <2>1 DEF BudgetInv, WithinLimits, Within
  <2>2. CASE p = o /\ outcome = "ok" BY <1>4, <1>6, <1>9, <2>2
  <2>3. CASE p = o /\ outcome # "ok" BY <1>5, <1>6, <2>3 DEF BudgetInv, WithinLimits, Within
  <2> QED BY <2>1, <2>2, <2>3
<1>11. HeadsOwned' BY <1>1, <1>2 DEF BudgetInv, HeadsOwned
<1>12. LiveHandles'
  <2> SUFFICES ASSUME NEW p \in Owner, NEW a \in Account, ctl'[p].up, ~ctl'[p].failed
               PROVE  ctl'[p].live[a] = {r \in Res : /\ call'[r].owner = p /\ ~call'[r].done
                                                     /\ a \in AccountsOf(call'[r].kind)}
    BY DEF LiveHandles
  <2>1. ctl[p].up /\ ~ctl[p].failed /\ ctl'[p].live = ctl[p].live
    <3>1. CASE p # o BY <1>6, <3>1
    <3>2. CASE p = o
      <4>1. outcome = "ok" BY <1>5, <1>6, <3>2
      <4> QED BY <1>1, <1>4, <1>6, <3>2, <4>1
    <3> QED BY <3>1, <3>2
  <2>2. call' = call BY <1>1
  <2> QED BY <2>1, <2>2, SMT DEF BudgetInv, LiveHandles
<1>13. JournalCoversSpending'
  <2>1. CASE outcome = "rolled back"
    BY <1>1, <2>1 DEF BudgetInv, JournalCoversSpending, Fresh
  <2>2. CASE outcome # "rolled back"
    <3> SUFFICES ASSUME NEW a \in Account
                 PROVE  Covers(head'[a].use, owed'[a]) /\ Covers(Limit[a], head'[a].use)
      BY DEF JournalCoversSpending
    <3>1. head'[a] = new[a] BY <1>1, <2>2
    <3>2. CASE Fresh
      <4>1. owed'[a] = c.mem[a] /\ new[a].use = c.mem[a] BY <1>1, <1>2, <2>2, <3>2
      <4> QED BY <1>3, <1>9, <3>1, <4>1, CoversItself
    <3>3. CASE ~Fresh
      <4>1. owed' = owed /\ new[a].use = head[a].use BY <1>1, <1>2, <3>3
      <4> QED BY <1>9, <3>1, <3>3, <4>1 DEF BudgetInv, JournalCoversSpending
    <3> QED BY <3>2, <3>3
  <2> QED BY <2>1, <2>2
<1>14. ASSUME NEW p \in Owner, NEW a \in Account, InForce(p)', head'[a].owner = p
       PROVE  /\ ctl'[p].mem[a] = head'[a].use
              /\ Elapsed(ctl[p], a)' >= head'[a].elapsed
              /\ clock'.steps = 0 => Elapsed(ctl[p], a)' >= clock'.wall - head'[a].origin
  <2>0. Elapsed(ctl[p], a)' = Elapsed(ctl'[p], a) BY <1>1 DEF Elapsed
  <2>1. CASE p # o
    <3>1. ctl'[p] = ctl[p] /\ head' = head /\ InForce(p)
      BY <1>1, <1>2, <1>6, <1>14, <2>1 DEF InForce
    <3>2. head[a].owner = p /\ clock' = clock /\ Elapsed(ctl'[p], a) = Elapsed(ctl[p], a)
      BY <1>1, <1>14, <3>1
    <3>3. /\ ctl[p].mem[a] = head[a].use /\ Elapsed(ctl[p], a) >= head[a].elapsed
          /\ clock.steps = 0 => Elapsed(ctl[p], a) >= clock.wall - head[a].origin
      BY <3>1, <3>2 DEF BudgetInv, CurrentMemory, DurationNotRefilled
    <3> QED BY <2>0, <3>1, <3>2, <3>3
  <2>2. CASE p = o
    <3>1. outcome = "ok" BY <1>5, <1>6, <1>14, <2>2 DEF InForce
    <3>2. ctl'[p] = Adopted(c, new) /\ head'[a] = new[a] BY <1>1, <1>6, <2>2, <3>1
    <3>3. /\ ctl'[p].mem[a] = head'[a].use /\ Elapsed(ctl[p], a)' = head'[a].elapsed
          /\ head'[a].elapsed \in Int
      BY <1>3, <1>4, <2>0, <3>2
    <3>4. head'[a].elapsed >= clock'.wall - head'[a].origin BY <1>1, <1>2, <3>2
    <3> QED BY <3>3, <3>4, SMT
  <2> QED BY <2>1, <2>2
<1>15. CurrentMemory' BY <1>14 DEF CurrentMemory
<1>16. DurationNotRefilled' BY <1>14 DEF DurationNotRefilled
<1> QED BY <1>7, <1>8, <1>10, <1>11, <1>12, <1>13, <1>15, <1>16 DEF BudgetInv

-----------------------------------------------------------------------------
(* Processes and clocks. *)

(* The checkpoint of an account nobody has bound is one. *)
LEMMA NoCheckpointType == NoCheckpoint \in CheckpointRecord /\ Nothing \in Usage
<1>1. 0 \in Nat /\ 0 \in Int BY SMT
<1>2. Nothing \in Usage BY <1>1, ChargeType
<1> QED BY <1>1, <1>2 DEF NoCheckpoint, CheckpointRecord

(* A controller that has just started owes nothing and is bound to nothing. *)
LEMMA FreshControllers ==
  ASSUME NEW t \in Int
  PROVE  /\ Controllers(t) \in ControllerRecord /\ Controllers(t).up /\ ~Controllers(t).bound
         /\ Within(Controllers(t)) /\ \A a \in Account : Controllers(t).live[a] = {}
         /\ Down \in ControllerRecord /\ ~Down.up /\ ~Down.bound /\ Within(Down)
<1>1. NoCheckpoint \in CheckpointRecord /\ Nothing \in Usage BY NoCheckpointType
<1>2. \A s \in Int : /\ Controllers(s) \in ControllerRecord /\ Controllers(s).up /\ ~Controllers(s).bound
                     /\ \A a \in Account : /\ Controllers(s).live[a] = {}
                                           /\ Controllers(s).mem[a] = Nothing
  BY <1>1, SMT DEF Controllers, ControllerRecord
<1>3. Down \in ControllerRecord /\ ~Down.up /\ Down.bound = Controllers(0).bound /\ Down.mem = Controllers(0).mem
  <2>1. Controllers(0) \in ControllerRecord BY <1>2, SMT
  <2>2. Down \in ControllerRecord BY <2>1 DEF Down, ControllerRecord
  <2> QED BY <2>1, <2>2 DEF Down, ControllerRecord
<1>4. 0 \in Int BY SMT
<1>5. \A a \in Account : Controllers(t).mem[a] = Nothing /\ Down.mem[a] = Nothing BY <1>2, <1>3, <1>4
<1>6. Within(Controllers(t)) /\ Within(Down) BY <1>5, LimitType DEF Within
<1> QED BY <1>2, <1>3, <1>4, <1>6

(* Starting or losing a process keeps the invariant. *)
LEMMA ProcessKeeps ==
  ASSUME BudgetInv, NEW o \in Owner, Start(o) \/ Crash(o)
  PROVE  BudgetInv'
<1>1. clock.mono \in Int BY DEF BudgetInv, TypeOK
<1>2. /\ ctl' \in [Owner -> ControllerRecord] /\ \A p \in Owner \ {o} : ctl'[p] = ctl[p]
      /\ ~ctl'[o].bound /\ Within(ctl'[o])
  BY <1>1, FreshControllers DEF Start, Crash, BudgetInv, TypeOK
<1>3. \A r \in Res : call'[r] = IF Crash(o) /\ call[r].owner = o THEN Free ELSE call[r]
  BY DEF Start, Crash, BudgetInv, TypeOK
<1>4. UNCHANGED <<head, clock, owed>> BY DEF Start, Crash
<1>5. TypeOK'
  <2>1. Free \in CallRecord BY DEF Free, CallRecord
  <2>2. call' \in [Res -> CallRecord] BY <2>1 DEF Start, Crash, BudgetInv, TypeOK
  <2> QED BY <1>2, <1>4, <2>2 DEF BudgetInv, TypeOK
<1>6. \A r \in Res : call'[r].owner # o
  BY <1>3, BudgetAssumption, SMT DEF Start, Crash, Free, BudgetInv, HandlesBelong
<1>7. HandlesBelong'
  <2> SUFFICES ASSUME NEW r \in Res, call'[r].owner # NoOne
               PROVE  /\ call'[r].kind # "none" /\ AccountsOf(call'[r].kind) \subseteq Account
                      /\ ctl'[call'[r].owner].up
    BY DEF HandlesBelong
  <2>1. call'[r] = call[r] /\ call[r].owner \in Owner \ {o}
    BY <1>3, <1>6, SMT DEF Free, BudgetInv, TypeOK, CallRecord
  <2> QED BY <1>2, <2>1 DEF BudgetInv, HandlesBelong
<1>8. WithinLimits' BY <1>2 DEF BudgetInv, WithinLimits, Within
<1>9. HeadsOwned' /\ JournalCoversSpending'
  BY <1>4 DEF BudgetInv, HeadsOwned, JournalCoversSpending, Fresh
<1>10. CurrentMemory' /\ DurationNotRefilled'
  <2>1. \A p \in Owner : InForce(p)' => p # o /\ InForce(p) /\ ctl'[p] = ctl[p] BY <1>2 DEF InForce
  <2> QED BY <1>4, <2>1, SMT DEF BudgetInv, CurrentMemory, DurationNotRefilled, Elapsed
<1>11. LiveHandles'
  <2> SUFFICES ASSUME NEW p \in Owner, NEW a \in Account, ctl'[p].up, ~ctl'[p].failed
               PROVE  ctl'[p].live[a] = {r \in Res : /\ call'[r].owner = p /\ ~call'[r].done
                                                     /\ a \in AccountsOf(call'[r].kind)}
    BY DEF LiveHandles
  <2>1. CASE p = o
    <3>1. ctl'[o] = Controllers(clock.mono)
      BY <2>1, FreshControllers DEF Start, Crash, BudgetInv, TypeOK
    <3> QED BY <1>1, <1>6, <2>1, <3>1, FreshControllers
  <2>2. CASE p # o
    <3>0. ctl'[p] = ctl[p] BY <1>2, <2>2
    <3>1. ctl[p].live[a] = {r \in Res : call[r].owner = p /\ ~call[r].done /\ a \in AccountsOf(call[r].kind)}
      BY <3>0 DEF BudgetInv, LiveHandles
    <3>2. \A r \in Res : call'[r].owner = p \/ call[r].owner = p => call'[r] = call[r]
      BY <1>3, <2>2, BudgetAssumption, SMT DEF Free
    <3> QED BY <3>0, <3>1, <3>2
  <2> QED BY <2>1, <2>2
<1> QED BY <1>5, <1>7, <1>8, <1>9, <1>10, <1>11 DEF BudgetInv

(* The clock may run on or be set back. *)
LEMMA ClockKeeps ==
  ASSUME BudgetInv, Tick \/ SetBack
  PROVE  BudgetInv'
<1>1. UNCHANGED <<ctl, head, call, owed>> BY DEF Tick, SetBack
<1>2. /\ clock' \in [mono : Int, wall : Int, steps : Nat]
      /\ clock'.mono >= clock.mono
      /\ clock'.steps = 0 => /\ clock.steps = 0
                             /\ clock'.mono - clock.mono = clock'.wall - clock.wall
  <2>1. clock \in [mono : Int, wall : Int, steps : Nat] BY DEF BudgetInv, TypeOK
  <2>2. CASE Tick
    <3>1. clock' = [clock EXCEPT !.mono = clock.mono + 1, !.wall = clock.wall + 1] BY <2>2 DEF Tick
    <3>2. clock'.mono = clock.mono + 1 /\ clock'.wall = clock.wall + 1 /\ clock'.steps = clock.steps
      BY <2>1, <3>1
    <3>3. clock' \in [mono : Int, wall : Int, steps : Nat]
      <4>1. clock.mono + 1 \in Int /\ clock.wall + 1 \in Int /\ clock.wall - 1 \in Int /\ clock.steps + 1 \in Nat
        BY <2>1, SMT
      <4> QED BY <2>1, <3>1, <4>1
    <3> QED BY <2>1, <3>2, <3>3, SMT
  <2>3. CASE SetBack
    <3>1. clock' = [clock EXCEPT !.wall = clock.wall - 1, !.steps = clock.steps + 1]
      BY <2>3 DEF SetBack
    <3>2. clock'.mono = clock.mono /\ clock'.steps = clock.steps + 1 BY <2>1, <3>1
    <3>3. clock' \in [mono : Int, wall : Int, steps : Nat]
      <4>1. clock.mono + 1 \in Int /\ clock.wall + 1 \in Int /\ clock.wall - 1 \in Int /\ clock.steps + 1 \in Nat
        BY <2>1, SMT
      <4> QED BY <2>1, <3>1, <4>1
    <3> QED BY <2>1, <3>2, <3>3, SMT
  <2> QED BY <2>2, <2>3
<1>3. TypeOK' /\ HandlesBelong' /\ WithinLimits' /\ HeadsOwned' /\ CurrentMemory' /\ LiveHandles'
  <2>1. TypeOK' BY <1>1, <1>2 DEF BudgetInv, TypeOK
  <2>2. HandlesBelong' /\ WithinLimits' /\ HeadsOwned'
    BY <1>1 DEF BudgetInv, HandlesBelong, WithinLimits, Within, HeadsOwned
  <2>3. CurrentMemory' BY <1>1 DEF BudgetInv, CurrentMemory, InForce
  <2>4. LiveHandles' BY <1>1, SMT DEF BudgetInv, LiveHandles
  <2> QED BY <2>1, <2>2, <2>3, <2>4
<1>4. JournalCoversSpending' BY <1>1 DEF BudgetInv, JournalCoversSpending, Fresh
<1>5. DurationNotRefilled'
  <2> SUFFICES ASSUME NEW o \in Owner, NEW a \in Account, InForce(o), head[a].owner = o
               PROVE  /\ Elapsed(ctl[o], a)' >= head[a].elapsed
                      /\ clock'.steps = 0 => Elapsed(ctl[o], a)' >= clock'.wall - head[a].origin
    BY <1>1 DEF DurationNotRefilled, InForce
  <2>1. /\ Elapsed(ctl[o], a) >= head[a].elapsed
        /\ clock.steps = 0 => Elapsed(ctl[o], a) >= clock.wall - head[a].origin
    BY DEF BudgetInv, DurationNotRefilled
  <2>2. Elapsed(ctl[o], a)' = Elapsed(ctl[o], a) + (clock'.mono - clock.mono)
    BY <1>1, <1>2, SMT DEF Elapsed, BudgetInv, TypeOK, ControllerRecord
  <2>3. Elapsed(ctl[o], a) \in Int /\ head[a].elapsed \in Int /\ head[a].origin \in Int
        /\ clock.mono \in Int /\ clock.wall \in Int
    BY SMT DEF Elapsed, BudgetInv, TypeOK, ControllerRecord, CheckpointRecord
  <2> QED BY <1>2, <2>1, <2>2, <2>3, SMT
<1> QED BY <1>3, <1>4, <1>5 DEF BudgetInv

(* A caller may drop a handle it has finished with. *)
LEMMA DropKeeps ==
  ASSUME BudgetInv, NEW r \in Res, Drop(r)
  PROVE  BudgetInv'
<1>1. UNCHANGED <<ctl, head, clock, owed>> /\ call[r].done /\ call' = [call EXCEPT ![r] = Free]
  BY DEF Drop
<1>2. Free \in CallRecord BY DEF Free, CallRecord
<1>3. TypeOK' BY <1>1, <1>2 DEF BudgetInv, TypeOK
<1>4. HandlesBelong' BY <1>1 DEF BudgetInv, TypeOK, HandlesBelong, Free
<1>5. LiveHandles'
  <2> SUFFICES ASSUME NEW p \in Owner, NEW a \in Account, ctl[p].up, ~ctl[p].failed
               PROVE  ctl[p].live[a] = {q \in Res : /\ call'[q].owner = p /\ ~call'[q].done
                                                    /\ a \in AccountsOf(call'[q].kind)}
    BY <1>1 DEF LiveHandles
  <2>1. ctl[p].live[a] = {q \in Res : call[q].owner = p /\ ~call[q].done /\ a \in AccountsOf(call[q].kind)}
    BY DEF BudgetInv, LiveHandles
  <2>2. call'[r].owner # p /\ \A q \in Res \ {r} : call'[q] = call[q]
    BY <1>1, BudgetAssumption DEF Free, BudgetInv, TypeOK
  <2> QED BY <1>1, <2>1, <2>2
<1>6. WithinLimits' /\ HeadsOwned' /\ CurrentMemory' /\ JournalCoversSpending' /\ DurationNotRefilled'
  BY <1>1 DEF BudgetInv, WithinLimits, Within, HeadsOwned, CurrentMemory, JournalCoversSpending,
              DurationNotRefilled, Fresh, InForce, Elapsed
<1> QED BY <1>3, <1>4, <1>5, <1>6 DEF BudgetInv

(* It holds initially. *)
LEMMA InitBudget == BudgetInit => BudgetInv
<1> SUFFICES ASSUME BudgetInit PROVE BudgetInv
  OBVIOUS
<1>1. \A o \in Owner : ctl[o] \in ControllerRecord /\ ~ctl[o].up /\ ~ctl[o].bound /\ Within(ctl[o])
  BY FreshControllers, SMT DEF BudgetInit
<1>2. TypeOK
  <2>1. NoCheckpoint \in CheckpointRecord /\ Nothing \in Usage BY NoCheckpointType
  <2>2. Free \in CallRecord BY DEF Free, CallRecord
  <2> QED BY <1>1, <2>1, <2>2, SMT DEF BudgetInit, TypeOK
<1>3. HandlesBelong BY DEF BudgetInit, HandlesBelong, Free
<1>4. HeadsOwned /\ JournalCoversSpending
  BY DEF BudgetInit, HeadsOwned, JournalCoversSpending, Fresh, NoCheckpoint
<1>5. WithinLimits /\ CurrentMemory /\ LiveHandles /\ DurationNotRefilled
  BY <1>1 DEF WithinLimits, CurrentMemory, LiveHandles, DurationNotRefilled, InForce
<1> QED BY <1>2, <1>3, <1>4, <1>5 DEF BudgetInv

(* Every step keeps it. *)
LEMMA StepBudget == BudgetInv /\ [BudgetNext]_vars => BudgetInv'
<1> SUFFICES ASSUME BudgetInv, [BudgetNext]_vars PROVE BudgetInv'
  OBVIOUS
<1>1. CASE UNCHANGED vars
  <2>1. ctl' = ctl /\ head' = head /\ call' = call /\ clock' = clock /\ owed' = owed BY <1>1 DEF vars
  <2>2. TypeOK' BY <2>1 DEF BudgetInv, TypeOK
  <2>3. HandlesBelong' /\ WithinLimits' /\ HeadsOwned'
    BY <2>1 DEF BudgetInv, HandlesBelong, WithinLimits, Within, HeadsOwned
  <2>4. CurrentMemory' BY <2>1 DEF BudgetInv, CurrentMemory, InForce
  <2>5. LiveHandles' BY <2>1, SMT DEF BudgetInv, LiveHandles
  <2>6. JournalCoversSpending' BY <2>1 DEF BudgetInv, JournalCoversSpending, Fresh
  <2>7. DurationNotRefilled' BY <2>1 DEF BudgetInv, DurationNotRefilled, InForce, Elapsed
  <2> QED BY <2>2, <2>3, <2>4, <2>5, <2>6, <2>7 DEF BudgetInv
<1>2. ASSUME NEW o \in Owner, Start(o) \/ Crash(o) PROVE BudgetInv' BY <1>2, ProcessKeeps
<1>3. ASSUME NEW o \in Owner, NEW outcome \in Outcome, Bind(o, outcome) PROVE BudgetInv'
  BY <1>3, BindKeeps
<1>4. ASSUME NEW o \in Owner, NEW r \in Res, NEW kind \in Kind, NEW outcome \in Outcome,
             NEW n \in (IF kind = "tool" THEN {0} ELSE Bound), Reserve(o, r, kind, n, outcome)
      PROVE  BudgetInv'
  <2>1. n \in Nat BY BudgetAssumption, SMT
  <2> QED BY <1>4, <2>1, ReserveKeeps
<1>5. ASSUME NEW o \in Owner, NEW r \in Res, NEW outcome \in Outcome,
             \/ Commit(o, r, outcome) \/ Release(o, r, outcome)
             \/ \E actual \in 0 .. call[r].bound + 1 : Settle(o, r, actual, outcome)
      PROVE  BudgetInv'
  <2>1. 0 .. call[r].bound + 1 \subseteq Nat BY SMT DEF BudgetInv, TypeOK, CallRecord
  <2> QED BY <1>5, <2>1, EndKeeps
<1>6. ASSUME NEW o \in Owner, NEW outcome \in Outcome,
             NEW x \in {Use(1, 0, 0), Use(0, 1, 0)} \cup {Use(0, 0, n) : n \in Bound},
             Record(o, x, outcome)
      PROVE  BudgetInv'
  <2>1. x \in Usage /\ Covers(x, Nothing)
    BY BudgetAssumption, SMT DEF Use, Usage, Covers, Nothing
  <2> QED BY <1>6, <2>1, RecordKeeps
<1>7. ASSUME NEW r \in Res, Drop(r) PROVE BudgetInv' BY <1>7, DropKeeps
<1>8. CASE Tick \/ SetBack BY <1>8, ClockKeeps
<1> QED BY <1>1, <1>2, <1>3, <1>4, <1>5, <1>6, <1>7, <1>8 DEF BudgetNext

(* So it always holds. *)
LEMMA BudgetAlways == BudgetSpec => []BudgetInv
BY InitBudget, StepBudget, PTL DEF BudgetSpec

\* DurableBudgetLedger.change and _bind_accounts never lose a charge: whatever
\* bound controllers granted and keep is in the journal, and the journal is
\* within the pinned limits of both accounts.
THEOREM SpendingIsJournalled == BudgetSpec => []JournalCoversSpending
<1>1. BudgetInv => JournalCoversSpending BY DEF BudgetInv
<1> QED BY <1>1, BudgetAlways, PTL

\* The controllers of the current owner are the journal's last word, and the
\* active reservations of a process that is not fenced are the handles held.
THEOREM MemoryFollowsJournal == BudgetSpec => []MemoryIsJournal
<1>1. BudgetInv => MemoryIsJournal
  BY DEF BudgetInv, CurrentMemory, LiveHandles, MemoryIsJournal
<1> QED BY <1>1, BudgetAlways, PTL

\* A replacement process continues the duration where the journal left it,
\* downtime included.
THEOREM DurationRunsOn == BudgetSpec => []DurationNotRefilled
<1>1. BudgetInv => DurationNotRefilled BY DEF BudgetInv
<1> QED BY <1>1, BudgetAlways, PTL

=============================================================================
