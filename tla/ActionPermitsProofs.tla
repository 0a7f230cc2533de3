------------------------ MODULE ActionPermitsProofs ------------------------
(***************************************************************************)
(* Every permit and every cleanup permit of the Graph Store is used once,  *)
(* for any number of dispatchers, requests, events and crashes, any        *)
(* budgets and any clock readings: ActionPermits implements                *)
(* SingleUseAuthority for both, and claims never go back to an older graph.*)
(***************************************************************************)
EXTENDS ActionPermits, FiniteSetTheorems, WellFoundedInduction, TLAPS

\* The prover of a step that names no other.
USE ZenonT(40)

\* The calls that a process may be in.
Calls ==
  {Idle}
  \cup [phase : {"authorize"}, req : Request, rev : Nat, at : Nat, approval : Nat \cup {None}]
  \cup [phase : {"authorize_cleanup"}, req : Reversible, rev : Nat, at : Nat]
  \cup [phase : {"dispatch", "cleanup"}, req : Request]

PermitTypeOK ==
  /\ log \in Nat /\ projections \subseteq Nat /\ snapshots \subseteq Nat /\ now \in Nat
  /\ permits \in [Request -> Claimed \cup {None}]
  /\ cleanups \in [Request -> Claimed \cup {None}]
  /\ proc \in [Dispatcher -> Calls]
  /\ acted \in [Request -> Nat] /\ cleaned \in [Request -> Nat]

\* How a permit table, the callbacks that its claims start and the processes in
\* such a callback belong together: a claimed row starts its callback once, in
\* one process.
UsedOnce(phase, table, count, procs) ==
  /\ \A r \in Request : count[r] \in {0, 1} /\ (table[r] = None => count[r] = 0)
  /\ \A p \in Dispatcher : procs[p].phase = phase =>
       table[procs[p].req] # None /\ count[procs[p].req] = 0
  /\ \A p, q \in Dispatcher :
       procs[p].phase = phase /\ procs[q].phase = phase /\ procs[p].req = procs[q].req => p = q

\* What the checked properties need to be inductive.
IInv ==
  /\ PermitTypeOK
  /\ UsedOnce("dispatch", permits, acted, proc)
  /\ UsedOnce("cleanup", cleanups, cleaned, proc)

-----------------------------------------------------------------------------
(* One permit table. *)

\* A process that does not go into the callback starts nothing.
LEMMA Elsewhere ==
  ASSUME NEW phase, NEW table, NEW count, NEW procs \in [Dispatcher -> Calls],
         UsedOnce(phase, table, count, procs),
         NEW p \in Dispatcher, NEW call \in Calls, call.phase # phase
  PROVE  UsedOnce(phase, table, count, [procs EXCEPT ![p] = call])
  BY DEF UsedOnce

\* A new claim lets one process into the callback.
LEMMA NewClaim ==
  ASSUME NEW phase, NEW table, DOMAIN table = Request, NEW count, NEW procs \in [Dispatcher -> Calls],
         UsedOnce(phase, table, count, procs),
         NEW p \in Dispatcher, NEW r \in Request, table[r] = None, NEW row, row # None,
         NEW call, call.phase = phase, call.req = r,
         \A q \in Dispatcher : procs[q].phase = phase => procs[q].req \in Request
  PROVE  UsedOnce(phase, [table EXCEPT ![r] = row], count, [procs EXCEPT ![p] = call])
  BY DEF UsedOnce

\* The callback acts and is left.
LEMMA Acts ==
  ASSUME NEW phase, NEW table, NEW count \in [Request -> Nat], NEW procs \in [Dispatcher -> Calls],
         UsedOnce(phase, table, count, procs), phase # "idle",
         NEW p \in Dispatcher, procs[p].phase = phase, procs[p].req \in Request
  PROVE  UsedOnce(phase, table, [count EXCEPT ![procs[p].req] = count[procs[p].req] + 1],
                  [procs EXCEPT ![p] = Idle])
  BY SMT DEF UsedOnce, Idle

\* The time a claim expires is a time.
LEMMA Expires ==
  ASSUME NEW a \in Nat, NEW b \in Nat, NEW c \in Nat
  PROVE  Min({a, b}) \in Nat /\ Min({a, b, c}) \in Nat
<1>1. \E x \in {a, b} : \A y \in {a, b} : x <= y
  BY SMT
<1>2. \E x \in {a, b, c} : \A y \in {a, b, c} : x <= y
  BY SMT
<1> QED
  BY <1>1, <1>2 DEF Min

\* The times of the envelope.
LEMMA Times == EnvelopeExpiry \in Nat /\ PermitTTL \in Nat
  BY PermitAssumption

\* The calls that a process makes, and the callbacks.
LEMMA CallTypes ==
  ASSUME NEW r \in Request, NEW n \in Nat, NEW t \in Nat
  PROVE  /\ \A a \in Nat \cup {None} :
              [phase |-> "authorize", req |-> r, rev |-> n, at |-> t, approval |-> a] \in Calls
         /\ r \in Reversible => [phase |-> "authorize_cleanup", req |-> r, rev |-> n, at |-> t] \in Calls
         /\ [phase |-> "dispatch", req |-> r] \in Calls
         /\ [phase |-> "cleanup", req |-> r] \in Calls
<1>1. ASSUME NEW a \in Nat \cup {None}
      PROVE  [phase |-> "authorize", req |-> r, rev |-> n, at |-> t, approval |-> a] \in Calls
  <2>1. [phase |-> "authorize", req |-> r, rev |-> n, at |-> t, approval |-> a]
          \in [phase : {"authorize"}, req : Request, rev : Nat, at : Nat, approval : Nat \cup {None}]
    OBVIOUS
  <2> QED
    BY <2>1 DEF Calls
<1>2. ASSUME r \in Reversible
      PROVE  [phase |-> "authorize_cleanup", req |-> r, rev |-> n, at |-> t] \in Calls
  <2>1. [phase |-> "authorize_cleanup", req |-> r, rev |-> n, at |-> t]
          \in [phase : {"authorize_cleanup"}, req : Reversible, rev : Nat, at : Nat]
    BY <1>2
  <2> QED
    BY <2>1 DEF Calls
<1>3. ASSUME NEW phase \in {"dispatch", "cleanup"}
      PROVE  [phase |-> phase, req |-> r] \in Calls
  <2>1. [phase |-> phase, req |-> r] \in [phase : {"dispatch", "cleanup"}, req : Request]
    OBVIOUS
  <2> QED
    BY <2>1 DEF Calls
<1> QED
  BY <1>1, <1>2, <1>3

\* The request of a process that is not idle.
LEMMA CallOf ==
  ASSUME PermitTypeOK, NEW p \in Dispatcher
  PROVE  /\ proc[p].phase # "idle" => proc[p].req \in Request
         /\ proc[p].phase \in {"authorize", "authorize_cleanup"} => proc[p].rev \in Nat /\ proc[p].at \in Nat
         /\ proc[p].phase = "authorize_cleanup" => proc[p].req \in Reversible
<1>1. proc[p] \in Calls
  BY DEF PermitTypeOK
<1> QED
  BY <1>1, PermitAssumption, SMT DEF Calls, Idle

\* Whatever the path, the transaction of an action permit consumes it for the
\* one process that asked, on a snapshot of the whole log, or changes nothing.
LEMMA ConsumeCases ==
  ASSUME PermitTypeOK, NEW p \in Dispatcher,
         \/ AuthorizeForDispatch(p) \/ AuthorizeApproved(p)
         \/ AuthorizeReversible(p) \/ AuthorizeApprovedReversible(p)
  PROVE  /\ UNCHANGED <<log, projections, snapshots, cleanups, acted, cleaned, now>>
         /\ \/ UNCHANGED permits /\ Step(p, Idle)
            \/ \E r \in Request, row \in Claimed :
                 /\ permits[r] = None /\ permits' = [permits EXCEPT ![r] = row] /\ row.rev = log
                 /\ Step(p, [phase |-> "dispatch", req |-> r])
<1>0. proc[p].phase = "authorize"
  BY DEF AuthorizeForDispatch, AuthorizeApproved, AuthorizeReversible, AuthorizeApprovedReversible
<1>1. PICK r \in Request : r = proc[p].req
  BY <1>0, CallOf
<1>2. proc[p].rev \in Nat /\ proc[p].at \in Nat
  BY <1>0, CallOf
<1>3. PICK e \in Nat : e = Min({EnvelopeExpiry, proc[p].at + PermitTTL})
  <2>1. EnvelopeExpiry \in Nat /\ proc[p].at + PermitTTL \in Nat
    BY <1>2, Times, SMT
  <2> QED
    BY <2>1, Expires
<1>4. PICK row \in Claimed : row = [rev |-> proc[p].rev, at |-> proc[p].at, expires |-> e]
  BY <1>2, <1>3 DEF Claimed
<1>5. row.rev = proc[p].rev
  BY <1>4
<1>6. ASSUME NEW valid, Consume(p, valid)
      PROVE  /\ UNCHANGED <<log, projections, snapshots, cleanups, acted, cleaned, now>>
             /\ \/ UNCHANGED permits /\ Step(p, Idle)
                \/ /\ permits[r] = None /\ permits' = [permits EXCEPT ![r] = row] /\ proc[p].rev = log
                   /\ Step(p, [phase |-> "dispatch", req |-> r])
  BY <1>1, <1>3, <1>4, <1>6 DEF Consume, AfterConsumption, RequireLatestSnapshot
<1>7. \E valid : Consume(p, valid)
  BY DEF AuthorizeForDispatch, AuthorizeApproved, AuthorizeReversible, AuthorizeApprovedReversible
<1> QED
  BY <1>1, <1>4, <1>5, <1>6, <1>7

\* The same of a cleanup permit.
LEMMA CleanupCases ==
  ASSUME PermitTypeOK, NEW p \in Dispatcher, AuthorizeCleanup(p)
  PROVE  /\ UNCHANGED <<log, projections, snapshots, permits, acted, cleaned, now>>
         /\ \/ UNCHANGED cleanups /\ Step(p, Idle)
            \/ \E r \in Request, row \in Claimed :
                 /\ cleanups[r] = None /\ cleanups' = [cleanups EXCEPT ![r] = row] /\ row.rev = log
                 /\ Step(p, [phase |-> "cleanup", req |-> r])
<1>0. proc[p].phase = "authorize_cleanup"
  BY DEF AuthorizeCleanup
<1>1. PICK r \in Request : r = proc[p].req
  BY <1>0, CallOf
<1>2. proc[p].rev \in Nat /\ proc[p].at \in Nat
  BY <1>0, CallOf
<1>3. CASE UNCHANGED cleanups /\ Step(p, Idle)
  BY <1>3 DEF AuthorizeCleanup
<1>4. CASE ~(UNCHANGED cleanups /\ Step(p, Idle))
  <2>1. r \in Reversible /\ ClaimExpiry[r] \in Nat
    <3>1. r \in Reversible
      BY <1>0, <1>1, CallOf
    <3> QED
      BY <3>1, PermitAssumption, SMT
  <2>2. PICK e \in Nat : e = Min({EnvelopeExpiry, ClaimExpiry[r], proc[p].at + PermitTTL})
    <3>1. EnvelopeExpiry \in Nat /\ proc[p].at + PermitTTL \in Nat
      BY <1>2, Times, SMT
    <3> QED
      BY <2>1, <3>1, Expires
  <2>3. PICK row \in Claimed : row = [rev |-> proc[p].rev, at |-> proc[p].at, expires |-> e]
    BY <1>2, <2>2 DEF Claimed
  <2>4. row.rev = proc[p].rev
    BY <2>3
  <2>5. /\ cleanups[r] = None /\ cleanups' = [cleanups EXCEPT ![r] = row] /\ proc[p].rev = log
        /\ Step(p, [phase |-> "cleanup", req |-> r])
    BY <1>1, <1>4, <2>2, <2>3 DEF AuthorizeCleanup, AfterConsumption, RequireLatestSnapshot
  <2> QED
    BY <1>4, <2>3, <2>4, <2>5 DEF AuthorizeCleanup
<1> QED
  BY <1>3, <1>4

-----------------------------------------------------------------------------
(* The invariant. *)

\* The invariant holds before the first event.
LEMMA InvInit == Init => IInv
  BY SMT DEF Init, IInv, PermitTypeOK, UsedOnce, Calls, Idle

\* A step that only moves one process, into no callback.
LEMMA Moves ==
  ASSUME IInv, NEW p \in Dispatcher, NEW call \in Calls, Step(p, call),
         call.phase \notin {"dispatch", "cleanup"},
         UNCHANGED <<log, projections, snapshots, permits, cleanups, acted, cleaned, now>>
  PROVE  IInv'
<1>1. proc \in [Dispatcher -> Calls] /\ proc' = [proc EXCEPT ![p] = call]
  BY DEF IInv, PermitTypeOK, Step
<1>2. PermitTypeOK'
  BY <1>1 DEF IInv, PermitTypeOK
<1>3. UsedOnce("dispatch", permits, acted, [proc EXCEPT ![p] = call])
  BY <1>1, Elsewhere DEF IInv
<1>4. UsedOnce("cleanup", cleanups, cleaned, [proc EXCEPT ![p] = call])
  BY <1>1, Elsewhere DEF IInv
<1> QED
  BY <1>1, <1>2, <1>3, <1>4 DEF IInv

\* A step of the log, the projections, the snapshots or the clock.
LEMMA OtherStep ==
  ASSUME IInv, PermitTypeOK', UNCHANGED <<permits, cleanups, acted, cleaned, proc>>
  PROVE  IInv'
  BY DEF IInv

\* Calls that start, and processes that die.
LEMMA CallKeeps ==
  ASSUME IInv, NEW p \in Dispatcher,
         \/ \E r \in Request, n \in snapshots, a \in snapshots \cup {None} : Evaluate(p, r, n, a)
         \/ \E r \in Request, n \in snapshots : EvaluateCleanup(p, r, n)
         \/ CrashDispatcher(p)
  PROVE  IInv'
<1>0. snapshots \subseteq Nat /\ now \in Nat
  BY DEF IInv, PermitTypeOK
<1>1. ASSUME NEW r \in Request, NEW n \in snapshots, NEW a \in snapshots \cup {None}, Evaluate(p, r, n, a)
      PROVE  IInv'
  <2>1. PICK call \in Calls :
          call = [phase |-> "authorize", req |-> r, rev |-> n, at |-> now, approval |-> a]
          /\ call.phase = "authorize"
    <3>1. n \in Nat /\ a \in Nat \cup {None}
      BY <1>0
    <3> QED
      BY <1>0, <3>1, CallTypes
  <2> QED
    BY <1>1, <2>1, Moves DEF Evaluate, store
<1>2. ASSUME NEW r \in Request, NEW n \in snapshots, EvaluateCleanup(p, r, n)
      PROVE  IInv'
  <2>1. PICK call \in Calls :
          call = [phase |-> "authorize_cleanup", req |-> r, rev |-> n, at |-> now]
          /\ call.phase = "authorize_cleanup"
    <3>1. n \in Nat /\ r \in Reversible
      BY <1>0, <1>2 DEF EvaluateCleanup
    <3> QED
      BY <1>0, <3>1, CallTypes
  <2> QED
    BY <1>2, <2>1, Moves DEF EvaluateCleanup, store
<1>3. CASE CrashDispatcher(p)
  <2>1. Idle \in Calls /\ Idle.phase = "idle"
    BY DEF Calls, Idle
  <2> QED
    BY <1>3, <2>1, Moves DEF CrashDispatcher, store
<1> QED
  BY <1>1, <1>2, <1>3

\* The claim of an action permit, on any of the four paths.
LEMMA ConsumeKeeps ==
  ASSUME IInv, NEW p \in Dispatcher,
         \/ AuthorizeForDispatch(p) \/ AuthorizeApproved(p)
         \/ AuthorizeReversible(p) \/ AuthorizeApprovedReversible(p)
  PROVE  IInv'
<1>0. PermitTypeOK /\ proc \in [Dispatcher -> Calls] /\ DOMAIN permits = Request
  BY DEF IInv, PermitTypeOK
<1>1. Idle \in Calls /\ Idle.phase = "idle"
  BY DEF Calls, Idle
<1>2. CASE UNCHANGED permits /\ Step(p, Idle)
  BY <1>0, <1>1, <1>2, ConsumeCases, Moves
<1>3. ASSUME NEW r \in Request, NEW row \in Claimed, permits[r] = None,
             permits' = [permits EXCEPT ![r] = row], Step(p, [phase |-> "dispatch", req |-> r]),
             UNCHANGED <<log, projections, snapshots, cleanups, acted, cleaned, now>>
      PROVE  IInv'
  <2>1. PICK call \in Calls : call = [phase |-> "dispatch", req |-> r] /\ call.phase = "dispatch" /\ call.req = r
    <3>1. 0 \in Nat
      OBVIOUS
    <3> QED
      BY <3>1, CallTypes
  <2>2. proc' = [proc EXCEPT ![p] = call]
    BY <1>3, <2>1 DEF Step
  <2>3. PermitTypeOK'
    BY <1>0, <1>3, <2>2 DEF PermitTypeOK
  <2>4. row # None
    BY PermitAssumption
  <2>5. \A q \in Dispatcher : proc[q].phase = "dispatch" => proc[q].req \in Request
    BY <1>0, CallOf
  <2>6. UsedOnce("dispatch", permits', acted, proc')
    BY <1>0, <1>3, <2>1, <2>2, <2>4, <2>5, NewClaim DEF IInv
  <2>7. UsedOnce("cleanup", cleanups, cleaned, proc')
    BY <1>0, <2>1, <2>2, Elsewhere DEF IInv
  <2> QED
    BY <1>3, <2>3, <2>6, <2>7 DEF IInv
<1> QED
  BY <1>0, <1>2, <1>3, ConsumeCases

\* The claim of a cleanup permit.
LEMMA CleanupKeeps ==
  ASSUME IInv, NEW p \in Dispatcher, AuthorizeCleanup(p)
  PROVE  IInv'
<1>0. PermitTypeOK /\ proc \in [Dispatcher -> Calls] /\ DOMAIN cleanups = Request
  BY DEF IInv, PermitTypeOK
<1>1. Idle \in Calls /\ Idle.phase = "idle"
  BY DEF Calls, Idle
<1>2. CASE UNCHANGED cleanups /\ Step(p, Idle)
  BY <1>0, <1>1, <1>2, CleanupCases, Moves
<1>3. ASSUME NEW r \in Request, NEW row \in Claimed, cleanups[r] = None,
             cleanups' = [cleanups EXCEPT ![r] = row], Step(p, [phase |-> "cleanup", req |-> r]),
             UNCHANGED <<log, projections, snapshots, permits, acted, cleaned, now>>
      PROVE  IInv'
  <2>1. PICK call \in Calls : call = [phase |-> "cleanup", req |-> r] /\ call.phase = "cleanup" /\ call.req = r
    <3>1. 0 \in Nat
      OBVIOUS
    <3> QED
      BY <3>1, CallTypes
  <2>2. proc' = [proc EXCEPT ![p] = call]
    BY <1>3, <2>1 DEF Step
  <2>3. PermitTypeOK'
    BY <1>0, <1>3, <2>2 DEF PermitTypeOK
  <2>4. row # None
    BY PermitAssumption
  <2>5. \A q \in Dispatcher : proc[q].phase = "cleanup" => proc[q].req \in Request
    BY <1>0, CallOf
  <2>6. UsedOnce("cleanup", cleanups', cleaned, proc')
    BY <1>0, <1>3, <2>1, <2>2, <2>4, <2>5, NewClaim DEF IInv
  <2>7. UsedOnce("dispatch", permits, acted, proc')
    BY <1>0, <2>1, <2>2, Elsewhere DEF IInv
  <2> QED
    BY <1>3, <2>3, <2>6, <2>7 DEF IInv
<1> QED
  BY <1>0, <1>2, <1>3, CleanupCases

\* The Worker callback.
LEMMA DispatchKeeps ==
  ASSUME IInv, NEW p \in Dispatcher, Dispatch(p)
  PROVE  IInv'
<1>0. /\ PermitTypeOK /\ proc \in [Dispatcher -> Calls] /\ acted \in [Request -> Nat]
      /\ Idle \in Calls /\ Idle.phase = "idle"
  BY DEF IInv, PermitTypeOK, Calls, Idle
<1>1. /\ proc[p].phase = "dispatch" /\ proc' = [proc EXCEPT ![p] = Idle]
      /\ UNCHANGED <<log, projections, snapshots, permits, cleanups, cleaned, now>>
  BY DEF Dispatch, Step, store
<1>2. proc[p].req \in Request
  BY <1>0, <1>1, CallOf
<1>3. CASE UNCHANGED acted
  BY <1>0, <1>1, <1>3, Moves DEF Step
<1>4. CASE acted' = [acted EXCEPT ![proc[p].req] = acted[proc[p].req] + 1]
  <2>1. PermitTypeOK'
    BY <1>0, <1>1, <1>2, <1>4, SMT DEF PermitTypeOK
  <2>2. UsedOnce("dispatch", permits, acted', proc')
    BY <1>0, <1>1, <1>2, <1>4, Acts DEF IInv
  <2>3. UsedOnce("cleanup", cleanups, cleaned, proc')
    BY <1>0, <1>1, Elsewhere DEF IInv
  <2> QED
    BY <1>1, <2>1, <2>2, <2>3 DEF IInv
<1> QED
  BY <1>3, <1>4 DEF Dispatch

\* The cleanup callback.
LEMMA DispatchCleanupKeeps ==
  ASSUME IInv, NEW p \in Dispatcher, DispatchCleanup(p)
  PROVE  IInv'
<1>0. /\ PermitTypeOK /\ proc \in [Dispatcher -> Calls] /\ cleaned \in [Request -> Nat]
      /\ Idle \in Calls /\ Idle.phase = "idle"
  BY DEF IInv, PermitTypeOK, Calls, Idle
<1>1. /\ proc[p].phase = "cleanup" /\ proc' = [proc EXCEPT ![p] = Idle]
      /\ UNCHANGED <<log, projections, snapshots, permits, cleanups, acted, now>>
  BY DEF DispatchCleanup, Step, store
<1>2. proc[p].req \in Request
  BY <1>0, <1>1, CallOf
<1>3. CASE UNCHANGED cleaned
  BY <1>0, <1>1, <1>3, Moves DEF Step
<1>4. CASE cleaned' = [cleaned EXCEPT ![proc[p].req] = cleaned[proc[p].req] + 1]
  <2>1. PermitTypeOK'
    BY <1>0, <1>1, <1>2, <1>4, SMT DEF PermitTypeOK
  <2>2. UsedOnce("cleanup", cleanups, cleaned', proc')
    BY <1>0, <1>1, <1>2, <1>4, Acts DEF IInv
  <2>3. UsedOnce("dispatch", permits, acted, proc')
    BY <1>0, <1>1, Elsewhere DEF IInv
  <2> QED
    BY <1>1, <2>1, <2>2, <2>3 DEF IInv
<1> QED
  BY <1>3, <1>4 DEF DispatchCleanup

\* Every step keeps the invariant.
LEMMA InvStep == IInv /\ [Next]_vars => IInv'
<1> SUFFICES ASSUME IInv, [Next]_vars PROVE IInv'
  OBVIOUS
<1>0. PermitTypeOK
  BY DEF IInv
<1>1. CASE UNCHANGED vars
  BY <1>1, OtherStep DEF vars, store, IInv, PermitTypeOK
<1>2. CASE AppendEvent \/ AdvanceProjection \/ CaptureSnapshot \/ Tick
  <2>1. UNCHANGED <<permits, cleanups, acted, cleaned, proc>>
    BY <1>2 DEF AppendEvent, AdvanceProjection, CaptureSnapshot, Tick, store
  <2>2. projections' \subseteq Nat
    <3>1. CASE AdvanceProjection
      <4>1. PICK n \in 1 .. log : projections' = projections \cup {n}
        BY <3>1 DEF AdvanceProjection
      <4>2. n \in Nat
        BY <1>0, <4>1, SMT DEF PermitTypeOK
      <4> QED
        BY <1>0, <4>1, <4>2 DEF PermitTypeOK
    <3> QED
      BY <1>0, <1>2, <3>1 DEF PermitTypeOK, AppendEvent, CaptureSnapshot, Tick, store
  <2>3. log' \in Nat /\ snapshots' \subseteq Nat /\ now' \in Nat
    <3>1. CASE AppendEvent
      BY <1>0, <3>1, SMT DEF PermitTypeOK, AppendEvent
    <3>2. CASE AdvanceProjection
      BY <1>0, <3>2 DEF PermitTypeOK, AdvanceProjection
    <3>3. CASE CaptureSnapshot
      BY <1>0, <3>3 DEF PermitTypeOK, CaptureSnapshot
    <3>4. CASE Tick
      BY <1>0, <3>4, SMT DEF PermitTypeOK, Tick, store
    <3> QED
      BY <1>2, <3>1, <3>2, <3>3, <3>4
  <2>4. PermitTypeOK'
    BY <1>0, <2>1, <2>2, <2>3 DEF PermitTypeOK
  <2> QED
    BY <2>1, <2>4, OtherStep
<1> QED
  BY <1>1, <1>2, CallKeeps, ConsumeKeeps, CleanupKeeps, DispatchKeeps, DispatchCleanupKeeps DEF Next

\* The invariant holds however dispatchers race, retry and die.
THEOREM PermitInvariant == PermitSpec => []IInv
  BY InvInit, InvStep, PTL DEF PermitSpec

-----------------------------------------------------------------------------
(* ActionPermits implements SingleUseAuthority, twice. *)

\* The claim spends the authority.
LEMMA ActionSpent ==
  ASSUME IInv, NEW r \in Request, NEW row \in Claimed, permits[r] = None,
         permits' = [permits EXCEPT ![r] = row], UNCHANGED acted
  PROVE  ActionUse!Next
<1>1. row # None /\ DOMAIN permits = Request
  BY PermitAssumption DEF IInv, PermitTypeOK
<1> DEFINE stages == [j \in Request |-> IF permits[j] = None THEN "free" ELSE "spent"]
<1>2. permits'[r] # None /\ \A j \in Request \ {r} : permits'[j] = permits[j]
  BY <1>1
<1>3. stages[r] = "free" /\ stages' = [stages EXCEPT ![r] = "spent"]
  BY <1>2, ZenonT(30)
<1>4. ActionUse!Spend(r)
  BY <1>3 DEF ActionUse!Spend
<1> QED
  BY <1>4 DEF ActionUse!Next

\* The callback is the effect of the authority.
LEMMA ActionActs ==
  ASSUME IInv, NEW p \in Dispatcher, Dispatch(p)
  PROVE  UNCHANGED <<permits, acted>> \/ ActionUse!Next
<1>1. /\ proc[p].phase = "dispatch" /\ UNCHANGED permits
      /\ \/ UNCHANGED acted
         \/ acted' = [acted EXCEPT ![proc[p].req] = acted[proc[p].req] + 1]
  BY DEF Dispatch, store
<1>2. CASE acted' = [acted EXCEPT ![proc[p].req] = acted[proc[p].req] + 1]
  <2>0. PermitTypeOK
    BY DEF IInv
  <2>1. PICK r \in Request : r = proc[p].req
    BY <1>1, <2>0, CallOf
  <2>2. permits[r] # None /\ acted[r] = 0
    BY <1>1, <2>1 DEF IInv, UsedOnce
  <2>3. acted' = [acted EXCEPT ![r] = 1]
    BY <1>2, <2>1, <2>2, SMT
  <2>4. ActionUse!Act(r)
    BY <1>1, <2>2, <2>3 DEF ActionUse!Act
  <2> QED
    BY <2>4 DEF ActionUse!Next
<1> QED
  BY <1>1, <1>2

\* The claim spends the authority.
LEMMA CleanupSpent ==
  ASSUME IInv, NEW r \in Request, NEW row \in Claimed, cleanups[r] = None,
         cleanups' = [cleanups EXCEPT ![r] = row], UNCHANGED cleaned
  PROVE  CleanupUse!Next
<1>1. row # None /\ DOMAIN cleanups = Request
  BY PermitAssumption DEF IInv, PermitTypeOK
<1> DEFINE stages == [j \in Request |-> IF cleanups[j] = None THEN "free" ELSE "spent"]
<1>2. cleanups'[r] # None /\ \A j \in Request \ {r} : cleanups'[j] = cleanups[j]
  BY <1>1
<1>3. stages[r] = "free" /\ stages' = [stages EXCEPT ![r] = "spent"]
  BY <1>2, ZenonT(30)
<1>4. CleanupUse!Spend(r)
  BY <1>3 DEF CleanupUse!Spend
<1> QED
  BY <1>4 DEF CleanupUse!Next

\* The callback is the effect of the authority.
LEMMA CleanupActs ==
  ASSUME IInv, NEW p \in Dispatcher, DispatchCleanup(p)
  PROVE  UNCHANGED <<cleanups, cleaned>> \/ CleanupUse!Next
<1>1. /\ proc[p].phase = "cleanup" /\ UNCHANGED cleanups
      /\ \/ UNCHANGED cleaned
         \/ cleaned' = [cleaned EXCEPT ![proc[p].req] = cleaned[proc[p].req] + 1]
  BY DEF DispatchCleanup, store
<1>2. CASE cleaned' = [cleaned EXCEPT ![proc[p].req] = cleaned[proc[p].req] + 1]
  <2>0. PermitTypeOK
    BY DEF IInv
  <2>1. PICK r \in Request : r = proc[p].req
    BY <1>1, <2>0, CallOf
  <2>2. cleanups[r] # None /\ cleaned[r] = 0
    BY <1>1, <2>1 DEF IInv, UsedOnce
  <2>3. cleaned' = [cleaned EXCEPT ![r] = 1]
    BY <1>2, <2>1, <2>2, SMT
  <2>4. CleanupUse!Act(r)
    BY <1>1, <2>2, <2>3 DEF CleanupUse!Act
  <2> QED
    BY <2>4 DEF CleanupUse!Next
<1> QED
  BY <1>1, <1>2

\* Every step is a step of both abstract authorities, or one they do not see.
LEMMA RefinesStep ==
  ASSUME IInv, [Next]_vars
  PROVE  /\ UNCHANGED <<permits, acted>> \/ ActionUse!Next
         /\ UNCHANGED <<cleanups, cleaned>> \/ CleanupUse!Next
<1>0. PermitTypeOK
  BY DEF IInv
<1>1. CASE UNCHANGED vars
  BY <1>1 DEF vars, store
<1>2. CASE AppendEvent \/ AdvanceProjection \/ CaptureSnapshot \/ Tick
  BY <1>2 DEF AppendEvent, AdvanceProjection, CaptureSnapshot, Tick, store
<1>3. ASSUME NEW p \in Dispatcher,
             \/ \E r \in Request, n \in snapshots, a \in snapshots \cup {None} : Evaluate(p, r, n, a)
             \/ \E r \in Request, n \in snapshots : EvaluateCleanup(p, r, n)
             \/ CrashDispatcher(p)
      PROVE  UNCHANGED <<permits, acted, cleanups, cleaned>>
  BY <1>3 DEF Evaluate, EvaluateCleanup, CrashDispatcher, store
<1>4. ASSUME NEW p \in Dispatcher,
             \/ AuthorizeForDispatch(p) \/ AuthorizeApproved(p)
             \/ AuthorizeReversible(p) \/ AuthorizeApprovedReversible(p)
      PROVE  /\ UNCHANGED <<permits, acted>> \/ ActionUse!Next
             /\ UNCHANGED <<cleanups, cleaned>>
  <2>1. UNCHANGED <<cleanups, acted, cleaned>>
    BY <1>0, <1>4, ConsumeCases
  <2>2. UNCHANGED permits \/ \E r \in Request, row \in Claimed :
          permits[r] = None /\ permits' = [permits EXCEPT ![r] = row]
    BY <1>0, <1>4, ConsumeCases
  <2> QED
    BY <2>1, <2>2, ActionSpent
<1>5. ASSUME NEW p \in Dispatcher, AuthorizeCleanup(p)
      PROVE  /\ UNCHANGED <<permits, acted>>
             /\ UNCHANGED <<cleanups, cleaned>> \/ CleanupUse!Next
  <2>1. UNCHANGED <<permits, acted, cleaned>>
    BY <1>0, <1>5, CleanupCases
  <2>2. UNCHANGED cleanups \/ \E r \in Request, row \in Claimed :
          cleanups[r] = None /\ cleanups' = [cleanups EXCEPT ![r] = row]
    BY <1>0, <1>5, CleanupCases
  <2> QED
    BY <2>1, <2>2, CleanupSpent
<1>6. ASSUME NEW p \in Dispatcher, Dispatch(p)
      PROVE  /\ UNCHANGED <<permits, acted>> \/ ActionUse!Next
             /\ UNCHANGED <<cleanups, cleaned>>
  BY <1>6, ActionActs DEF Dispatch, store
<1>7. ASSUME NEW p \in Dispatcher, DispatchCleanup(p)
      PROVE  /\ UNCHANGED <<permits, acted>>
             /\ UNCHANGED <<cleanups, cleaned>> \/ CleanupUse!Next
  BY <1>7, CleanupActs DEF DispatchCleanup, store
<1> QED
  BY <1>1, <1>2, <1>3, <1>4, <1>5, <1>6, <1>7 DEF Next

\* However many dispatchers race, retry and die, a permit and a cleanup permit
\* are each claimed once and let their callback act at most once, and nothing
\* gives them back (the authorize_*_for_dispatch methods and dispatch_once).
THEOREM PermitsAreSingleUse == PermitSpec => PermitIsSingleUse
<1>1. Init => ActionUse!Init /\ CleanupUse!Init
  BY DEF Init, ActionUse!Init, CleanupUse!Init
<1>2. IInv /\ [Next]_vars =>
        [/\ UNCHANGED <<permits, acted>> \/ ActionUse!Next
         /\ UNCHANGED <<cleanups, cleaned>> \/ CleanupUse!Next]_vars
  BY RefinesStep
<1> QED
  BY <1>1, <1>2, PermitInvariant, PTL DEF PermitSpec, PermitIsSingleUse

\* Nothing was decided on a graph that is still to come.
DecidedInPast == \A n \in DecidedOn : n \in Nat /\ n <= log

\* What a step may do to a permit table: nothing, or one new row decided on the
\* whole log, which stays as it is.
NewRow(table) ==
  /\ \A r \in Request : table'[r] # table[r] => table'[r] # None /\ table'[r].rev = log
  /\ (\E r \in Request : table'[r] # table[r]) => log' = log
OnWholeLog == NewRow(permits) /\ NewRow(cleanups) /\ log \in Nat /\ log' \in Nat /\ log <= log'

\* Every claim is of a decision on the whole log.
LEMMA ClaimsOnWholeLog ==
  ASSUME IInv, [Next]_vars
  PROVE  OnWholeLog
<1>0. PermitTypeOK /\ DOMAIN permits = Request /\ DOMAIN cleanups = Request /\ log \in Nat
  BY DEF IInv, PermitTypeOK
<1>a. log <= log BY <1>0, SMT
<1>1. ASSUME UNCHANGED <<permits, cleanups, log>> PROVE OnWholeLog
  BY <1>0, <1>a, <1>1 DEF OnWholeLog, NewRow
<1>2. ASSUME NEW p \in Dispatcher,
             \/ AuthorizeForDispatch(p) \/ AuthorizeApproved(p)
             \/ AuthorizeReversible(p) \/ AuthorizeApprovedReversible(p)
      PROVE  OnWholeLog
  <2>1. UNCHANGED <<cleanups, log>>
    BY <1>0, <1>2, ConsumeCases
  <2>2. UNCHANGED permits \/ \E r \in Request, row \in Claimed :
          permits' = [permits EXCEPT ![r] = row] /\ row.rev = log
    BY <1>0, <1>2, ConsumeCases
  <2>3. \A x \in Request : permits'[x] # permits[x] => permits'[x] # None /\ permits'[x].rev = log
    <3>1. CASE UNCHANGED permits
      BY <3>1
    <3>2. ASSUME NEW r \in Request, NEW row \in Claimed,
                 permits' = [permits EXCEPT ![r] = row], row.rev = log
          PROVE  \A x \in Request : permits'[x] # permits[x] => permits'[x] = row
      BY <1>0, <3>2
    <3> QED
      BY <2>2, <3>1, <3>2, PermitAssumption
  <2>4. NewRow(permits)
    BY <2>1, <2>3 DEF NewRow
  <2>5. NewRow(cleanups)
    BY <2>1 DEF NewRow
  <2>6. log' \in Nat /\ log <= log'
    BY <1>0, <1>a, <2>1
  <2> QED
    BY <1>0, <2>4, <2>5, <2>6 DEF OnWholeLog
<1>3. ASSUME NEW p \in Dispatcher, AuthorizeCleanup(p)
      PROVE  OnWholeLog
  <2>1. UNCHANGED <<permits, log>>
    BY <1>0, <1>3, CleanupCases
  <2>2. UNCHANGED cleanups \/ \E r \in Request, row \in Claimed :
          cleanups' = [cleanups EXCEPT ![r] = row] /\ row.rev = log
    BY <1>0, <1>3, CleanupCases
  <2>3. \A x \in Request : cleanups'[x] # cleanups[x] => cleanups'[x] # None /\ cleanups'[x].rev = log
    <3>1. CASE UNCHANGED cleanups
      BY <3>1
    <3>2. ASSUME NEW r \in Request, NEW row \in Claimed,
                 cleanups' = [cleanups EXCEPT ![r] = row], row.rev = log
          PROVE  \A x \in Request : cleanups'[x] # cleanups[x] => cleanups'[x] = row
      BY <1>0, <3>2
    <3> QED
      BY <2>2, <3>1, <3>2, PermitAssumption
  <2>4. NewRow(cleanups)
    BY <2>1, <2>3 DEF NewRow
  <2>5. NewRow(permits)
    BY <2>1 DEF NewRow
  <2>6. log' \in Nat /\ log <= log'
    BY <1>0, <1>a, <2>1
  <2> QED
    BY <1>0, <2>4, <2>5, <2>6 DEF OnWholeLog
<1>4. ASSUME NEW p \in Dispatcher,
             \/ \E r \in Request, n \in snapshots, a \in snapshots \cup {None} : Evaluate(p, r, n, a)
             \/ \E r \in Request, n \in snapshots : EvaluateCleanup(p, r, n)
             \/ CrashDispatcher(p) \/ Dispatch(p) \/ DispatchCleanup(p)
      PROVE  UNCHANGED <<permits, cleanups, log>>
  BY <1>4 DEF Evaluate, EvaluateCleanup, CrashDispatcher, Dispatch, DispatchCleanup, store
<1>5. CASE AppendEvent
  <2>1. log' = log + 1 /\ UNCHANGED <<permits, cleanups>>
    BY <1>5 DEF AppendEvent
  <2>2. log' \in Nat /\ log <= log'
    BY <1>0, <2>1, SMT
  <2> QED
    BY <1>0, <2>1, <2>2 DEF OnWholeLog, NewRow
<1>6. CASE AdvanceProjection \/ CaptureSnapshot \/ Tick
  BY <1>1, <1>6 DEF AdvanceProjection, CaptureSnapshot, Tick, store
<1>7. CASE UNCHANGED vars
  BY <1>1, <1>7 DEF vars, store
<1> QED
  BY <1>1, <1>2, <1>3, <1>4, <1>5, <1>6, <1>7 DEF Next

\* The log only grows, so every claimed row stays in its past.
LEMMA PastStays ==
  ASSUME DecidedInPast, OnWholeLog
  PROVE  DecidedInPast'
<1> SUFFICES ASSUME NEW n \in DecidedOn' PROVE n \in Nat /\ n <= log'
  BY DEF DecidedInPast
<1>1. n \in DecidedOn \/ n = log
  BY DEF DecidedOn, Rows, OnWholeLog, NewRow
<1>2. n \in Nat /\ n <= log
  <2>1. log \in Nat /\ log <= log
    BY SMT DEF OnWholeLog
  <2> QED
    BY <1>1, <2>1 DEF DecidedInPast
<1>3. log \in Nat /\ log' \in Nat /\ log <= log'
  BY DEF OnWholeLog
<1> QED
  BY <1>2, <1>3, SMT

\* Permits and cleanup permits are claimed in the order of the graphs they rest
\* on, for any lag of the projections and any number of dispatchers
\* (_require_latest_action_snapshot, _require_latest_cleanup_snapshot).
THEOREM GraphsNeverGoBack == PermitSpec => NoOlderGraphLater
<1> DEFINE InOrder == \A r \in Request :
      /\ permits'[r] # permits[r] => \A n \in DecidedOn : n <= permits'[r].rev
      /\ cleanups'[r] # cleanups[r] => \A n \in DecidedOn : n <= cleanups'[r].rev
<1>1. Init => DecidedInPast
  BY DEF Init, DecidedInPast, DecidedOn, Rows
<1>2. IInv /\ DecidedInPast /\ [Next]_vars => DecidedInPast'
  BY ClaimsOnWholeLog, PastStays
<1>3. ASSUME IInv, DecidedInPast, [Next]_vars PROVE [InOrder]_vars
  <2>1. OnWholeLog
    BY <1>3, ClaimsOnWholeLog
  <2> QED
    BY <1>3, <2>1 DEF OnWholeLog, NewRow, DecidedInPast
<1>4. IInv /\ DecidedInPast /\ [Next]_vars => [InOrder]_vars
  BY <1>3
<1> HIDE DEF InOrder
<1>5. PermitSpec => [][InOrder]_vars
  BY <1>1, <1>2, <1>4, PermitInvariant, PTL DEF PermitSpec
<1> QED
  BY <1>5 DEF InOrder, NoOlderGraphLater

-----------------------------------------------------------------------------
(* Adding up. *)

(* A non-empty set of naturals has a least member. *)
LEMMA LeastElement ==
  ASSUME NEW T, T \subseteq Nat, T # {}
  PROVE  \E m \in T : \A k \in T : m <= k
<1>1. PICK x \in T : \A y \in T : ~(<<y, x>> \in OpToRel(<, Nat))
  BY WFMin, NatLessThanWellFounded
<1>2. \A i, j \in Nat : <<i, j>> \in OpToRel(<, Nat) <=> i < j BY DEF OpToRel
<1>3. x \in Nat /\ \A y \in T : y \in Nat /\ ~(y < x) BY <1>1, <1>2
<1>4. \A y \in T : x <= y BY <1>3, SMT
<1> QED BY <1>4

(* Induction over the naturals, stated of a set. *)
LEMMA SetInduction ==
  ASSUME NEW T, 0 \in T, \A n \in Nat : n \in T => n + 1 \in T
  PROVE  Nat \subseteq T
<1> SUFFICES ASSUME ~(Nat \subseteq T) PROVE FALSE
  OBVIOUS
<1>1. PICK m \in Nat \ T : \A k \in Nat \ T : m <= k BY LeastElement
<1>2. m # 0 /\ m - 1 \in Nat /\ ~(m <= m - 1) BY <1>1, SMT
<1>3. m - 1 \in T BY <1>1, <1>2
<1> QED BY <1>1, <1>2, <1>3, SMT

\* The sum of the weights of the members of S.
Sum(w, S) == MapThenSumSet(LAMBDA x : w[x], S)

Pick(s) == CHOOSE x \in s : TRUE

\* The step of the recursion that adds a set up.
Adds(w, g, s) == IF s = {} THEN 0 ELSE w[Pick(s)] + g[s \ {Pick(s)}]
Adder(w, S) == CHOOSE g : g = [s \in SUBSET S |-> Adds(w, g, s)]

(* Sum is the recursive adder of its set. *)
LEMMA SumIsAdder ==
  ASSUME NEW w, NEW S
  PROVE  Sum(w, S) = Adder(w, S)[S]
BY SMT DEF Sum, MapThenSumSet, MapThenFoldSet, Adder, Adds, Pick

(* What Pick chooses is a member. *)
LEMMA Picked ==
  ASSUME NEW s, s # {}
  PROVE  Pick(s) \in s
BY DEF Pick

\* A smaller set.
LEMMA PickedLess ==
  ASSUME NEW S, IsFiniteSet(S), NEW s \in SUBSET S, NEW x \in s, NEW n \in Nat,
         Cardinality(s) <= n + 1
  PROVE  s \ {x} \in SUBSET S /\ Cardinality(s \ {x}) <= n
<1>1. IsFiniteSet(s) BY FS_Subset
<1>2. Cardinality(s) \in Nat /\ Cardinality(s \ {x}) = Cardinality(s) - 1
  BY <1>1, FS_CardinalityType, FS_RemoveElement
<1>3. Cardinality(s) - 1 <= n BY <1>2, SMT
<1> QED BY <1>2, <1>3

(* The recursion that adds up a finite set has a solution. *)
LEMMA AdderExists ==
  ASSUME NEW w, NEW S, IsFiniteSet(S), \A x \in S : w[x] \in Nat
  PROVE  \E g : g = [s \in SUBSET S |-> Adds(w, g, s)]
<1> DEFINE Right(g, n) == \A s \in SUBSET S : Cardinality(s) <= n => g[s] = Adds(w, g, s)
           T == {n \in Nat : \E g : g = [s \in SUBSET S |-> g[s]] /\ Right(g, n)}
<1>1. 0 \in T
  <2> DEFINE g == [s \in SUBSET S |-> 0]
  <2>1. ASSUME NEW s \in SUBSET S, Cardinality(s) <= 0 PROVE s = {}
    <3>1. IsFiniteSet(s) BY FS_Subset
    <3>2. Cardinality(s) \in Nat BY <3>1, FS_CardinalityType
    <3>3. Cardinality(s) = 0 BY <2>1, <3>2, SMT
    <3> QED BY <3>1, <3>3, FS_EmptySet
  <2>2. \A s \in SUBSET S : g[s] = 0 OBVIOUS
  <2>3. g = [s \in SUBSET S |-> g[s]] OBVIOUS
  <2> HIDE DEF g
  <2>4. Right(g, 0) BY <2>1, <2>2 DEF Adds
  <2>5. 0 \in Nat OBVIOUS
  <2> QED BY <2>3, <2>4, <2>5
<1>2. ASSUME NEW n \in Nat, n \in T PROVE n + 1 \in T
  <2>1. PICK g : g = [s \in SUBSET S |-> g[s]] /\ Right(g, n) BY <1>2
  <2> DEFINE h == [s \in SUBSET S |-> Adds(w, g, s)]
  <2>2. \A s \in SUBSET S : h[s] = Adds(w, g, s) OBVIOUS
  <2>3. h = [s \in SUBSET S |-> h[s]] OBVIOUS
  <2> HIDE DEF h
  <2>4. ASSUME NEW s \in SUBSET S, Cardinality(s) <= n PROVE h[s] = g[s]
    BY <2>1, <2>2, <2>4
  <2>5. ASSUME NEW s \in SUBSET S, Cardinality(s) <= n + 1 PROVE h[s] = Adds(w, h, s)
    <3>1. CASE s = {} BY <2>2, <3>1 DEF Adds
    <3>2. CASE s # {}
      <4>1. Pick(s) \in s BY <3>2, Picked
      <4>2. s \ {Pick(s)} \in SUBSET S /\ Cardinality(s \ {Pick(s)}) <= n
        BY <2>5, <4>1, PickedLess
      <4>3. h[s \ {Pick(s)}] = g[s \ {Pick(s)}] BY <2>4, <4>2
      <4> QED BY <2>2, <3>2, <4>3 DEF Adds
    <3> QED BY <3>1, <3>2
  <2>6. n + 1 \in Nat BY SMT
  <2> QED BY <2>3, <2>5, <2>6
<1> HIDE DEF T
<1>3. Nat \subseteq T BY <1>1, <1>2, SetInduction
<1>4. Cardinality(S) \in T BY <1>3, FS_CardinalityType
<1>5. PICK g : g = [s \in SUBSET S |-> g[s]] /\ Right(g, Cardinality(S)) BY <1>4 DEF T
<1>6. ASSUME NEW s \in SUBSET S PROVE Cardinality(s) <= Cardinality(S)
  BY FS_Subset
<1>7. g = [s \in SUBSET S |-> Adds(w, g, s)] BY <1>5, <1>6
<1> QED BY <1>7

\* The function that adds up the subsets of S satisfies its equation.
LEMMA AdderEquation ==
  ASSUME NEW w, NEW S, IsFiniteSet(S), \A x \in S : w[x] \in Nat, NEW s \in SUBSET S
  PROVE  Adder(w, S)[s] = Adds(w, Adder(w, S), s)
<1> DEFINE g == Adder(w, S)
<1>1. g = [t \in SUBSET S |-> Adds(w, g, t)] BY AdderExists DEF Adder
<1> HIDE DEF g
<1> QED BY <1>1 DEF g

\* On the subsets of B, being started on B or on S makes no difference.
Agrees(w, S, B) ==
  \A s \in SUBSET B : Adder(w, B)[s] = Adder(w, S)[s] /\ Adder(w, S)[s] \in Nat

\* What it says of a set does not depend on the set it was started on.
LEMMA AdderLocal ==
  ASSUME NEW w, NEW S, IsFiniteSet(S), \A x \in S : w[x] \in Nat, NEW B \in SUBSET S
  PROVE  Agrees(w, S, B)
<1> DEFINE Same(s) == Adder(w, B)[s] = Adder(w, S)[s] /\ Adder(w, S)[s] \in Nat
           T == {n \in Nat : \A s \in SUBSET B : Cardinality(s) <= n => Same(s)}
<1>0. IsFiniteSet(B) BY FS_Subset
<1>a. \A s \in SUBSET B : /\ Adder(w, B)[s] = Adds(w, Adder(w, B), s)
                          /\ Adder(w, S)[s] = Adds(w, Adder(w, S), s)
  BY <1>0, AdderEquation
<1>b. Same({})
  <2>1. Adder(w, B)[{}] = 0 /\ Adder(w, S)[{}] = 0 BY <1>a DEF Adds
  <2> QED BY <2>1, SMT
<1>c. \A s \in SUBSET B : IsFiniteSet(s) /\ Cardinality(s) \in Nat
  BY <1>0, FS_Subset, FS_CardinalityType
<1>1. 0 \in T
  <2>1. ASSUME NEW s \in SUBSET B, Cardinality(s) <= 0 PROVE s = {}
    <3>1. Cardinality(s) = 0 BY <1>c, <2>1, SMT
    <3> QED BY <1>c, <3>1, FS_EmptySet
  <2>2. 0 \in Nat OBVIOUS
  <2> HIDE DEF Same
  <2> QED BY <1>b, <2>1, <2>2
<1>2. ASSUME NEW n \in Nat, n \in T PROVE n + 1 \in T
  <2>1. ASSUME NEW s \in SUBSET B, Cardinality(s) <= n + 1 PROVE Same(s)
    <3>1. CASE s = {} BY <1>b, <3>1
    <3>2. CASE s # {}
      <4>1. Pick(s) \in s BY <3>2, Picked
      <4>2. s \ {Pick(s)} \in SUBSET B /\ Cardinality(s \ {Pick(s)}) <= n
        BY <1>0, <2>1, <4>1, PickedLess
      <4>3. Same(s \ {Pick(s)}) BY <1>2, <4>2
      <4>4. w[Pick(s)] \in Nat BY <4>1
      <4>5. /\ Adder(w, B)[s] = w[Pick(s)] + Adder(w, B)[s \ {Pick(s)}]
            /\ Adder(w, S)[s] = w[Pick(s)] + Adder(w, S)[s \ {Pick(s)}]
        BY <1>a, <3>2 DEF Adds
      <4> QED BY <4>3, <4>4, <4>5, SMT
    <3> QED BY <3>1, <3>2
  <2>2. n + 1 \in Nat BY SMT
  <2> QED BY <2>1, <2>2
<1> HIDE DEF T
<1>3. Nat \subseteq T BY <1>1, <1>2, SetInduction
<1>4. ASSUME NEW s \in SUBSET B PROVE Same(s)
  <2>1. Cardinality(s) \in T /\ Cardinality(s) <= Cardinality(s) BY <1>3, <1>c, SMT
  <2> HIDE DEF Same
  <2> QED BY <2>1 DEF T
<1> QED BY <1>4 DEF Agrees

\* The finite sets of members with a weight.
Weighed(w, S) == IsFiniteSet(S) /\ \A x \in S : w[x] \in Nat

\* A sum is 0 of no members, and of others what one of them and the rest add up to.
LEMMA SumStep ==
  ASSUME NEW w, NEW S, Weighed(w, S)
  PROVE  /\ Sum(w, S) \in Nat
         /\ S = {} => Sum(w, S) = 0
         /\ S # {} => Sum(w, S) = w[Pick(S)] + Sum(w, S \ {Pick(S)})
<1>0. IsFiniteSet(S) /\ \A x \in S : w[x] \in Nat BY DEF Weighed
<1>1. Sum(w, S) = Adder(w, S)[S] BY SumIsAdder
<1>2. Adder(w, S)[S] \in Nat
  <2>1. Agrees(w, S, S) BY <1>0, AdderLocal
  <2> QED BY <2>1 DEF Agrees
<1>3. Adder(w, S)[S] = Adds(w, Adder(w, S), S) BY AdderEquation DEF Weighed
<1>5. ASSUME NEW Q \in SUBSET S PROVE Adder(w, Q)[Q] = Adder(w, S)[Q]
  <2>1. Agrees(w, S, Q) BY <1>0, AdderLocal
  <2> QED BY <2>1 DEF Agrees
<1>4. ASSUME S # {} PROVE Sum(w, S) = w[Pick(S)] + Sum(w, S \ {Pick(S)})
  <2> DEFINE R == S \ {Pick(S)}
  <2>1. R \in SUBSET S OBVIOUS
  <2>2. Adder(w, R)[R] = Adder(w, S)[R] BY <1>5, <2>1
  <2>3. Sum(w, R) = Adder(w, R)[R] BY SumIsAdder
  <2>4. Adder(w, S)[S] = w[Pick(S)] + Adder(w, S)[R] BY <1>3, <1>4 DEF Adds
  <2> HIDE DEF R
  <2>5. Sum(w, S) = w[Pick(S)] + Sum(w, R) BY <1>1, <2>2, <2>3, <2>4
  <2> QED BY <2>5 DEF R
<1> QED BY <1>1, <1>2, <1>3, <1>4 DEF Adds

\* The member x and the rest of S add up to S.
Splits(w, S, x) == Sum(w, S) = w[x] + Sum(w, S \ {x})

\* Whichever member is taken out.
LEMMA SumOut ==
  ASSUME NEW w, NEW S, Weighed(w, S), NEW x \in S
  PROVE  Splits(w, S, x)
<1> DEFINE Out(s) == \A y \in s : Splits(w, s, y)
           T == {n \in Nat : \A s \in SUBSET S : Cardinality(s) <= n => Out(s)}
<1>a. \A s \in SUBSET S : IsFiniteSet(s) /\ Cardinality(s) \in Nat
  BY FS_Subset, FS_CardinalityType DEF Weighed
<1>c. \A s \in SUBSET S : Weighed(w, s)
  BY <1>a DEF Weighed
<1>d. \A s \in SUBSET S : Sum(w, s) \in Nat
                           /\ (s # {} => Sum(w, s) = w[Pick(s)] + Sum(w, s \ {Pick(s)}))
  BY <1>c, SumStep
<1>1. 0 \in T
  <2>1. ASSUME NEW s \in SUBSET S, Cardinality(s) <= 0 PROVE s = {}
    <3>1. Cardinality(s) = 0 BY <1>a, <2>1, SMT
    <3> QED BY <1>a, <3>1, FS_EmptySet
  <2>2. 0 \in Nat OBVIOUS
  <2>3. Out({}) OBVIOUS
  <2> HIDE DEF Out
  <2> QED BY <2>1, <2>2, <2>3
<1>2. ASSUME NEW n \in Nat, n \in T PROVE n + 1 \in T
  <2>1. ASSUME NEW s \in SUBSET S, Cardinality(s) <= n + 1, NEW y \in s
        PROVE  Splits(w, s, y)
    <3> DEFINE p == Pick(s)
    <3>1. p \in s /\ Sum(w, s) = w[p] + Sum(w, s \ {p}) BY <1>d, Picked
    <3> HIDE DEF p
    <3>2. CASE p = y BY <3>1, <3>2 DEF Splits
    <3>3. CASE p # y
      <4>1. /\ s \ {p} \in SUBSET S /\ Cardinality(s \ {p}) <= n
            /\ s \ {y} \in SUBSET S /\ Cardinality(s \ {y}) <= n
        BY <2>1, <3>1, PickedLess DEF Weighed
      <4>2. Out(s \ {p}) /\ Out(s \ {y}) BY <1>2, <4>1
      <4>3. y \in s \ {p} /\ p \in s \ {y} /\ (s \ {p}) \ {y} = (s \ {y}) \ {p}
        BY <3>1, <3>3
      <4> DEFINE rest == (s \ {y}) \ {p}
      <4>4. Sum(w, s \ {p}) = w[y] + Sum(w, rest) /\ Sum(w, s \ {y}) = w[p] + Sum(w, rest)
        BY <4>2, <4>3 DEF Splits
      <4>5. Sum(w, rest) \in Nat /\ w[y] \in Nat /\ w[p] \in Nat
        BY <1>d, <3>1 DEF Weighed
      <4> HIDE DEF rest
      <4>6. Sum(w, s) = w[y] + Sum(w, s \ {y}) BY <3>1, <4>4, <4>5, SMT
      <4> QED BY <4>6 DEF Splits
    <3> QED BY <3>2, <3>3
  <2>2. n + 1 \in Nat BY SMT
  <2> QED BY <2>1, <2>2
<1> HIDE DEF T
<1>3. Nat \subseteq T BY <1>1, <1>2, SetInduction
<1>4. Cardinality(S) \in T /\ Cardinality(S) <= Cardinality(S) BY <1>3, <1>a, SMT
<1> QED BY <1>4 DEF T

Joins(w, S, x) == Sum(w, S \cup {x}) = w[x] + Sum(w, S)

\* A member more adds its weight.
LEMMA SumIn ==
  ASSUME NEW w, NEW S, Weighed(w, S),
         NEW x, x \notin S, w[x] \in Nat
  PROVE  Joins(w, S, x)
<1> DEFINE A == S \cup {x}
<1>1. IsFiniteSet(A) BY FS_AddElement DEF Weighed
<1>2. A \ {x} = S /\ x \in A OBVIOUS
<1>4. Weighed(w, A) BY <1>1 DEF Weighed
<1> HIDE DEF A
<1>3. Splits(w, A, x) BY <1>2, <1>4, SumOut
<1> QED BY <1>2, <1>3 DEF A, Splits, Joins

\* A part adds up to no more than the whole.
LEMMA SumPart ==
  ASSUME NEW w, NEW S, Weighed(w, S), NEW A \in SUBSET S
  PROVE  Sum(w, A) <= Sum(w, S)
<1> DEFINE T == {n \in Nat : \A s \in SUBSET S : Cardinality(s) <= n /\ A \subseteq s =>
                               Sum(w, A) <= Sum(w, s)}
<1>a. \A s \in SUBSET S : IsFiniteSet(s) /\ Cardinality(s) \in Nat
  BY FS_Subset, FS_CardinalityType DEF Weighed
<1>c. \A s \in SUBSET S : Weighed(w, s)
  BY <1>a DEF Weighed
<1>d. \A s \in SUBSET S : Sum(w, s) \in Nat
  BY <1>c, SumStep
<1>b. Sum(w, A) <= Sum(w, A) BY <1>d, SMT
<1>1. 0 \in T
  <2>1. ASSUME NEW s \in SUBSET S, Cardinality(s) <= 0 PROVE s = {}
    <3>1. Cardinality(s) = 0 BY <1>a, <2>1, SMT
    <3> QED BY <1>a, <3>1, FS_EmptySet
  <2>2. 0 \in Nat OBVIOUS
  <2>3. ASSUME NEW s \in SUBSET S, Cardinality(s) <= 0, A \subseteq s PROVE s = A
    BY <2>1, <2>3
  <2> QED BY <1>b, <2>2, <2>3
<1>2. ASSUME NEW n \in Nat, n \in T PROVE n + 1 \in T
  <2>1. ASSUME NEW s \in SUBSET S, Cardinality(s) <= n + 1, A \subseteq s
        PROVE  Sum(w, A) <= Sum(w, s)
    <3>1. CASE A = s BY <1>b, <3>1
    <3>2. CASE A # s
      <4>1. PICK y \in s : y \notin A BY <2>1, <3>2
      <4>2. s \ {y} \in SUBSET S /\ Cardinality(s \ {y}) <= n
        BY <2>1, PickedLess DEF Weighed
      <4>3. A \subseteq s \ {y} BY <2>1, <4>1
      <4>4. Sum(w, A) <= Sum(w, s \ {y}) BY <1>2, <4>2, <4>3
      <4>5. Splits(w, s, y) BY <1>c, SumOut
      <4>6. Sum(w, A) \in Nat /\ Sum(w, s \ {y}) \in Nat /\ w[y] \in Nat BY <1>d, <4>2 DEF Weighed
      <4> QED BY <4>4, <4>5, <4>6, SMT DEF Splits
    <3> QED BY <3>1, <3>2
  <2>2. n + 1 \in Nat BY SMT
  <2> QED BY <2>1, <2>2
<1> HIDE DEF T
<1>3. Nat \subseteq T BY <1>1, <1>2, SetInduction
<1>4. Cardinality(S) \in T /\ Cardinality(S) <= Cardinality(S) BY <1>3, <1>a, SMT
<1> QED BY <1>4 DEF T

-----------------------------------------------------------------------------
(* The budgets of the envelope. *)

\* What a window that ends at t has to pay for: the actions decided in it, and
\* the holds made by then whose cleanup may still be claimed in it, or was.
ActionsIn(t) == {r \in Rows(permits) : permits[r].at <= t /\ permits[r].at > t - WindowSeconds}
HoldsIn(t) ==
  {r \in Rows(holds) :
     holds[r].at <= t /\ (cleanups[r] # None => cleanups[r].at > t - WindowSeconds)}

\* A hold comes with the permit of a reversible action, and a cleanup permit
\* claims a hold, no earlier than it was made.
HoldsMatch ==
  \A r \in Request :
    /\ holds[r] # None <=> permits[r] # None /\ r \in Reversible
    /\ holds[r] # None => holds[r].at = permits[r].at
    /\ cleanups[r] # None => holds[r] # None /\ holds[r].at <= cleanups[r].at

BudgetInv ==
  /\ IInv
  /\ holds \in [Request -> Held \cup {None}] /\ HoldsMatch
  /\ IsFiniteSet(Rows(permits))
  /\ UnitsOf(Rows(permits)) + HoldUnitsOf(Rows(holds)) <= UnitLimit
  /\ \A t \in Nat : UnitsOf(ActionsIn(t)) + HoldUnitsOf(HoldsIn(t)) <= WindowLimit

\* The sums of the model are sums of weights.
LEMMA SumsOfUnits ==
  /\ \A S : UnitsOf(S) = Sum(Units, S) /\ HoldUnitsOf(S) = Sum(HoldUnits, S)
  /\ \A S : IsFiniteSet(S) /\ S \subseteq Request => Weighed(Units, S)
  /\ \A S : IsFiniteSet(S) /\ S \subseteq Reversible => Weighed(HoldUnits, S)
<1>1. \A S : UnitsOf(S) = Sum(Units, S) /\ HoldUnitsOf(S) = Sum(HoldUnits, S)
  BY DEF UnitsOf, HoldUnitsOf, Sum
<1>2. (\A r \in Request : Units[r] \in Nat) /\ (\A r \in Reversible : HoldUnits[r] \in Nat)
  BY PermitAssumption
<1> QED BY <1>1, <1>2 DEF Weighed

\* What the units of a finite set of requests are.
LEMMA UnitsFacts ==
  ASSUME NEW S \in SUBSET Request, IsFiniteSet(S)
  PROVE  /\ UnitsOf(S) \in Nat
         /\ \A A \in SUBSET S : IsFiniteSet(A) /\ UnitsOf(A) \in Nat /\ UnitsOf(A) <= UnitsOf(S)
         /\ \A r \in Request \ S : UnitsOf(S \cup {r}) = Units[r] + UnitsOf(S)
<1>1. Weighed(Units, S) BY SumsOfUnits
<1>2. ASSUME NEW A \in SUBSET S PROVE IsFiniteSet(A) /\ Weighed(Units, A)
  BY <1>1, FS_Subset DEF Weighed
<1>3. UnitsOf(S) \in Nat BY <1>1, SumStep, SumsOfUnits
<1>4. ASSUME NEW A \in SUBSET S PROVE UnitsOf(A) \in Nat /\ UnitsOf(A) <= UnitsOf(S)
  BY <1>1, <1>2, SumStep, SumPart, SumsOfUnits
<1>5. ASSUME NEW r \in Request \ S PROVE UnitsOf(S \cup {r}) = Units[r] + UnitsOf(S)
  <2>1. Units[r] \in Nat BY PermitAssumption
  <2>2. Joins(Units, S, r) BY <1>1, <2>1, SumIn
  <2> QED BY <2>2, SumsOfUnits DEF Joins
<1> QED BY <1>2, <1>3, <1>4, <1>5

\* The hold of a request, when it has one.
HoldOf(r) == IF r \in Reversible THEN HoldUnits[r] ELSE 0

\* The same of the units of holds.
LEMMA HoldFacts ==
  ASSUME NEW S \in SUBSET Reversible, IsFiniteSet(S)
  PROVE  /\ HoldUnitsOf(S) \in Nat
         /\ \A A \in SUBSET S : IsFiniteSet(A) /\ HoldUnitsOf(A) \in Nat /\ HoldUnitsOf(A) <= HoldUnitsOf(S)
         /\ \A r \in Request \ S : HoldUnitsOf(S \cup ({r} \cap Reversible)) = HoldOf(r) + HoldUnitsOf(S)
<1>1. Weighed(HoldUnits, S) BY SumsOfUnits
<1>2. ASSUME NEW A \in SUBSET S PROVE IsFiniteSet(A) /\ Weighed(HoldUnits, A)
  BY <1>1, FS_Subset DEF Weighed
<1>3. HoldUnitsOf(S) \in Nat BY <1>1, SumStep, SumsOfUnits
<1>4. ASSUME NEW A \in SUBSET S PROVE HoldUnitsOf(A) \in Nat /\ HoldUnitsOf(A) <= HoldUnitsOf(S)
  BY <1>1, <1>2, SumStep, SumPart, SumsOfUnits
<1>5. ASSUME NEW r \in Request \ S
      PROVE  HoldUnitsOf(S \cup ({r} \cap Reversible)) = HoldOf(r) + HoldUnitsOf(S)
  <2>1. CASE r \in Reversible
    <3>1. HoldUnits[r] \in Nat /\ HoldOf(r) = HoldUnits[r] BY <2>1, PermitAssumption DEF HoldOf
    <3>2. Joins(HoldUnits, S, r) BY <1>1, <3>1, SumIn
    <3>3. S \cup ({r} \cap Reversible) = S \cup {r} BY <2>1
    <3> QED BY <3>1, <3>2, <3>3, SumsOfUnits DEF Joins
  <2>2. CASE r \notin Reversible
    <3>1. S \cup ({r} \cap Reversible) = S /\ HoldOf(r) = 0 BY <2>2 DEF HoldOf
    <3>2. 0 + HoldUnitsOf(S) = HoldUnitsOf(S) BY <1>3, SMT
    <3> QED BY <3>1, <3>2
  <2> QED BY <2>1, <2>2
<1> QED BY <1>2, <1>3, <1>4, <1>5

\* What a new claim of an action permit was checked against, and what it
\* writes.
GrantTaken(r, row) ==
  /\ permits[r] = None /\ permits' = [permits EXCEPT ![r] = row]
  /\ holds' = IF r \in Reversible THEN [holds EXCEPT ![r] = [at |-> row.at]] ELSE holds
  /\ RequireAggregateBudget(r, row.at)

(* A dispatch authorization commits nothing or exactly one grant row, with *)
(* its cleanup holds.                                                      *)
LEMMA ConsumeTakes ==
  ASSUME PermitTypeOK, NEW p \in Dispatcher,
         \/ AuthorizeForDispatch(p) \/ AuthorizeApproved(p)
         \/ AuthorizeReversible(p) \/ AuthorizeApprovedReversible(p)
  PROVE  /\ UNCHANGED <<cleanups, acted>>
         /\ UNCHANGED <<permits, holds>> \/ \E r \in Request, row \in Claimed : GrantTaken(r, row)
<1>0. proc[p].phase = "authorize"
  BY DEF AuthorizeForDispatch, AuthorizeApproved, AuthorizeReversible, AuthorizeApprovedReversible
<1>1. PICK r \in Request : r = proc[p].req BY <1>0, CallOf
<1>2. proc[p].rev \in Nat /\ proc[p].at \in Nat BY <1>0, CallOf
<1>3. PICK e \in Nat : e = Min({EnvelopeExpiry, proc[p].at + PermitTTL})
  <2>1. EnvelopeExpiry \in Nat /\ proc[p].at + PermitTTL \in Nat BY <1>2, Times, SMT
  <2> QED BY <2>1, Expires
<1>4. PICK row \in Claimed : row = [rev |-> proc[p].rev, at |-> proc[p].at, expires |-> e]
  BY <1>2, <1>3 DEF Claimed
<1>5. row.at = proc[p].at BY <1>4
<1>6. ASSUME NEW valid, Consume(p, valid)
      PROVE  UNCHANGED <<cleanups, acted>> /\ (UNCHANGED <<permits, holds>> \/ GrantTaken(r, row))
  <2>1. UNCHANGED <<cleanups, acted>> BY <1>6 DEF Consume
  <2>2. CASE UNCHANGED <<permits, holds>> BY <2>1, <2>2
  <2>3. CASE ~UNCHANGED <<permits, holds>>
    <3>1. /\ permits[r] = None /\ RequireAggregateBudget(r, proc[p].at)
          /\ permits' = [permits EXCEPT ![r] = [rev |-> proc[p].rev, at |-> proc[p].at, expires |-> e]]
          /\ holds' = IF r \in Reversible THEN [holds EXCEPT ![r] = [at |-> proc[p].at]] ELSE holds
      BY <1>1, <1>3, <1>6, <2>3 DEF Consume
    <3> QED BY <1>4, <1>5, <2>1, <3>1 DEF GrantTaken
  <2> QED BY <2>2, <2>3
<1>7. \E valid : Consume(p, valid)
  BY DEF AuthorizeForDispatch, AuthorizeApproved, AuthorizeReversible, AuthorizeApprovedReversible
<1> QED BY <1>6, <1>7

\* The same of the claim of a hold.
HoldClaimed(r, row) ==
  /\ cleanups[r] = None /\ holds[r] # None /\ permits[r].at <= row.at
  /\ cleanups' = [cleanups EXCEPT ![r] = row]

(* A cleanup authorization commits nothing or claims exactly one held row. *)
LEMMA CleanupTakes ==
  ASSUME PermitTypeOK, NEW p \in Dispatcher, AuthorizeCleanup(p)
  PROVE  /\ UNCHANGED <<permits, holds, acted>>
         /\ UNCHANGED cleanups \/ \E r \in Request, row \in Claimed : HoldClaimed(r, row)
<1>0. proc[p].phase = "authorize_cleanup" BY DEF AuthorizeCleanup
<1>1. PICK r \in Request : r = proc[p].req BY <1>0, CallOf
<1>2. proc[p].rev \in Nat /\ proc[p].at \in Nat /\ r \in Reversible BY <1>0, <1>1, CallOf
<1>3. PICK e \in Nat : e = Min({EnvelopeExpiry, ClaimExpiry[r], proc[p].at + PermitTTL})
  <2>1. ClaimExpiry[r] \in Nat BY <1>2, PermitAssumption, SMT
  <2>2. EnvelopeExpiry \in Nat /\ proc[p].at + PermitTTL \in Nat BY <1>2, Times, SMT
  <2> QED BY <2>1, <2>2, Expires
<1>4. PICK row \in Claimed : row = [rev |-> proc[p].rev, at |-> proc[p].at, expires |-> e]
  BY <1>2, <1>3 DEF Claimed
<1>5. row.at = proc[p].at BY <1>4
<1>6. UNCHANGED <<permits, holds, acted>> BY DEF AuthorizeCleanup
<1>7. CASE UNCHANGED cleanups BY <1>6, <1>7
<1>8. CASE ~UNCHANGED cleanups
  <2>1. /\ cleanups[r] = None /\ holds[r] # None /\ permits[r].at <= proc[p].at
        /\ cleanups' = [cleanups EXCEPT ![r] = [rev |-> proc[p].rev, at |-> proc[p].at, expires |-> e]]
    BY <1>1, <1>3, <1>8 DEF AuthorizeCleanup
  <2> QED BY <1>4, <1>5, <1>6, <2>1 DEF HoldClaimed
<1> QED BY <1>7, <1>8

\* The tables and the sets of requests that are summed.
LEMMA BudgetTypes ==
  ASSUME BudgetInv
  PROVE  /\ \A r \in Request : /\ permits[r] # None => permits[r] \in Claimed /\ permits[r].at \in Nat
                               /\ cleanups[r] # None => cleanups[r] \in Claimed /\ cleanups[r].at \in Nat
                               /\ holds[r] # None => holds[r].at \in Nat
         /\ Rows(permits) \in SUBSET Request /\ IsFiniteSet(Rows(permits))
         /\ Rows(holds) \in SUBSET Reversible /\ IsFiniteSet(Rows(holds))
         /\ WindowSeconds \in Nat /\ WindowLimit \in Nat /\ UnitLimit \in Nat
<1>1. /\ permits \in [Request -> Claimed \cup {None}] /\ cleanups \in [Request -> Claimed \cup {None}]
      /\ holds \in [Request -> Held \cup {None}]
  BY DEF BudgetInv, IInv, PermitTypeOK
<1>2. (\A row \in Claimed : row.at \in Nat) /\ (\A row \in Held : row.at \in Nat) BY DEF Claimed, Held
<1>3. Rows(permits) \in SUBSET Request BY DEF Rows
<1>4. Rows(holds) \in SUBSET Reversible /\ Rows(holds) \subseteq Rows(permits)
  BY DEF Rows, BudgetInv, HoldsMatch
<1>5. IsFiniteSet(Rows(permits)) /\ IsFiniteSet(Rows(holds)) BY <1>4, FS_Subset DEF BudgetInv
<1>6. WindowSeconds \in Nat /\ WindowLimit \in Nat /\ UnitLimit \in Nat BY PermitAssumption
<1> QED BY <1>1, <1>2, <1>3, <1>4, <1>5, <1>6

\* A claim adds one row to the permits, and one to the holds where there is one.
LEMMA GrantRows ==
  ASSUME BudgetInv, NEW r \in Request, NEW row \in Claimed, GrantTaken(r, row)
  PROVE  /\ r \notin Rows(permits) /\ r \notin Rows(holds) /\ cleanups[r] = None
         /\ permits'[r] = row /\ \A q \in Request \ {r} : permits'[q] = permits[q] /\ holds'[q] = holds[q]
         /\ r \in Reversible => holds'[r].at = row.at /\ holds'[r] # None
         /\ r \notin Reversible => holds'[r] = None
         /\ Rows(permits') = Rows(permits) \cup {r}
         /\ Rows(holds') = Rows(holds) \cup ({r} \cap Reversible)
         /\ holds' \in [Request -> Held \cup {None}]
<1>0. /\ permits \in [Request -> Claimed \cup {None}] /\ holds \in [Request -> Held \cup {None}]
      /\ permits[r] = None /\ row # None /\ None \notin Held
  BY PermitAssumption DEF BudgetInv, IInv, PermitTypeOK, GrantTaken
<1>1. holds[r] = None /\ cleanups[r] = None BY <1>0 DEF BudgetInv, HoldsMatch
<1>2. permits'[r] = row /\ \A q \in Request \ {r} : permits'[q] = permits[q] BY <1>0 DEF GrantTaken
<1>3. [at |-> row.at] \in Held /\ [at |-> row.at].at = row.at BY DEF Claimed, Held
<1>4. /\ \A q \in Request \ {r} : holds'[q] = holds[q]
      /\ r \in Reversible => holds'[r] = [at |-> row.at]
      /\ r \notin Reversible => holds'[r] = None
      /\ holds' \in [Request -> Held \cup {None}]
  <2>1. CASE r \in Reversible
    <3>1. holds' = [holds EXCEPT ![r] = [at |-> row.at]] BY <2>1 DEF GrantTaken
    <3> QED BY <1>0, <1>3, <2>1, <3>1
  <2>2. CASE r \notin Reversible
    <3>1. holds' = holds BY <2>2 DEF GrantTaken
    <3> QED BY <1>0, <1>1, <2>2, <3>1
  <2> QED BY <2>1, <2>2
<1>5. r \in Reversible => holds'[r].at = row.at /\ holds'[r] # None BY <1>0, <1>3, <1>4
<1>6. Rows(permits') = Rows(permits) \cup {r} BY <1>0, <1>2 DEF Rows
<1>7. Rows(holds') = Rows(holds) \cup ({r} \cap Reversible) BY <1>1, <1>4, <1>5 DEF Rows
<1> QED BY <1>0, <1>1, <1>2, <1>4, <1>5, <1>6, <1>7 DEF Rows

\* What a claim was checked against, added up.
LEMMA GrantSums ==
  ASSUME BudgetInv, NEW r \in Request, NEW row \in Claimed, GrantTaken(r, row), UNCHANGED cleanups
  PROVE  /\ UnitsOf(Rows(permits')) + HoldUnitsOf(Rows(holds')) <= UnitLimit
         /\ \A A \in SUBSET (Rows(permits) \cup {r}), H \in SUBSET (Rows(holds) \cup ({r} \cap Reversible)) :
              /\ \A q \in A \ {r} : permits[q].at > row.at - WindowSeconds
              /\ \A q \in H \ {r} : cleanups[q] # None => cleanups[q].at > row.at - WindowSeconds
              => UnitsOf(A) + HoldUnitsOf(H) <= WindowLimit
<1> DEFINE P == Rows(permits)
           Q == Rows(holds)
           PW == {q \in P : permits[q].at > row.at - WindowSeconds}
           QW == {q \in Q : cleanups[q] # None => cleanups[q].at > row.at - WindowSeconds}
<1>0. /\ P \in SUBSET Request /\ IsFiniteSet(P) /\ Q \in SUBSET Reversible /\ IsFiniteSet(Q)
      /\ PW \in SUBSET P /\ QW \in SUBSET Q /\ r \notin P /\ r \notin Q /\ WindowLimit \in Nat
      /\ UnitLimit \in Nat
  BY BudgetTypes, GrantRows
<1>1. /\ UnitsOf(P) + HoldUnitsOf(Q) + NewUnits(r) <= UnitLimit
      /\ UnitsOf(PW) + HoldUnitsOf(QW) + NewUnits(r) <= WindowLimit
  BY DEF GrantTaken, RequireAggregateBudget, WindowUnits
<1>2. Rows(permits') = P \cup {r} /\ Rows(holds') = Q \cup ({r} \cap Reversible) BY GrantRows
<1> HIDE DEF P, Q
<1>3. PW \in SUBSET Request /\ IsFiniteSet(PW) /\ QW \in SUBSET Reversible /\ IsFiniteSet(QW)
      /\ r \notin PW /\ r \notin QW
  BY <1>0, FS_Subset
<1>4. Units[r] \in Nat /\ HoldOf(r) \in Nat /\ NewUnits(r) = Units[r] + HoldOf(r)
  BY PermitAssumption DEF HoldOf, NewUnits
<1>5. /\ UnitsOf(P) \in Nat /\ UnitsOf(P \cup {r}) = Units[r] + UnitsOf(P)
      /\ HoldUnitsOf(Q) \in Nat
      /\ HoldUnitsOf(Q \cup ({r} \cap Reversible)) = HoldOf(r) + HoldUnitsOf(Q)
  BY <1>0, UnitsFacts, HoldFacts
<1>6. UnitsOf(P \cup {r}) + HoldUnitsOf(Q \cup ({r} \cap Reversible)) <= UnitLimit
  BY <1>0, <1>1, <1>4, <1>5, SMT
<1> HIDE DEF PW, QW
<1>7. /\ UnitsOf(PW) \in Nat /\ UnitsOf(PW \cup {r}) = Units[r] + UnitsOf(PW)
      /\ HoldUnitsOf(QW) \in Nat
      /\ HoldUnitsOf(QW \cup ({r} \cap Reversible)) = HoldOf(r) + HoldUnitsOf(QW)
  BY <1>3, UnitsFacts, HoldFacts
<1>8. UnitsOf(PW \cup {r}) + HoldUnitsOf(QW \cup ({r} \cap Reversible)) <= WindowLimit
  BY <1>0, <1>1, <1>4, <1>7, SMT
<1>9. ASSUME NEW A \in SUBSET (P \cup {r}), NEW H \in SUBSET (Q \cup ({r} \cap Reversible)),
             \A q \in A \ {r} : permits[q].at > row.at - WindowSeconds,
             \A q \in H \ {r} : cleanups[q] # None => cleanups[q].at > row.at - WindowSeconds
      PROVE  UnitsOf(A) + HoldUnitsOf(H) <= WindowLimit
  <2> DEFINE PR == PW \cup {r}
             QR == QW \cup ({r} \cap Reversible)
  <2>1. A \in SUBSET PR /\ PR \in SUBSET Request BY <1>3, <1>9 DEF PW
  <2>2. H \in SUBSET QR /\ QR \in SUBSET Reversible
    <3>1. ASSUME NEW q \in H PROVE q \in QR
      <4>1. CASE q = r BY <1>0, <4>1
      <4>2. CASE q # r
        <5>1. q \in Q /\ (cleanups[q] # None => cleanups[q].at > row.at - WindowSeconds) BY <1>9, <4>2
        <5>2. q \in QW BY <5>1 DEF QW
        <5> QED BY <5>2
      <4> QED BY <4>1, <4>2
    <3>2. QR \in SUBSET Reversible BY <1>3
    <3> QED BY <3>1, <3>2
  <2>3. IsFiniteSet(PR) BY <1>3, FS_AddElement
  <2>4. IsFiniteSet(QR)
    <3> DEFINE more == QW \cup {r}
    <3>1. IsFiniteSet(more) BY <1>3, FS_AddElement
    <3>2. QR \in SUBSET more OBVIOUS
    <3> HIDE DEF more, QR
    <3> QED BY <3>1, <3>2, FS_Subset
  <2>5. UnitsOf(PR) + HoldUnitsOf(QR) <= WindowLimit BY <1>8
  <2> HIDE DEF PR, QR
  <2>6. UnitsOf(PR) \in Nat /\ UnitsOf(A) \in Nat /\ UnitsOf(A) <= UnitsOf(PR) BY <2>1, <2>3, UnitsFacts
  <2>7. HoldUnitsOf(QR) \in Nat /\ HoldUnitsOf(H) \in Nat /\ HoldUnitsOf(H) <= HoldUnitsOf(QR)
    BY <2>2, <2>4, HoldFacts
  <2> QED BY <1>0, <2>5, <2>6, <2>7, SMT
<1> QED BY <1>2, <1>6, <1>9 DEF P, Q

\* The claim of an action permit keeps the budgets: for a window that ends
\* before the decision nothing is new, and for a later one the check added up
\* at least what is in it.
LEMMA GrantKeepsBudget ==
  ASSUME BudgetInv, IInv', NEW r \in Request, NEW row \in Claimed, GrantTaken(r, row),
         UNCHANGED cleanups
  PROVE  BudgetInv'
<1>0. row.at \in Nat /\ WindowSeconds \in Nat BY BudgetTypes DEF Claimed
<1>1. /\ permits'[r] = row /\ cleanups[r] = None /\ r \notin Rows(permits) /\ r \notin Rows(holds)
      /\ \A q \in Request \ {r} : permits'[q] = permits[q] /\ holds'[q] = holds[q]
      /\ r \in Reversible => holds'[r].at = row.at /\ holds'[r] # None
      /\ r \notin Reversible => holds'[r] = None
  BY GrantRows
<1>2. /\ Rows(permits') = Rows(permits) \cup {r}
      /\ Rows(holds') = Rows(holds) \cup ({r} \cap Reversible)
  BY GrantRows
<1>3. HoldsMatch'
  <2> SUFFICES ASSUME NEW q \in Request PROVE HoldsMatch!(q)' BY DEF HoldsMatch
  <2>1. CASE q = r
    <3>1. row # None BY PermitAssumption
    <3> QED BY <1>1, <2>1, <3>1
  <2>2. CASE q # r BY <1>1, <2>2 DEF BudgetInv, HoldsMatch
  <2> QED BY <2>1, <2>2
<1>4. IsFiniteSet(Rows(permits)')
  <2>1. IsFiniteSet(Rows(permits) \cup {r}) BY FS_AddElement DEF BudgetInv
  <2> QED BY <1>2, <2>1 DEF Rows
<1>5. ASSUME NEW t \in Nat PROVE (UnitsOf(ActionsIn(t)) + HoldUnitsOf(HoldsIn(t)) <= WindowLimit)'
  <2>1. CASE t < row.at
    <3>1. ~(row.at <= t) BY <1>0, <2>1, SMT
    <3>2. ActionsIn(t)' = ActionsIn(t) BY <1>1, <1>2, <3>1 DEF ActionsIn, Rows
    <3>3. HoldsIn(t)' = HoldsIn(t) BY <1>1, <1>2, <3>1 DEF HoldsIn, Rows
    <3> QED BY <3>2, <3>3 DEF BudgetInv, UnitsOf, HoldUnitsOf, MapThenSumSet, MapThenFoldSet
  <2>2. CASE ~(t < row.at)
    <3>1. /\ ActionsIn(t)' \in SUBSET (Rows(permits) \cup {r})
          /\ HoldsIn(t)' \in SUBSET (Rows(holds) \cup ({r} \cap Reversible))
      BY <1>2 DEF ActionsIn, HoldsIn, Rows
    <3>2. ASSUME NEW n \in Nat, n > t - WindowSeconds PROVE n > row.at - WindowSeconds
      BY <1>0, <2>2, <3>2, SMT
    <3>3. ASSUME NEW q \in ActionsIn(t)' \ {r} PROVE permits[q].at > row.at - WindowSeconds
      <4>1. q \in Request /\ permits[q] # None /\ permits[q].at > t - WindowSeconds
        BY <1>1, <3>3 DEF ActionsIn, Rows
      <4> QED BY <3>2, <4>1, BudgetTypes
    <3>4. ASSUME NEW q \in HoldsIn(t)' \ {r}, cleanups[q] # None
          PROVE  cleanups[q].at > row.at - WindowSeconds
      <4>1. q \in Request /\ cleanups[q].at > t - WindowSeconds BY <3>4 DEF HoldsIn, Rows
      <4> QED BY <3>2, <3>4, <4>1, BudgetTypes
    <3>5. UnitsOf(ActionsIn(t)') + HoldUnitsOf(HoldsIn(t)') <= WindowLimit BY <3>1, <3>3, <3>4, GrantSums
    <3> QED BY <3>5 DEF UnitsOf, HoldUnitsOf, MapThenSumSet, MapThenFoldSet
  <2> QED BY <2>1, <2>2
<1>6. (UnitsOf(Rows(permits)) + HoldUnitsOf(Rows(holds)) <= UnitLimit)'
  BY GrantSums DEF UnitsOf, HoldUnitsOf, Rows, MapThenSumSet, MapThenFoldSet
<1>7. holds' \in [Request -> Held \cup {None}] BY GrantRows
<1> QED BY <1>3, <1>4, <1>5, <1>6, <1>7 DEF BudgetInv

\* The claim of a hold: a hold counts as long as it is not claimed, so that no
\* window gets anything more to pay for.
LEMMA ClaimKeepsBudget ==
  ASSUME BudgetInv, IInv', NEW r \in Request, NEW row \in Claimed, HoldClaimed(r, row),
         UNCHANGED <<permits, holds>>
  PROVE  BudgetInv'
<1>1. /\ cleanups'[r] = row /\ cleanups[r] = None /\ \A q \in Request \ {r} : cleanups'[q] = cleanups[q]
      /\ holds[r] # None /\ holds[r].at <= row.at
  BY DEF HoldClaimed, BudgetInv, IInv, PermitTypeOK, HoldsMatch
<1>2. HoldsMatch'
  <2> SUFFICES ASSUME NEW q \in Request PROVE HoldsMatch!(q)' BY DEF HoldsMatch
  <2>1. CASE q = r BY <1>1, <2>1 DEF BudgetInv, HoldsMatch
  <2>2. CASE q # r BY <1>1, <2>2 DEF BudgetInv, HoldsMatch
  <2> QED BY <2>1, <2>2
<1>3. Rows(permits)' = Rows(permits) /\ Rows(holds)' = Rows(holds) BY DEF Rows
<1>4. ASSUME NEW t \in Nat PROVE (UnitsOf(ActionsIn(t)) + HoldUnitsOf(HoldsIn(t)) <= WindowLimit)'
  <2>1. ActionsIn(t)' = ActionsIn(t) BY DEF ActionsIn, Rows
  <2>2. HoldsIn(t)' \in SUBSET HoldsIn(t)
    <3> SUFFICES ASSUME NEW q \in HoldsIn(t)' PROVE q \in HoldsIn(t) OBVIOUS
    <3>1. CASE q = r BY <1>1, <3>1 DEF HoldsIn, Rows
    <3>2. CASE q # r BY <1>1, <3>2 DEF HoldsIn, Rows
    <3> QED BY <3>1, <3>2
  <2>3. /\ HoldsIn(t) \in SUBSET Rows(holds) /\ ActionsIn(t) \in SUBSET Rows(permits)
    BY DEF HoldsIn, ActionsIn
  <2>4. /\ UnitsOf(ActionsIn(t)) \in Nat
        /\ IsFiniteSet(HoldsIn(t)) /\ HoldsIn(t) \in SUBSET Reversible
    BY <2>3, BudgetTypes, UnitsFacts, HoldFacts
  <2>5. /\ HoldUnitsOf(HoldsIn(t)) \in Nat /\ HoldUnitsOf(HoldsIn(t)') \in Nat
        /\ HoldUnitsOf(HoldsIn(t)') <= HoldUnitsOf(HoldsIn(t))
    BY <2>2, <2>4, HoldFacts
  <2>6. UnitsOf(ActionsIn(t)) + HoldUnitsOf(HoldsIn(t)) <= WindowLimit BY DEF BudgetInv
  <2>7. UnitsOf(ActionsIn(t)) + HoldUnitsOf(HoldsIn(t)') <= WindowLimit
    <3>1. WindowLimit \in Nat BY BudgetTypes
    <3> QED BY <2>4, <2>5, <2>6, <3>1, SMT
  <2> QED BY <2>1, <2>7 DEF UnitsOf, HoldUnitsOf, MapThenSumSet, MapThenFoldSet
<1>5. (UnitsOf(Rows(permits)) + HoldUnitsOf(Rows(holds)) <= UnitLimit)'
  BY <1>3 DEF BudgetInv, UnitsOf, HoldUnitsOf, MapThenSumSet, MapThenFoldSet
<1> QED BY <1>2, <1>3, <1>4, <1>5 DEF BudgetInv

\* Nothing is spent before the first claim.
LEMMA BudgetInit == Init => BudgetInv
<1> SUFFICES ASSUME Init PROVE BudgetInv OBVIOUS
<1>1. IInv BY InvInit
<1>2. holds \in [Request -> Held \cup {None}] /\ HoldsMatch BY DEF Init, HoldsMatch
<1>3. Rows(permits) = {} /\ Rows(holds) = {} BY DEF Init, Rows
<1>4. IsFiniteSet({}) /\ {} \in SUBSET Request /\ {} \in SUBSET Reversible BY FS_EmptySet
<1>5. UnitsOf({}) = 0 /\ HoldUnitsOf({}) = 0 BY <1>4, SumStep, SumsOfUnits
<1>6. UnitLimit \in Nat /\ WindowLimit \in Nat BY PermitAssumption
<1>7. 0 + 0 <= UnitLimit /\ 0 + 0 <= WindowLimit BY <1>6, SMT
<1>8. \A t \in Nat : ActionsIn(t) = {} /\ HoldsIn(t) = {} BY <1>3 DEF ActionsIn, HoldsIn
<1> QED BY <1>1, <1>2, <1>3, <1>4, <1>5, <1>7, <1>8 DEF BudgetInv

\* Every step keeps the budgets.
LEMMA BudgetStep == BudgetInv /\ [Next]_vars => BudgetInv'
<1> SUFFICES ASSUME BudgetInv, [Next]_vars PROVE BudgetInv' OBVIOUS
<1>0. IInv' /\ PermitTypeOK BY InvStep DEF BudgetInv, IInv
<1>1. CASE UNCHANGED <<permits, holds, cleanups>>
  <2>1. (UnitsOf(Rows(permits)) + HoldUnitsOf(Rows(holds)) <= UnitLimit)'
    <3>1. Rows(permits)' = Rows(permits) /\ Rows(holds)' = Rows(holds) BY <1>1 DEF Rows
    <3>2. UnitsOf(Rows(permits)) + HoldUnitsOf(Rows(holds)) <= UnitLimit BY DEF BudgetInv
    <3> QED BY <3>1, <3>2 DEF UnitsOf, HoldUnitsOf, MapThenSumSet, MapThenFoldSet
  <2>2. ASSUME NEW t \in Nat PROVE (UnitsOf(ActionsIn(t)) + HoldUnitsOf(HoldsIn(t)) <= WindowLimit)'
    <3>1. ActionsIn(t)' = ActionsIn(t) /\ HoldsIn(t)' = HoldsIn(t) BY <1>1 DEF ActionsIn, HoldsIn, Rows
    <3>2. UnitsOf(ActionsIn(t)) + HoldUnitsOf(HoldsIn(t)) <= WindowLimit BY DEF BudgetInv
    <3> QED BY <3>1, <3>2 DEF UnitsOf, HoldUnitsOf, MapThenSumSet, MapThenFoldSet
  <2>3. HoldsMatch' /\ IsFiniteSet(Rows(permits))' BY <1>1 DEF BudgetInv, HoldsMatch, Rows
  <2> QED BY <1>0, <1>1, <2>1, <2>2, <2>3 DEF BudgetInv
<1>2. ASSUME NEW p \in Dispatcher,
             \/ AuthorizeForDispatch(p) \/ AuthorizeApproved(p)
             \/ AuthorizeReversible(p) \/ AuthorizeApprovedReversible(p)
      PROVE  BudgetInv'
  <2>1. /\ UNCHANGED cleanups
        /\ UNCHANGED <<permits, holds>> \/ \E r \in Request, row \in Claimed : GrantTaken(r, row)
    BY <1>0, <1>2, ConsumeTakes
  <2>2. CASE \E r \in Request, row \in Claimed : GrantTaken(r, row)
    BY <1>0, <2>1, <2>2, GrantKeepsBudget
  <2> QED BY <1>1, <2>1, <2>2
<1>3. ASSUME NEW p \in Dispatcher, AuthorizeCleanup(p) PROVE BudgetInv'
  <2>1. /\ UNCHANGED <<permits, holds>>
        /\ UNCHANGED cleanups \/ \E r \in Request, row \in Claimed : HoldClaimed(r, row)
    BY <1>0, <1>3, CleanupTakes
  <2>2. CASE \E r \in Request, row \in Claimed : HoldClaimed(r, row)
    BY <1>0, <2>1, <2>2, ClaimKeepsBudget
  <2> QED BY <1>1, <2>1, <2>2
<1>4. ASSUME NEW p \in Dispatcher,
             \/ \E r \in Request, n \in snapshots, a \in snapshots \cup {None} : Evaluate(p, r, n, a)
             \/ \E r \in Request, n \in snapshots : EvaluateCleanup(p, r, n)
             \/ CrashDispatcher(p) \/ Dispatch(p) \/ DispatchCleanup(p)
      PROVE  UNCHANGED <<permits, holds, cleanups>>
  BY <1>4 DEF Evaluate, EvaluateCleanup, CrashDispatcher, Dispatch, DispatchCleanup, store
<1>5. CASE AppendEvent \/ AdvanceProjection \/ CaptureSnapshot \/ Tick
  BY <1>1, <1>5 DEF AppendEvent, AdvanceProjection, CaptureSnapshot, Tick, store
<1>6. CASE UNCHANGED vars BY <1>1, <1>6 DEF vars, store
<1> QED BY <1>1, <1>2, <1>3, <1>4, <1>5, <1>6 DEF Next

\* The budgets are kept however dispatchers race, retry and die.
THEOREM BudgetsKept == PermitSpec => []BudgetInv
  BY BudgetInit, BudgetStep, PTL DEF PermitSpec

\* Whatever runs, the envelope can still pay for the cleanup of every reversible
\* action that ran, for any limits, any units of actions and cleanups and any
\* number of dispatchers (_require_aggregate_action_budget).
THEOREM CleanupIsPaidFor == PermitSpec => []EnvelopeCoversCleanup
<1>1. ASSUME BudgetInv PROVE EnvelopeCoversCleanup
  <2> DEFINE ran == {r \in Request : acted[r] > 0}
             undo == ran \cap Reversible
  <2>1. \A r \in Request : permits[r] = None => acted[r] = 0 BY <1>1 DEF BudgetInv, IInv, UsedOnce
  <2>2. ~(0 > 0) BY SMT
  <2>3. ran \in SUBSET Rows(permits) BY <2>1, <2>2 DEF Rows
  <2>4. undo \in SUBSET Rows(holds) BY <1>1, <2>3 DEF Rows, BudgetInv, HoldsMatch
  <2>5. EnvelopeCoversCleanup <=> UnitsOf(ran) + HoldUnitsOf(undo) <= UnitLimit
    BY DEF EnvelopeCoversCleanup
  <2> HIDE DEF ran, undo
  <2>6. UnitsOf(ran) \in Nat /\ UnitsOf(Rows(permits)) \in Nat /\ UnitsOf(ran) <= UnitsOf(Rows(permits))
    BY <1>1, <2>3, BudgetTypes, UnitsFacts
  <2>7. /\ HoldUnitsOf(undo) \in Nat /\ HoldUnitsOf(Rows(holds)) \in Nat
        /\ HoldUnitsOf(undo) <= HoldUnitsOf(Rows(holds))
    BY <1>1, <2>4, BudgetTypes, HoldFacts
  <2>8. UnitsOf(Rows(permits)) + HoldUnitsOf(Rows(holds)) <= UnitLimit BY <1>1 DEF BudgetInv
  <2>9. UnitLimit \in Nat BY PermitAssumption
  <2>10. UnitsOf(ran) + HoldUnitsOf(undo) <= UnitLimit BY <2>6, <2>7, <2>8, <2>9, SMT
  <2> QED BY <2>5, <2>10
<1> QED BY <1>1, BudgetsKept, PTL

\* No window of the rolling rate holds more than its limit, in whatever order
\* stale clock readings reach the writer lock and whenever a hold is claimed
\* (the rolling part of _require_aggregate_action_budget).
THEOREM RollingRateHolds == PermitSpec => []RollingRateRespected
<1>1. ASSUME BudgetInv PROVE RollingRateRespected
  <2> SUFFICES ASSUME NEW t \in 0 .. MaxTime PROVE RollingRateRespected!(t) BY DEF RollingRateRespected
  <2> DEFINE In(table) == {r \in Rows(table) : table[r].at <= t /\ table[r].at > t - WindowSeconds}
  <2>0. t \in Nat BY PermitAssumption, SMT
  <2>1. In(permits) = ActionsIn(t) BY DEF ActionsIn
  <2>2. In(cleanups) \in SUBSET HoldsIn(t)
    <3> SUFFICES ASSUME NEW r \in In(cleanups) PROVE r \in HoldsIn(t) OBVIOUS
    <3>1. /\ r \in Request /\ cleanups[r] # None
          /\ cleanups[r].at <= t /\ cleanups[r].at > t - WindowSeconds
      BY DEF Rows
    <3>2. holds[r] # None /\ holds[r].at <= cleanups[r].at BY <1>1, <3>1 DEF BudgetInv, HoldsMatch
    <3>3. holds[r].at \in Nat /\ cleanups[r].at \in Nat BY <1>1, <3>1, <3>2, BudgetTypes
    <3>4. holds[r].at <= t BY <2>0, <3>1, <3>2, <3>3, SMT
    <3> QED BY <3>1, <3>2, <3>4 DEF HoldsIn, Rows
  <2>3. HoldsIn(t) \in SUBSET Reversible /\ IsFiniteSet(HoldsIn(t)) /\ UnitsOf(ActionsIn(t)) \in Nat
    <3>1. HoldsIn(t) \in SUBSET Rows(holds) /\ ActionsIn(t) \in SUBSET Rows(permits)
      BY DEF HoldsIn, ActionsIn
    <3> QED BY <1>1, <3>1, BudgetTypes, UnitsFacts, HoldFacts
  <2> HIDE DEF In
  <2>4. /\ HoldUnitsOf(In(cleanups)) \in Nat /\ HoldUnitsOf(HoldsIn(t)) \in Nat
        /\ HoldUnitsOf(In(cleanups)) <= HoldUnitsOf(HoldsIn(t))
    BY <2>2, <2>3, HoldFacts
  <2>5. UnitsOf(ActionsIn(t)) + HoldUnitsOf(HoldsIn(t)) <= WindowLimit /\ WindowLimit \in Nat
    BY <1>1, <2>0, PermitAssumption DEF BudgetInv
  <2>6. UnitsOf(ActionsIn(t)) + HoldUnitsOf(In(cleanups)) <= WindowLimit BY <2>3, <2>4, <2>5, SMT
  <2> QED BY <2>1, <2>6 DEF In
<1> QED BY <1>1, BudgetsKept, PTL

=============================================================================
