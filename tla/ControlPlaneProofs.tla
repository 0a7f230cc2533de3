------------------------- MODULE ControlPlaneProofs -------------------------
(***************************************************************************)
(* Theorems about ControlPlane, for every value of its constants.  In      *)
(* order: every transaction keeps its rows well typed; the rows of a Run   *)
(* agree; only the newest lease of a Run changes the database; and no      *)
(* update is one a database trigger rejects.  WorkerDaemonProofs and       *)
(* ControlPlaneAuthorityProofs build on the lemmas about what each         *)
(* transaction does to the rows.                                           *)
(***************************************************************************)
EXTENDS ControlPlane, TLAPS

\* The prover of a step that names no other.
USE ZenonT(40)

-----------------------------------------------------------------------------
(* Rows stay rows. *)

(* An unused Job row is a row. *)
LEMMA NoJobType == NoJob \in JobRecord
BY DEF NoJob, JobRecord, JobStates, JobIds

(* An unused checkpoint row is a row. *)
LEMMA NoCheckpointType == NoCheckpoint \in CheckpointRecord
BY DEF NoCheckpoint, CheckpointRecord, ApprovalStates, JobIds

(* The empty database is well typed. *)
LEMMA InitTypeOK == Init => TypeOK
BY NoJobType, NoCheckpointType, SMT DEF Init, TypeOK, RunRecord

(* The columns of a lease that was granted. *)
LEMMA GrantFields ==
  ASSUME TypeOK, NEW g \in grants
  PROVE  g.job \in JobIds /\ g.token \in Nat /\ g.worker \in Workers /\ job[g.job] \in JobRecord
BY DEF TypeOK, Grant

(* Writing the state of one Run leaves the other Runs as they are. *)
LEMMA RunUpdateRows ==
  ASSUME TypeOK, NEW r \in Runs, NEW s
  PROVE  /\ WithRunState(r, s)[r].state = s
         /\ \A q \in Runs \ {r} : WithRunState(r, s)[q] = run[q]
BY DEF TypeOK, RunRecord, WithRunState

-----------------------------------------------------------------------------
(* The transactions a step may be, with the parameters' types. *)

LeasedBatches == {S \in SUBSET JobIds : \A j \in S : job[j].state = "leased"}

(* The lease of j is over for the fastest clock. *)
RanOut(j) == job[j].expires <= now \/ job[j].deadline <= now

WorkerCases ==
  \E g \in grants, t \in Nat :
    \/ \E n \in Nat \ {0} : Heartbeat(g, n, t)
    \/ \E result \in Results, delivered \in BOOLEAN : CompleteJob(g, result, delivered, t)
    \/ \E result \in Results : CompletionRetry(g, result)
    \/ \E retryable \in BOOLEAN : FailJob(g, retryable, t)
    \/ \E expires \in Nat : CreateCheckpoint(g, expires, t)

ApprovalCases ==
  \E c \in JobIds, t \in Nat :
    \/ \E p \in Principals, approve \in BOOLEAN : DecideApproval(p, c, approve, t)
    \/ \E j \in JobIds : ResumeCheckpoint(c, j, t)
    \/ ResumeTooLate(c, t)

StepCases ==
  \/ Tick
  \/ \E r \in Runs : CancelRun(r)
  \/ \E readAt \in Nat : ExpireDueApprovals(readAt)
  \/ \E r \in Runs, j \in JobIds, m \in Nat \ {0}, t \in Nat \ {0} : m <= 20 /\ SubmitRun(r, j, m, t)
  \/ \E S \in LeasedBatches, t \in Nat : (\A j \in S : RanOut(j)) /\ ExpireLeases(S, t)
  \/ \E w \in Workers, j \in JobIds, n \in Nat \ {0}, t \in Nat \ {0} : ClaimJob(w, j, n, t)
  \/ WorkerCases
  \/ ApprovalCases

Step == StepCases \/ UNCHANGED vars

(* Every step of Next is one of them. *)
LEMMA NextCases ==
  ASSUME TypeOK, Next
  PROVE  StepCases
<1>1. ClockReadings \subseteq Nat \ {0} /\ 1..now \subseteq Nat \ {0}
  BY SMT DEF TypeOK, ClockReadings
<1>2. /\ 1..MaxAttempts \subseteq Nat \ {0} /\ (\A m \in 1..MaxAttempts : m <= 20)
      /\ 1..MaxTime \subseteq Nat
  BY ControlPlaneAssumption, SMT
<1>3. CASE Tick BY <1>3 DEF StepCases
<1>4. CASE \E r \in Runs : CancelRun(r) BY <1>4 DEF StepCases
<1>5. CASE \E readAt \in 1..now : ExpireDueApprovals(readAt) BY <1>1, <1>5 DEF StepCases
<1>6. ASSUME NEW t \in ClockReadings, Submit(t) PROVE StepCases
  BY <1>1, <1>2, <1>6 DEF StepCases, Submit
<1>7. ASSUME NEW t \in ClockReadings, SweepLeases(t) PROVE StepCases
  <2>1. \A readAt \in 1..now : SweepBatches(readAt) \subseteq LeasedBatches
    BY DEF SweepBatches, ExpirableJobs, LeasedBatches
  <2>2. ASSUME NEW readAt \in 1..now, NEW S \in SweepBatches(readAt), NEW j \in S PROVE RanOut(j)
    <3>1. j \in JobIds /\ (job[j].expires <= readAt \/ job[j].deadline <= readAt)
      BY <2>2 DEF SweepBatches, ExpirableJobs
    <3>2. now \in Nat /\ job[j].expires \in Nat /\ job[j].deadline \in Nat BY <3>1 DEF TypeOK, JobRecord
    <3> QED BY <3>1, <3>2, SMT DEF RanOut
  <2> QED BY <1>1, <1>7, <2>1, <2>2 DEF StepCases, SweepLeases
<1>8. ASSUME NEW t \in ClockReadings, Claim(t) PROVE StepCases
  BY <1>1, <1>8, ControlPlaneAssumption DEF StepCases, Claim
<1>9. ASSUME NEW t \in ClockReadings, NEW g \in grants, WorkerCall(g, t) PROVE StepCases
  <2>1. WorkerCases
    BY <1>1, <1>2, <1>9, ControlPlaneAssumption DEF WorkerCall, WorkerCases
  <2> QED BY <2>1 DEF StepCases
<1>10. ASSUME NEW t \in ClockReadings, NEW c \in JobIds, ApprovalCall(c, t) PROVE StepCases
  <2>1. ApprovalCases BY <1>1, <1>10 DEF ApprovalCall, ApprovalCases
  <2> QED BY <2>1 DEF StepCases
<1> QED BY <1>3, <1>4, <1>5, <1>6, <1>7, <1>8, <1>9, <1>10 DEF Next

(* So is a step that changes nothing. *)
LEMMA NextIsStep ==
  ASSUME TypeOK, [Next]_vars
  PROVE  Step
BY NextCases DEF Step

(* Every transaction keeps its rows well typed. *)
LEMMA StepType ==
  ASSUME TypeOK, Step
  PROVE  TypeOK'
<1>EndedJobType.
  ASSUME NEW j \in JobRecord
  PROVE  /\ CancelledJob(j) \in JobRecord
         /\ \A s \in JobStates : [ClearedLease(j) EXCEPT !.state = s] \in JobRecord
         /\ \A t \in Nat : RequeuedJob(j, t) \in JobRecord
  <2> USE <1>EndedJobType
  <2>1. \A s \in JobStates : [ClearedLease(j) EXCEPT !.state = s] \in JobRecord
    BY DEF ClearedLease, JobRecord
  <2>2. \A t \in Nat : RequeuedJob(j, t) \in JobRecord
    BY DEF RequeuedJob, ClearedLease, JobRecord, JobStates
  <2>3. "cancelled" \in JobStates BY DEF JobStates
  <2> QED BY <2>1, <2>2, <2>3 DEF CancelledJob

<1>TickType. TypeOK /\ Tick => TypeOK'
  BY SMT DEF TypeOK, Tick

<1>SubmitType.
  ASSUME TypeOK, NEW r \in Runs, NEW j \in JobIds, NEW m \in Nat, NEW t \in Nat,
         SubmitRun(r, j, m, t)
  PROVE  TypeOK'
  <2> USE <1>SubmitType
  <2>1. [NoJob EXCEPT !.state = "queued", !.run = r, !.max = m, !.available = t] \in JobRecord
    BY NoJobType DEF NoJob, JobRecord, JobStates
  <2>2. [state |-> "queued", ckpt |-> 0] \in RunRecord
    BY DEF RunRecord, RunStates
  <2> QED BY <2>1, <2>2 DEF TypeOK, SubmitRun

<1>SweptJobType.
  ASSUME TypeOK, NEW j \in JobIds, NEW t \in Nat
  PROVE  SweptJob(j, t) \in JobRecord
  <2> USE <1>SweptJobType
  <2>1. job[j] \in JobRecord BY DEF TypeOK
  <2> QED BY <2>1, <1>EndedJobType DEF SweptJob, JobStates

<1>ExpireLeasesType.
  ASSUME TypeOK, NEW S, NEW t \in Nat, ExpireLeases(S, t)
  PROVE  TypeOK'
  <2> USE <1>ExpireLeasesType
  <2>1. job' \in [JobIds -> JobRecord]
    BY <1>SweptJobType DEF ExpireLeases, TypeOK
  <2>2. run' \in [Runs -> RunRecord]
    <3>1. \A r \in Runs : SweptRunState(r, S) \in RunStates \cup {"absent"}
      BY DEF SweptRunState, TypeOK, RunRecord, RunStates
    <3>2. \A r \in Runs : [run[r] EXCEPT !.state = SweptRunState(r, S)] \in RunRecord
      BY <3>1 DEF TypeOK, RunRecord
    <3> QED BY <3>2 DEF ExpireLeases
  <2>3. fence' \in [JobIds -> Nat]
    BY DEF ExpireLeases, TypeOK, JobRecord
  <2> QED BY <2>1, <2>2, <2>3 DEF TypeOK, ExpireLeases

(* Writing the state of one Run: the table stays well typed if the schema      *)
(* knows the state, and the other Runs stay as they are.                       *)
<1>RunUpdateType.
  ASSUME TypeOK, NEW r, NEW s \in RunStates
  PROVE  WithRunState(r, s) \in [Runs -> RunRecord]
  <2> USE <1>RunUpdateType
  <2>1. run \in [Runs -> RunRecord] BY DEF TypeOK
  <2>2. ASSUME NEW q \in Runs PROVE [run[q] EXCEPT !.state = s] \in RunRecord
    BY <2>1 DEF RunRecord
  <2> QED BY <2>1, <2>2 DEF WithRunState

<1>ClaimType.
  ASSUME TypeOK, NEW w \in Workers, NEW j \in JobIds, NEW n \in Nat, NEW t \in Nat,
         ClaimJob(w, j, n, t)
  PROVE  TypeOK'
  <2> USE <1>ClaimType
  <2> DEFINE leased == [job[j] EXCEPT !.state = "leased", !.owner = w, !.token = FreshToken(j),
                                      !.expires = Least(t + n, t + MaxLease),
                                      !.deadline = t + MaxLease, !.heartbeat = t,
                                      !.event = 0, !.attempts = job[j].attempts + 1]
  <2>1. job[j] \in JobRecord BY DEF TypeOK
  <2>2. FreshToken(j) \in Nat BY <2>1, SMT DEF FreshToken, JobRecord
  <2>3. Least(t + n, t + MaxLease) \in Nat /\ t + MaxLease \in Nat
    BY ControlPlaneAssumption, SMT DEF Least
  <2>4. leased \in JobRecord
    <3>1. job[j].attempts + 1 \in Nat BY <2>1, SMT DEF JobRecord
    <3> QED BY <2>1, <2>2, <2>3, <3>1 DEF JobRecord, JobStates
  <2>5. CancelledJob(job[j]) \in JobRecord
    BY <2>1, <1>EndedJobType
  <2>6. job' \in [JobIds -> JobRecord]
    BY <2>4, <2>5 DEF ClaimJob, TypeOK
  <2>7. run' \in [Runs -> RunRecord]
    <3>1. run' = run \/ run' = WithRunState(job[j].run, "running") BY DEF ClaimJob
    <3>2. "running" \in RunStates /\ run \in [Runs -> RunRecord] BY DEF RunStates, TypeOK
    <3> QED BY <3>1, <3>2, <1>RunUpdateType
  <2>8. grants' \subseteq Grant
    BY <2>2, SMT DEF ClaimJob, TypeOK, Grant
  <2> QED BY <2>6, <2>7, <2>8 DEF TypeOK, ClaimJob

<1>HeartbeatType.
  ASSUME TypeOK, NEW g \in grants, NEW n \in Nat, NEW t \in Nat, Heartbeat(g, n, t)
  PROVE  TypeOK'
  <2> USE <1>HeartbeatType
  <2> DEFINE renewed == Greatest(t, job[g.job].heartbeat)
  <2>1. g.job \in JobIds /\ job[g.job] \in JobRecord BY GrantFields
  <2>2. /\ renewed \in Nat /\ Least(renewed + n, job[g.job].deadline) \in Nat
        /\ HeartbeatEventAt(job[g.job], renewed) \in Nat
    BY <2>1, SMT DEF JobRecord, Greatest, Least, HeartbeatEventAt
  <2>3. RenewedJob(job[g.job], n, renewed) \in JobRecord
    BY <2>1, <2>2 DEF JobRecord, RenewedJob
  <2>4. job' \in [JobIds -> JobRecord]
    BY <2>1, <2>3 DEF Heartbeat, TypeOK
  <2> QED BY <2>4 DEF TypeOK, Heartbeat

<1>SucceededJobType.
  ASSUME NEW j \in JobRecord, NEW result \in Results \cup {"checkpoint"}
  PROVE  SucceededJob(j, result) \in JobRecord
  BY <1>SucceededJobType DEF SucceededJob, JobRecord, JobStates

<1>EffectType.
  ASSUME TypeOK, NEW g \in grants, NEW kind \in {"complete", "fail", "checkpoint"},
         NEW t \in Nat, RecordEffect(g, kind, t)
  PROVE  effects' \subseteq Effect
  BY <1>EffectType, GrantFields, SMT DEF TypeOK, RecordEffect, Effect

<1>AnswerType.
  ASSUME TypeOK, NEW g \in grants, NEW result \in Results, NEW delivered \in BOOLEAN,
         Answer(g, result, delivered)
  PROVE  acked' \subseteq Ack
  BY <1>AnswerType, GrantFields, SMT DEF TypeOK, Answer, Ack

<1>CompleteType.
  ASSUME TypeOK, NEW g \in grants, NEW result \in Results, NEW delivered \in BOOLEAN, NEW t \in Nat,
         CompleteJob(g, result, delivered, t)
  PROVE  TypeOK'
  <2> USE <1>CompleteType
  <2>1. g.job \in JobIds /\ job[g.job] \in JobRecord BY GrantFields
  <2>2. SucceededJob(job[g.job], result) \in JobRecord BY <2>1, <1>SucceededJobType
  <2>3. job' \in [JobIds -> JobRecord] BY <2>2 DEF CompleteJob, TypeOK
  <2>4. run' \in [Runs -> RunRecord] BY <1>RunUpdateType DEF CompleteJob, RunStates
  <2>5. effects' \subseteq Effect BY <1>EffectType DEF CompleteJob
  <2>6. acked' \subseteq Ack BY <1>AnswerType DEF CompleteJob
  <2> QED BY <2>3, <2>4, <2>5, <2>6 DEF TypeOK, CompleteJob

<1>RetryType.
  ASSUME TypeOK, NEW g \in grants, NEW result \in Results, CompletionRetry(g, result)
  PROVE  TypeOK'
  <2> USE <1>RetryType
  <2>1. acked' \subseteq Ack BY <1>AnswerType DEF CompletionRetry
  <2> QED BY <2>1 DEF TypeOK, CompletionRetry

<1>FailType.
  ASSUME TypeOK, NEW g \in grants, NEW retryable \in BOOLEAN, NEW t \in Nat,
         FailJob(g, retryable, t)
  PROVE  TypeOK'
  <2> USE <1>FailType
  <2>1. g.job \in JobIds /\ job[g.job] \in JobRecord BY GrantFields
  <2>2. job' \in [JobIds -> JobRecord]
    BY <2>1, <1>EndedJobType DEF FailJob, TypeOK, JobStates
  <2>3. run' \in [Runs -> RunRecord]
    <3>1. \E s \in RunStates : run' = WithRunState(job[g.job].run, s) BY DEF FailJob, RunStates
    <3> QED BY <3>1, <1>RunUpdateType
  <2>4. effects' \subseteq Effect BY <1>EffectType DEF FailJob
  <2> QED BY <2>2, <2>3, <2>4 DEF TypeOK, FailJob

<1>CheckpointType.
  ASSUME TypeOK, NEW g \in grants, NEW expires \in Nat, NEW t \in Nat,
         CreateCheckpoint(g, expires, t)
  PROVE  TypeOK'
  <2> USE <1>CheckpointType
  <2>1. g.job \in JobIds /\ job[g.job] \in JobRecord /\ g.worker \in Workers BY GrantFields
  <2>2. job' \in [JobIds -> JobRecord]
    BY <2>1, <1>SucceededJobType DEF CreateCheckpoint, TypeOK
  <2>3. ckpt' \in [JobIds -> CheckpointRecord]
    <3>1. job[g.job].run \in Runs \cup {None} BY <2>1 DEF JobRecord
    <3>2. [NoCheckpoint EXCEPT !.state = "pending", !.run = job[g.job].run,
                               !.expires = expires, !.requestedBy = g.worker] \in CheckpointRecord
      BY <2>1, <3>1, NoCheckpointType DEF NoCheckpoint, CheckpointRecord, ApprovalStates
    <3> QED BY <3>2 DEF CreateCheckpoint, TypeOK
  <2>4. run' \in [Runs -> RunRecord]
    BY <2>1 DEF CreateCheckpoint, TypeOK, RunRecord, RunStates
  <2>5. effects' \subseteq Effect BY <1>EffectType DEF CreateCheckpoint
  <2> QED BY <2>2, <2>3, <2>4, <2>5 DEF TypeOK, CreateCheckpoint

<1>ExpireApprovalsType.
  ASSUME TypeOK, NEW S, ExpireApprovals(S)
  PROVE  ckpt' \in [JobIds -> CheckpointRecord] /\ run' \in [Runs -> RunRecord]
  <2> USE <1>ExpireApprovalsType
  <2>1. ckpt' \in [JobIds -> CheckpointRecord]
    BY SMT DEF ExpireApprovals, TypeOK, CheckpointRecord, ApprovalStates
  <2>2. run' \in [Runs -> RunRecord]
    BY SMT DEF ExpireApprovals, TypeOK, RunRecord, RunStates
  <2> QED BY <2>1, <2>2

<1>DecidedType.
  ASSUME NEW x \in CheckpointRecord, NEW s \in ApprovalStates, NEW p \in Principals, NEW t \in Nat
  PROVE  [x EXCEPT !.state = s, !.decidedBy = p, !.decidedAt = t] \in CheckpointRecord
  BY <1>DecidedType DEF CheckpointRecord

<1>DecideType.
  ASSUME TypeOK, NEW p \in Principals, NEW c \in JobIds, NEW approve \in BOOLEAN,
         NEW t \in Nat, DecideApproval(p, c, approve, t)
  PROVE  TypeOK'
  <2> USE <1>DecideType
  <2>1. ckpt' \in [JobIds -> CheckpointRecord] /\ run' \in [Runs -> RunRecord]
    <3>1. CASE ckpt[c].expires <= t
      BY <3>1, <1>ExpireApprovalsType DEF DecideApproval
    <3>2. CASE ~(ckpt[c].expires <= t)
      <4>1. \A s \in ApprovalStates :
              [ckpt[c] EXCEPT !.state = s, !.decidedBy = p, !.decidedAt = t] \in CheckpointRecord
        <5>1. ckpt[c] \in CheckpointRecord BY DEF TypeOK
        <5> QED BY <5>1, <1>DecidedType
      <4>2. PICK s \in ApprovalStates :
              ckpt' = [ckpt EXCEPT ![c] = [ckpt[c] EXCEPT !.state = s, !.decidedBy = p, !.decidedAt = t]]
        BY <3>2 DEF DecideApproval, ApprovalStates, TypeOK, CheckpointRecord
      <4>3. ckpt' \in [JobIds -> CheckpointRecord]
        BY <4>1, <4>2 DEF TypeOK
      <4>4. run' \in [Runs -> RunRecord]
        <5>1. run' = run \/ run' = WithRunState(ckpt[c].run, "cancelled") BY <3>2 DEF DecideApproval
        <5>2. "cancelled" \in RunStates /\ run \in [Runs -> RunRecord] BY DEF RunStates, TypeOK
        <5> QED BY <5>1, <5>2, <1>RunUpdateType
      <4> QED BY <4>3, <4>4
    <3> QED BY <3>1, <3>2
  <2> QED BY <2>1 DEF TypeOK, DecideApproval

<1>ResumeType.
  ASSUME TypeOK, NEW c \in JobIds, NEW j \in JobIds, NEW t \in Nat, ResumeCheckpoint(c, j, t)
  PROVE  TypeOK'
  <2> USE <1>ResumeType
  <2>1. ckpt[c] \in CheckpointRecord /\ job[c] \in JobRecord BY DEF TypeOK
  <2>2. job' \in [JobIds -> JobRecord]
    <3>1. ckpt[c].run \in Runs \cup {None} /\ job[c].max \in Nat
      BY <2>1 DEF CheckpointRecord, JobRecord
    <3>2. [NoJob EXCEPT !.state = "queued", !.run = ckpt[c].run, !.max = job[c].max,
                        !.available = t, !.resumes = c] \in JobRecord
      BY <3>1, NoJobType DEF NoJob, JobRecord, JobStates
    <3> QED BY <3>2 DEF ResumeCheckpoint, TypeOK
  <2>3. ckpt' \in [JobIds -> CheckpointRecord]
    <3>1. [ckpt[c] EXCEPT !.state = "consumed", !.consumedAt = t, !.continuation = j]
            \in CheckpointRecord
      BY <2>1 DEF CheckpointRecord, ApprovalStates
    <3>2. ckpt' = [ckpt EXCEPT ![c] =
                     [ckpt[c] EXCEPT !.state = "consumed", !.consumedAt = t, !.continuation = j]]
      BY <2>1 DEF ResumeCheckpoint, TypeOK, CheckpointRecord
    <3> QED BY <3>1, <3>2 DEF TypeOK
  <2>4. run' \in [Runs -> RunRecord]
    BY DEF ResumeCheckpoint, TypeOK, RunRecord, RunStates
  <2> QED BY <2>2, <2>3, <2>4 DEF TypeOK, ResumeCheckpoint

<1>ResumeTooLateType.
  ASSUME TypeOK, NEW c \in JobIds, NEW t \in Nat, ResumeTooLate(c, t)
  PROVE  TypeOK'
  <2> USE <1>ResumeTooLateType
  <2>1. ckpt' \in [JobIds -> CheckpointRecord] /\ run' \in [Runs -> RunRecord]
    BY <1>ExpireApprovalsType DEF ResumeTooLate
  <2> QED BY <2>1 DEF TypeOK, ResumeTooLate

<1>ExpireDueType.
  ASSUME TypeOK, NEW readAt \in Nat, ExpireDueApprovals(readAt)
  PROVE  TypeOK'
  <2> USE <1>ExpireDueType
  <2>1. ckpt' \in [JobIds -> CheckpointRecord] /\ run' \in [Runs -> RunRecord]
    BY <1>ExpireApprovalsType DEF ExpireDueApprovals
  <2> QED BY <2>1 DEF TypeOK, ExpireDueApprovals

<1>CancelType.
  ASSUME TypeOK, NEW r \in Runs, CancelRun(r)
  PROVE  TypeOK'
  <2> USE <1>CancelType
  <2>1. job' \in [JobIds -> JobRecord]
    BY <1>EndedJobType DEF CancelRun, TypeOK
  <2>2. ckpt' \in [JobIds -> CheckpointRecord]
    <3>1. \A c \in JobIds : [ckpt[c] EXCEPT !.state = "revoked"] \in CheckpointRecord
      BY SMT DEF TypeOK, CheckpointRecord, ApprovalStates
    <3> QED BY <3>1 DEF CancelRun, TypeOK
  <2>3. run' \in [Runs -> RunRecord] BY <1>RunUpdateType DEF CancelRun, RunStates
  <2>4. fence' \in [JobIds -> Nat] BY DEF CancelRun, TypeOK, JobRecord
  <2> QED BY <2>1, <2>2, <2>3, <2>4 DEF TypeOK, CancelRun

<1>1. CASE UNCHANGED vars BY <1>1 DEF vars, TypeOK
<1>2. CASE StepCases
  <2>1. StepCases BY <1>2
  <2>2. CASE WorkerCases
    BY <2>2, <1>HeartbeatType, <1>CompleteType, <1>RetryType, <1>FailType, <1>CheckpointType DEF WorkerCases
  <2>3. CASE ApprovalCases
    BY <2>3, <1>DecideType, <1>ResumeType, <1>ResumeTooLateType DEF ApprovalCases
  <2>4. CASE \/ Tick \/ (\E r \in Runs : CancelRun(r))
             \/ (\E readAt \in Nat : ExpireDueApprovals(readAt))
    BY <2>4, <1>TickType, <1>CancelType, <1>ExpireDueType
  <2>5. CASE \E r \in Runs, j \in JobIds, m \in Nat \ {0}, t \in Nat \ {0} : SubmitRun(r, j, m, t)
    BY <2>5, <1>SubmitType
  <2>6. CASE \E S \in LeasedBatches, t \in Nat : ExpireLeases(S, t)
    BY <2>6, <1>ExpireLeasesType
  <2>7. CASE \E w \in Workers, j \in JobIds, n \in Nat \ {0}, t \in Nat \ {0} : ClaimJob(w, j, n, t)
    BY <2>7, <1>ClaimType
  <2> QED BY <2>1, <2>2, <2>3, <2>4, <2>5, <2>6, <2>7 DEF StepCases
<1> QED BY <1>1, <1>2 DEF Step

(* Every reachable state has well-formed rows: no transaction writes a column *)
(* a value outside its type, whatever the bounds, clocks and interleavings.   *)
THEOREM TypeCorrect == Spec => []TypeOK
<1>1. Init => TypeOK BY InitTypeOK
<1>2. TypeOK /\ [Next]_vars => TypeOK' BY StepType, NextIsStep
<1> QED BY <1>1, <1>2, PTL DEF Spec

-----------------------------------------------------------------------------
(* The rows of a Run agree.  No conjunct is inductive alone: a sweep keeps   *)
(* the Run in step with its Job only because no other Job of the Run is      *)
(* active, and that needs every writer to have kept both rows in step.       *)

RowsAgree == RowsBelong /\ JobMatchesRun /\ NoRunStranded /\ OpenApprovalIsCurrent

(* They agree in the empty database. *)
LEMMA InitRowsAgree == Init => RowsAgree
BY SMT DEF Init, RowsAgree, RowsBelong, JobMatchesRun, NoRunStranded, OpenApprovalIsCurrent,
       NoJob, NoCheckpoint, RevocableApprovalStates, Active

(* A transaction on the active Job of a Run that writes the Job, its Run and   *)
(* at most the checkpoint of that Job keeps every row in agreement if it       *)
(* leaves the two rows in one of these four positions.                         *)
HolderMove(j, r) ==
  /\ \A k \in JobIds \ {j} : job'[k] = job[k] /\ ckpt'[k] = ckpt[k]
  /\ \A q \in Runs \ {r} : run'[q] = run[q]
  /\ job'[j].run = r
  /\ \/ job'[j].state = "queued" /\ run'[r].state = "queued" /\ ckpt'[j] = ckpt[j]
     \/ job'[j].state = "leased" /\ run'[r].state = "running" /\ ckpt'[j] = ckpt[j]
     \/ /\ job'[j].state \in {"succeeded", "failed", "dead-letter", "cancelled"}
        /\ run'[r].state \in {"completed", "failed", "cancelled"} /\ ckpt'[j] = ckpt[j]
     \/ /\ job'[j].state = "succeeded" /\ job'[j].result = "checkpoint"
        /\ run'[r].state = "awaiting-approval" /\ run'[r].ckpt = j
        /\ ckpt'[j].state = "pending" /\ ckpt'[j].run = r /\ ckpt'[j].continuation = 0

(* What the lease checks of a Worker call establish. *)
LEMMA LeasedRow ==
  ASSUME TypeOK, RowsAgree, NEW g \in grants, NEW t \in Nat, RequireActiveLease(g, t)
  PROVE  /\ g.job \in JobIds /\ job[g.job] \in JobRecord /\ job[g.job].state = "leased"
         /\ Active(g.job) /\ job[g.job].run \in Runs /\ run[job[g.job].run].state = "running"
         /\ job[g.job].token = g.token /\ job[g.job].owner = g.worker
         /\ t < job[g.job].deadline
BY GrantFields DEF RequireActiveLease, RequireLeaseIdentity, Active, RowsAgree, RowsBelong, JobMatchesRun

-----------------------------------------------------------------------------
(* Every transaction keeps them so. *)

(* Each transaction writes the Run, the Job and the checkpoint together. *)
LEMMA StepRowsAgree ==
  ASSUME TypeOK, RowsAgree, Step
  PROVE  RowsAgree'
<1>SubmitRowsAgree.
  ASSUME TypeOK, RowsAgree, NEW r \in Runs, NEW j \in JobIds, NEW m \in Nat, NEW t \in Nat,
         SubmitRun(r, j, m, t)
  PROVE  RowsAgree'
  <2> USE <1>SubmitRowsAgree
  <2>1. /\ job[j].state = "absent" /\ job'[j].state = "queued" /\ job'[j].run = r
        /\ \A k \in JobIds \ {j} : job'[k] = job[k]
    BY DEF SubmitRun, IsFreshJob, TypeOK, NoJob
  <2>2. /\ run[r].state = "absent" /\ run'[r].state = "queued" /\ ckpt' = ckpt
        /\ \A q \in Runs \ {r} : run'[q] = run[q]
    BY DEF SubmitRun, TypeOK
  <2>3. RowsBelong'
    BY <2>1, <2>2, SMT DEF RowsAgree, RowsBelong
  <2>4. JobMatchesRun'
    BY <2>1, <2>2, SMT DEF RowsAgree, RowsBelong, JobMatchesRun, Active
  <2>5. NoRunStranded'
    BY <2>1, <2>2, SMT DEF RowsAgree, NoRunStranded, JobsOf
  <2>6. OpenApprovalIsCurrent'
    BY <2>1, <2>2, SMT DEF RowsAgree, OpenApprovalIsCurrent, AwaitsApproval, RowsBelong, RevocableApprovalStates
  <2> QED BY <2>3, <2>4, <2>5, <2>6 DEF RowsAgree

<1>ExpireLeasesRowsAgree.
  ASSUME TypeOK, RowsAgree, NEW S \in LeasedBatches, NEW t \in Nat, ExpireLeases(S, t)
  PROVE  RowsAgree'
  <2> USE <1>ExpireLeasesRowsAgree
  <2> DEFINE retry(j) == job[j].attempts < job[j].max
  <2>1. \A j \in S : /\ j \in JobIds /\ job[j].state = "leased" /\ job[j].run \in Runs
                     /\ run[job[j].run].state = "running"
    BY DEF LeasedBatches, RowsAgree, JobMatchesRun, RowsBelong
  <2>2. \A j \in S : /\ job'[j].state = IF retry(j) THEN "queued" ELSE "dead-letter"
                     /\ job'[j].run = job[j].run
    <3> TAKE j \in S
    <3>1. job'[j] = SweptJob(j, t) /\ job[j] \in JobRecord BY <2>1 DEF ExpireLeases, TypeOK
    <3>2. run[job[j].run].state # "cancelled" BY <2>1
    <3> QED BY <3>1, <3>2 DEF SweptJob, RequeuedJob, ClearedLease, JobRecord
  <2>3. \A j \in JobIds \ S : job'[j] = job[j] BY DEF ExpireLeases
  <2>4. \A r \in Runs : run'[r].state = SweptRunState(r, S) /\ run'[r].ckpt = run[r].ckpt
    BY DEF ExpireLeases, TypeOK, RunRecord
  <2>5. \A r \in Runs : run[r].state # "running" => run'[r].state = run[r].state
    BY <2>4 DEF SweptRunState
  <2>6. \A j \in S : run'[job[j].run].state = IF retry(j) THEN "queued" ELSE "failed"
    <3> TAKE j \in S
    <3>1. \A k \in S \cap JobsOf(job[j].run) : k = j
      BY <2>1 DEF JobsOf, RowsAgree, JobMatchesRun, Active
    <3>2. j \in S \cap JobsOf(job[j].run) BY <2>1 DEF JobsOf
    <3> QED BY <2>1, <2>4, <3>1, <3>2 DEF SweptRunState
  <2>7. \A r \in Runs : (\A j \in S : job[j].run # r) => run'[r].state = run[r].state
    BY <2>4 DEF SweptRunState, JobsOf
  <2>8. ckpt' = ckpt BY DEF ExpireLeases
  <2>9. RowsBelong'
    BY <2>1, <2>2, <2>3, <2>8, SMT DEF RowsAgree, RowsBelong
  <2>10. JobMatchesRun'
    <3>1. \A j \in JobIds : Active(j)' => Active(j) /\ job'[j].run = job[j].run
      BY <2>1, <2>2, <2>3 DEF Active
    <3>2. ASSUME NEW j \in JobIds, job'[j].state = "queued"
          PROVE  run'[job'[j].run].state = "queued"
      BY <2>1, <2>2, <2>3, <2>5, <2>6, <3>2, SMT DEF RowsAgree, JobMatchesRun, RowsBelong
    <3>3. ASSUME NEW j \in JobIds, job'[j].state = "leased"
          PROVE  run'[job'[j].run].state = "running"
      <4>1. j \notin S /\ job'[j] = job[j] BY <2>2, <2>3, <3>3
      <4>2. \A k \in S : job[k].run # job[j].run
        BY <2>1, <3>3, <4>1, SMT DEF RowsAgree, JobMatchesRun, Active
      <4> QED BY <2>7, <3>3, <4>1, <4>2, SMT DEF RowsAgree, JobMatchesRun, RowsBelong
    <3> QED BY <3>1, <3>2, <3>3 DEF RowsAgree, JobMatchesRun
  <2>11. NoRunStranded'
    <3> SUFFICES ASSUME NEW r \in Runs PROVE NoRunStranded!(r)'
      BY DEF NoRunStranded
    <3>1. CASE \E j \in S : job[j].run = r
      BY <2>1, <2>2, <2>6, <3>1, SMT DEF JobsOf
    <3>2. CASE \A j \in S : job[j].run # r
      <4>1. run'[r].state = run[r].state /\ run'[r].ckpt = run[r].ckpt BY <2>4, <2>7, <3>2
      <4>2. \A j \in JobsOf(r) : job'[j] = job[j] BY <2>3, <3>2 DEF JobsOf
      <4> QED BY <2>8, <4>1, <4>2, SMT DEF RowsAgree, NoRunStranded, JobsOf
    <3> QED BY <3>1, <3>2
  <2>12. OpenApprovalIsCurrent'
    BY <2>4, <2>5, <2>8, SMT DEF RowsAgree, OpenApprovalIsCurrent, AwaitsApproval, RowsBelong, RevocableApprovalStates
  <2> QED BY <2>9, <2>10, <2>11, <2>12 DEF RowsAgree

<1>HolderMoves.
  ASSUME RowsAgree, NEW j \in JobIds, Active(j), HolderMove(j, job[j].run)
  PROVE  RowsAgree'
  <2> USE <1>HolderMoves
  <2> DEFINE r == job[j].run
  <2>1. r \in Runs /\ run[r].state \in {"queued", "running"}
    BY DEF RowsAgree, RowsBelong, JobMatchesRun, Active
  <2>2. \A k \in JobIds \ {j} : Active(k) => job[k].run # r
    BY DEF RowsAgree, JobMatchesRun
  <2>3. \A c \in JobIds : ckpt[c].state \in RevocableApprovalStates => ckpt[c].run # r
    BY <2>1 DEF RowsAgree, OpenApprovalIsCurrent, AwaitsApproval
  <2>4. ckpt[j].state = "absent"
    BY DEF RowsAgree, RowsBelong, Active
  <2>5. /\ \A k \in JobIds \ {j} : job'[k] = job[k] /\ ckpt'[k] = ckpt[k]
        /\ \A q \in Runs \ {r} : run'[q] = run[q]
        /\ job'[j].run = r
    BY DEF HolderMove
  <2>6. RowsBelong'
    <3>1. \/ ckpt'[j] = ckpt[j]
          \/ ckpt'[j].run = r /\ job'[j].state = "succeeded" /\ job'[j].result = "checkpoint"
      BY DEF HolderMove
    <3> QED BY <2>1, <2>4, <2>5, <3>1, SMT DEF RowsAgree, RowsBelong
  <2>7. JobMatchesRun'
    <3>1. \A k \in JobIds \ {j} : Active(k)' <=> Active(k) BY <2>5 DEF Active
    <3>2. ASSUME NEW k \in JobIds, NEW l \in JobIds, Active(k)', Active(l)', job'[k].run = job'[l].run
          PROVE  k = l
      BY <2>2, <2>5, <3>1, <3>2, SMT DEF RowsAgree, JobMatchesRun
    <3>3. ASSUME NEW k \in JobIds \ {j}
          PROVE  /\ job'[k].state = "queued" => run'[job'[k].run].state = "queued"
                 /\ job'[k].state = "leased" => run'[job'[k].run].state = "running"
      <4>1. job'[k] = job[k] BY <2>5
      <4>2. CASE Active(k)
        <5>1. job[k].run \in Runs \ {r} BY <2>2, <4>2 DEF RowsAgree, RowsBelong, Active
        <5> QED BY <2>5, <4>1, <5>1, SMT DEF RowsAgree, JobMatchesRun
      <4> QED BY <4>1, <4>2 DEF Active
    <3>4. /\ job'[j].state = "queued" => run'[job'[j].run].state = "queued"
          /\ job'[j].state = "leased" => run'[job'[j].run].state = "running"
      BY DEF HolderMove
    <3> QED BY <3>2, <3>3, <3>4 DEF JobMatchesRun
  <2>8. NoRunStranded'
    <3> SUFFICES ASSUME NEW q \in Runs PROVE NoRunStranded!(q)'
      BY DEF NoRunStranded
    <3>1. CASE q = r
      BY <3>1 DEF HolderMove, JobsOf, RevocableApprovalStates
    <3>2. CASE q # r
      <4>1. run'[q] = run[q] /\ \A k \in JobsOf(q) : job'[k] = job[k] BY <2>5, <3>2 DEF JobsOf
      <4>2. \A c \in JobIds : ckpt[c].run = q /\ ckpt[c].state \in RevocableApprovalStates =>
               ckpt'[c] = ckpt[c]
        BY <2>4, <2>5 DEF RevocableApprovalStates
      <4> QED BY <4>1, <4>2, SMT DEF RowsAgree, NoRunStranded, JobsOf
    <3> QED BY <3>1, <3>2
  <2>9. OpenApprovalIsCurrent'
    <3> SUFFICES ASSUME NEW c \in JobIds, ckpt'[c].state \in RevocableApprovalStates
                 PROVE  AwaitsApproval(c)'
      BY DEF OpenApprovalIsCurrent, RevocableApprovalStates
    <3>1. CASE c = j
      BY <2>4, <3>1 DEF HolderMove, AwaitsApproval, RevocableApprovalStates
    <3>2. CASE c # j
      <4>1. ckpt'[c] = ckpt[c] BY <2>5, <3>2
      <4>2. AwaitsApproval(c) /\ ckpt[c].run \in Runs \ {r}
        BY <2>3, <4>1 DEF RowsAgree, RowsBelong, OpenApprovalIsCurrent, RevocableApprovalStates
      <4> QED BY <2>5, <4>1, <4>2 DEF AwaitsApproval
    <3> QED BY <3>1, <3>2
  <2> QED BY <2>6, <2>7, <2>8, <2>9 DEF RowsAgree

<1>ClaimRowsAgree.
  ASSUME TypeOK, RowsAgree, NEW w \in Workers, NEW j \in JobIds, NEW n \in Nat, NEW t \in Nat,
         ClaimJob(w, j, n, t)
  PROVE  RowsAgree'
  <2> USE <1>ClaimRowsAgree
  <2>1. job[j].state = "queued" /\ job[j] \in JobRecord
    BY DEF ClaimJob, ClaimSelects, ClaimableJobs, TypeOK
  <2>2. job[j].run \in Runs /\ run[job[j].run].state = "queued"
    BY <2>1 DEF RowsAgree, RowsBelong, JobMatchesRun
  <2>3. /\ job'[j].state = "leased" /\ job'[j].run = job[j].run
        /\ \A k \in JobIds \ {j} : job'[k] = job[k]
    BY <2>1, <2>2 DEF ClaimJob, TypeOK, JobRecord
  <2>4. /\ run'[job[j].run].state = "running" /\ ckpt' = ckpt
        /\ \A q \in Runs \ {job[j].run} : run'[q] = run[q]
    BY <2>2, RunUpdateRows, SMT DEF ClaimJob
  <2> QED BY <2>1, <2>3, <2>4, <1>HolderMoves DEF Active, HolderMove

<1>HeartbeatRowsAgree.
  ASSUME TypeOK, RowsAgree, NEW g \in grants, NEW n \in Nat, NEW t \in Nat, Heartbeat(g, n, t)
  PROVE  RowsAgree'
  <2> USE <1>HeartbeatRowsAgree
  <2>1. Greatest(t, job[g.job].heartbeat) \in Nat
    BY GrantFields DEF Greatest, JobRecord
  <2>2. Active(g.job) /\ g.job \in JobIds /\ job[g.job] \in JobRecord /\ job[g.job].state = "leased"
        /\ run[job[g.job].run].state = "running"
    BY <2>1, LeasedRow DEF Heartbeat
  <2>3. /\ job'[g.job].state = "leased" /\ job'[g.job].run = job[g.job].run
        /\ \A k \in JobIds \ {g.job} : job'[k] = job[k]
    BY <2>2 DEF Heartbeat, RenewedJob, TypeOK, JobRecord
  <2>4. run' = run /\ ckpt' = ckpt BY DEF Heartbeat
  <2> QED BY <2>2, <2>3, <2>4, <1>HolderMoves DEF HolderMove

<1>CompleteRowsAgree.
  ASSUME TypeOK, RowsAgree, NEW g \in grants, NEW result \in Results, NEW delivered \in BOOLEAN,
         NEW t \in Nat, CompleteJob(g, result, delivered, t)
  PROVE  RowsAgree'
  <2> USE <1>CompleteRowsAgree
  <2>1. /\ g.job \in JobIds /\ job[g.job] \in JobRecord /\ Active(g.job)
        /\ job[g.job].run \in Runs
    BY LeasedRow DEF CompleteJob
  <2>2. /\ job'[g.job].state = "succeeded" /\ job'[g.job].run = job[g.job].run
        /\ \A k \in JobIds \ {g.job} : job'[k] = job[k]
    BY <2>1 DEF CompleteJob, SucceededJob, TypeOK, JobRecord
  <2>3. /\ run'[job[g.job].run].state = "completed" /\ ckpt' = ckpt
        /\ \A q \in Runs \ {job[g.job].run} : run'[q] = run[q]
    <3>1. run' = WithRunState(job[g.job].run, "completed") /\ ckpt' = ckpt BY DEF CompleteJob
    <3>2. /\ WithRunState(job[g.job].run, "completed")[job[g.job].run].state = "completed"
          /\ \A q \in Runs \ {job[g.job].run} :
               WithRunState(job[g.job].run, "completed")[q] = run[q]
      BY <2>1, RunUpdateRows, SMT
    <3> QED BY <3>1, <3>2
  <2> QED BY <2>1, <2>2, <2>3, <1>HolderMoves DEF HolderMove

<1>FailRowsAgree.
  ASSUME TypeOK, RowsAgree, NEW g \in grants, NEW retryable \in BOOLEAN, NEW t \in Nat,
         FailJob(g, retryable, t)
  PROVE  RowsAgree'
  <2> USE <1>FailRowsAgree
  <2>1. /\ g.job \in JobIds /\ job[g.job] \in JobRecord /\ Active(g.job)
        /\ job[g.job].run \in Runs
    BY LeasedRow DEF FailJob
  <2> DEFINE requeue == retryable /\ ~(job[g.job].attempts >= job[g.job].max)
  <2>2. /\ requeue => job'[g.job].state = "queued"
        /\ ~requeue => job'[g.job].state \in {"dead-letter", "failed"}
        /\ job'[g.job].run = job[g.job].run
        /\ \A k \in JobIds \ {g.job} : job'[k] = job[k]
    BY <2>1 DEF FailJob, RequeuedJob, ClearedLease, TypeOK, JobRecord
  <2>3. /\ run'[job[g.job].run].state = (IF requeue THEN "queued" ELSE "failed") /\ ckpt' = ckpt
        /\ \A q \in Runs \ {job[g.job].run} : run'[q] = run[q]
    <3> DEFINE s == IF requeue THEN "queued" ELSE "failed"
    <3>1. run' = WithRunState(job[g.job].run, s) /\ ckpt' = ckpt BY DEF FailJob
    <3>2. /\ WithRunState(job[g.job].run, s)[job[g.job].run].state = s
          /\ \A q \in Runs \ {job[g.job].run} : WithRunState(job[g.job].run, s)[q] = run[q]
      <4> HIDE DEF s
      <4> QED BY <2>1, RunUpdateRows, SMT
    <3> QED BY <3>1, <3>2
  <2> QED BY <2>1, <2>2, <2>3, <1>HolderMoves DEF HolderMove

<1>CheckpointRowsAgree.
  ASSUME TypeOK, RowsAgree, NEW g \in grants, NEW expires \in Nat, NEW t \in Nat,
         CreateCheckpoint(g, expires, t)
  PROVE  RowsAgree'
  <2> USE <1>CheckpointRowsAgree
  <2>1. /\ g.job \in JobIds /\ job[g.job] \in JobRecord /\ Active(g.job)
        /\ job[g.job].run \in Runs
    BY LeasedRow DEF CreateCheckpoint
  <2>2. /\ job'[g.job].state = "succeeded" /\ job'[g.job].result = "checkpoint"
        /\ job'[g.job].run = job[g.job].run
        /\ \A k \in JobIds \ {g.job} : job'[k] = job[k]
    BY <2>1, SMT DEF CreateCheckpoint, SucceededJob, TypeOK, JobRecord
  <2>3. /\ ckpt'[g.job].state = "pending" /\ ckpt'[g.job].run = job[g.job].run
        /\ ckpt'[g.job].continuation = 0
        /\ \A k \in JobIds \ {g.job} : ckpt'[k] = ckpt[k]
    BY <2>1 DEF CreateCheckpoint, NoCheckpoint, TypeOK, CheckpointRecord
  <2>4. /\ run'[job[g.job].run].state = "awaiting-approval" /\ run'[job[g.job].run].ckpt = g.job
        /\ \A q \in Runs \ {job[g.job].run} : run'[q] = run[q]
    BY <2>1 DEF CreateCheckpoint, TypeOK
  <2> QED BY <2>1, <2>2, <2>3, <2>4, <1>HolderMoves DEF HolderMove

(* Ending the wait of some Runs: their current approvals leave the open        *)
(* states, the Runs are cancelled, and no Job row changes.                     *)
<1>WaitersCancelled.
  ASSUME RowsAgree, NEW S \in SUBSET JobIds, \A c \in S : ckpt[c].state \in RevocableApprovalStates,
         job' = job,
         \A c \in S : /\ ckpt'[c].state \notin RevocableApprovalStates \cup {"absent"}
                      /\ ckpt'[c].run = ckpt[c].run,
         \A c \in JobIds \ S : ckpt'[c] = ckpt[c],
         \A q \in Runs : (\E c \in S : ckpt[c].run = q) => run'[q].state = "cancelled",
         \A q \in Runs : (\A c \in S : ckpt[c].run # q) => run'[q] = run[q]
  PROVE  RowsAgree'
  <2> USE <1>WaitersCancelled
  <2>1. \A c \in S : /\ ckpt[c].run \in Runs /\ run[ckpt[c].run].state = "awaiting-approval"
                     /\ run[ckpt[c].run].ckpt = c
    BY SMT DEF RowsAgree, RowsBelong, OpenApprovalIsCurrent, AwaitsApproval, RevocableApprovalStates
  <2>2. \A q \in Runs : run'[q] # run[q] => run[q].state = "awaiting-approval" /\ run'[q].state = "cancelled"
    BY <2>1, SMT
  <2>3. RowsBelong'
    BY <2>1, SMT DEF RowsAgree, RowsBelong, RevocableApprovalStates
  <2>4. JobMatchesRun'
    BY <2>2, SMT DEF RowsAgree, RowsBelong, JobMatchesRun, Active
  <2>5. NoRunStranded'
    <3> SUFFICES ASSUME NEW q \in Runs PROVE NoRunStranded!(q)'
      BY DEF NoRunStranded
    <3>1. CASE \E c \in S : ckpt[c].run = q
      BY <3>1
    <3>2. CASE \A c \in S : ckpt[c].run # q
      BY <3>2, SMT DEF RowsAgree, NoRunStranded, JobsOf
    <3> QED BY <3>1, <3>2
  <2>6. OpenApprovalIsCurrent'
    <3> SUFFICES ASSUME NEW c \in JobIds, ckpt'[c].state \in RevocableApprovalStates
                 PROVE  AwaitsApproval(c)'
      BY DEF OpenApprovalIsCurrent
    <3>1. ckpt'[c] = ckpt[c] /\ c \notin S BY DEF RevocableApprovalStates
    <3>2. AwaitsApproval(c) /\ ckpt[c].run \in Runs
      BY <3>1 DEF RowsAgree, RowsBelong, OpenApprovalIsCurrent, RevocableApprovalStates
    <3>3. \A k \in S : ckpt[k].run # ckpt[c].run
      BY <2>1, <3>1, <3>2, SMT DEF AwaitsApproval
    <3> QED BY <3>1, <3>2, <3>3, SMT DEF AwaitsApproval
  <2> QED BY <2>3, <2>4, <2>5, <2>6 DEF RowsAgree

<1>ExpireApprovalsRowsAgree.
  ASSUME TypeOK, RowsAgree, NEW S \in SUBSET JobIds,
         \A c \in S : ckpt[c].state \in RevocableApprovalStates,
         ExpireApprovals(S), job' = job
  PROVE  RowsAgree'
  <2> USE <1>ExpireApprovalsRowsAgree
  <2>1. \A c \in S : ckpt'[c].state = "expired" /\ ckpt'[c].run = ckpt[c].run
    BY DEF ExpireApprovals, TypeOK, CheckpointRecord
  <2>2. \A c \in JobIds \ S : ckpt'[c] = ckpt[c]
    BY DEF ExpireApprovals
  <2>3. \A q \in Runs : /\ (\E c \in S : ckpt[c].run = q) => run'[q].state = "cancelled"
                        /\ (\A c \in S : ckpt[c].run # q) => run'[q] = run[q]
    BY DEF ExpireApprovals, TypeOK, RunRecord
  <2>4. "expired" \notin RevocableApprovalStates \cup {"absent"} BY DEF RevocableApprovalStates
  <2> QED BY <2>1, <2>2, <2>3, <2>4, <1>WaitersCancelled

<1>DecideRowsAgree.
  ASSUME TypeOK, RowsAgree, NEW p \in Principals, NEW c \in JobIds, NEW approve \in BOOLEAN,
         NEW t \in Nat, DecideApproval(p, c, approve, t)
  PROVE  RowsAgree'
  <2> USE <1>DecideRowsAgree
  <2>1. ckpt[c].state = "pending" /\ ckpt[c] \in CheckpointRecord /\ job' = job
    BY DEF DecideApproval, TypeOK
  <2>2. ckpt[c].run \in Runs /\ AwaitsApproval(c) /\ ckpt[c].state \in RevocableApprovalStates
    BY <2>1 DEF RowsAgree, RowsBelong, DecideApproval, RevocableApprovalStates
  <2>3. CASE ckpt[c].expires <= t
    BY <2>1, <2>2, <2>3, <1>ExpireApprovalsRowsAgree DEF DecideApproval
  <2>4. CASE ~(ckpt[c].expires <= t) /\ ~approve
    <3>1. /\ ckpt'[c].state = "denied" /\ ckpt'[c].run = ckpt[c].run
          /\ \A k \in JobIds \ {c} : ckpt'[k] = ckpt[k]
      BY <2>1, <2>4, SMT DEF DecideApproval, TypeOK, CheckpointRecord
    <3>2. /\ run'[ckpt[c].run].state = "cancelled"
          /\ \A q \in Runs \ {ckpt[c].run} : run'[q] = run[q]
      BY <2>2, <2>4, RunUpdateRows, SMT DEF DecideApproval
    <3>3. "denied" \notin RevocableApprovalStates \cup {"absent"} BY DEF RevocableApprovalStates
    <3>4. {c} \in SUBSET JobIds OBVIOUS
    <3>5. \A q \in Runs : /\ (\E k \in {c} : ckpt[k].run = q) => run'[q].state = "cancelled"
                          /\ (\A k \in {c} : ckpt[k].run # q) => run'[q] = run[q]
      BY <3>2
    <3>6. \A k \in {c} : /\ ckpt[k].state \in RevocableApprovalStates
                         /\ ckpt'[k].state \notin RevocableApprovalStates \cup {"absent"}
                         /\ ckpt'[k].run = ckpt[k].run
      BY <2>2, <3>1, <3>3
    <3> QED BY <2>1, <3>1, <3>4, <3>5, <3>6, <1>WaitersCancelled
  <2>5. CASE ~(ckpt[c].expires <= t) /\ approve
    <3>1. /\ ckpt'[c].state = "approved" /\ ckpt'[c].run = ckpt[c].run
          /\ ckpt'[c].continuation = ckpt[c].continuation
          /\ \A k \in JobIds \ {c} : ckpt'[k] = ckpt[k]
          /\ run' = run
      BY <2>1, <2>5, SMT DEF DecideApproval, TypeOK, CheckpointRecord
    <3>2. RowsBelong' BY <2>1, <3>1 DEF RowsAgree, RowsBelong
    <3>3. JobMatchesRun' BY <2>1, <3>1 DEF RowsAgree, JobMatchesRun, Active
    <3>4. NoRunStranded'
      BY <2>1, <3>1, SMT DEF RowsAgree, NoRunStranded, JobsOf, RevocableApprovalStates
    <3>5. OpenApprovalIsCurrent'
      BY <2>1, <2>2, <3>1, SMT DEF RowsAgree, OpenApprovalIsCurrent, AwaitsApproval, RevocableApprovalStates
    <3> QED BY <3>2, <3>3, <3>4, <3>5 DEF RowsAgree
  <2> QED BY <2>3, <2>4, <2>5

<1>ResumeRowsAgree.
  ASSUME TypeOK, RowsAgree, NEW c \in JobIds, NEW j \in JobIds, NEW t \in Nat,
         ResumeCheckpoint(c, j, t)
  PROVE  RowsAgree'
  <2> USE <1>ResumeRowsAgree
  <2> DEFINE r == ckpt[c].run
  <2>1. /\ ckpt[c].state = "approved" /\ ckpt[c] \in CheckpointRecord
        /\ run[r].state = "awaiting-approval" /\ run[r].ckpt = c
    BY DEF ResumeCheckpoint, MayResume, AwaitsApproval, TypeOK
  <2>2. r \in Runs /\ job[c].state = "succeeded" BY <2>1 DEF RowsAgree, RowsBelong
  <2>3. /\ job[j].state = "absent" /\ job'[j].state = "queued" /\ job'[j].run = r
        /\ \A k \in JobIds \ {j} : job'[k] = job[k]
    BY DEF ResumeCheckpoint, IsFreshJob, TypeOK, NoJob
  <2>4. /\ ckpt'[c].state = "consumed" /\ ckpt'[c].run = r
        /\ \A k \in JobIds \ {c} : ckpt'[k] = ckpt[k]
    BY <2>1 DEF ResumeCheckpoint, TypeOK, CheckpointRecord
  <2>5. /\ run'[r].state = "queued"
        /\ \A q \in Runs \ {r} : run'[q] = run[q]
    BY <2>2 DEF ResumeCheckpoint, TypeOK
  <2>6. \A k \in JobIds : Active(k) => job[k].run # r
    BY <2>1 DEF RowsAgree, JobMatchesRun, Active
  <2>7. \A k \in JobIds \ {c} : ckpt[k].state \in RevocableApprovalStates => ckpt[k].run # r
    BY <2>1, SMT DEF RowsAgree, OpenApprovalIsCurrent, AwaitsApproval
  <2>8. ckpt[j].state = "absent" /\ j # c
    BY <2>2, <2>3 DEF RowsAgree, RowsBelong
  <2>9. RowsBelong'
    BY <2>1, <2>2, <2>3, <2>4, <2>8, SMT DEF RowsAgree, RowsBelong
  <2>10. JobMatchesRun'
    BY <2>3, <2>5, <2>6, SMT DEF RowsAgree, RowsBelong, JobMatchesRun, Active
  <2>11. NoRunStranded'
    <3> SUFFICES ASSUME NEW q \in Runs PROVE NoRunStranded!(q)'
      BY DEF NoRunStranded
    <3>1. CASE q = r BY <2>3, <2>5, <3>1 DEF JobsOf
    <3>2. CASE q # r
      BY <2>3, <2>4, <2>5, <3>2, SMT DEF RowsAgree, NoRunStranded, JobsOf
    <3> QED BY <3>1, <3>2
  <2>12. OpenApprovalIsCurrent'
    <3> SUFFICES ASSUME NEW k \in JobIds, ckpt'[k].state \in RevocableApprovalStates
                 PROVE  AwaitsApproval(k)'
      BY DEF OpenApprovalIsCurrent, RevocableApprovalStates
    <3>1. k # c BY <2>4 DEF RevocableApprovalStates
    <3>2. ckpt'[k] = ckpt[k] /\ AwaitsApproval(k) BY <2>4, <3>1 DEF RowsAgree, OpenApprovalIsCurrent
    <3>3. ckpt[k].run \in Runs \ {r}
      BY <2>7, <3>1, <3>2 DEF RowsAgree, RowsBelong, RevocableApprovalStates
    <3> QED BY <2>5, <3>2, <3>3 DEF AwaitsApproval
  <2> QED BY <2>9, <2>10, <2>11, <2>12 DEF RowsAgree

<1>ResumeTooLateRowsAgree.
  ASSUME TypeOK, RowsAgree, NEW c \in JobIds, NEW t \in Nat, ResumeTooLate(c, t)
  PROVE  RowsAgree'
  <2> USE <1>ResumeTooLateRowsAgree
  <2>1. ckpt[c].state \in RevocableApprovalStates /\ ExpireApprovals({c}) /\ job' = job
    BY DEF ResumeTooLate, MayResume, RevocableApprovalStates
  <2> QED BY <2>1, <1>ExpireApprovalsRowsAgree

<1>ExpireDueRowsAgree.
  ASSUME TypeOK, RowsAgree, NEW readAt \in Nat, ExpireDueApprovals(readAt)
  PROVE  RowsAgree'
  BY <1>ExpireDueRowsAgree, <1>ExpireApprovalsRowsAgree DEF ExpireDueApprovals, DueApprovals

<1>CancelRowsAgree.
  ASSUME TypeOK, RowsAgree, NEW r \in Runs, CancelRun(r)
  PROVE  RowsAgree'
  <2> USE <1>CancelRowsAgree
  <2>1. \A j \in JobIds : IF job[j].run = r /\ Active(j)
                          THEN job'[j].state = "cancelled" /\ job'[j].run = r
                          ELSE job'[j] = job[j]
    <3>1. ASSUME NEW j \in JobIds
          PROVE  CancelledJob(job[j]).state = "cancelled" /\ CancelledJob(job[j]).run = job[j].run
      <4>1. job[j] \in JobRecord BY DEF TypeOK
      <4> QED BY <4>1 DEF CancelledJob, ClearedLease, JobRecord
    <3> QED BY <3>1 DEF CancelRun
  <2>2. \A c \in JobIds : IF ckpt[c].run = r /\ ckpt[c].state \in RevocableApprovalStates
                          THEN ckpt'[c].state = "revoked" /\ ckpt'[c].run = r
                          ELSE ckpt'[c] = ckpt[c]
    BY DEF CancelRun, TypeOK, CheckpointRecord
  <2>3. run'[r].state = "cancelled" /\ \A q \in Runs \ {r} : run'[q] = run[q]
    BY RunUpdateRows, SMT DEF CancelRun
  <2>4. RowsBelong'
    BY <2>1, <2>2 DEF RowsAgree, RowsBelong, RevocableApprovalStates, Active
  <2>5. JobMatchesRun'
    <3>1. \A k \in JobIds : Active(k)' => Active(k) /\ job'[k] = job[k] /\ job[k].run \in Runs \ {r}
      BY <2>1 DEF RowsAgree, RowsBelong, Active
    <3>2. \A k \in JobIds : job'[k].state \in {"queued", "leased"} => Active(k)' BY DEF Active
    <3> QED BY <2>3, <3>1, <3>2, SMT DEF RowsAgree, JobMatchesRun
  <2>6. NoRunStranded'
    <3> SUFFICES ASSUME NEW q \in Runs PROVE NoRunStranded!(q)'
      BY DEF NoRunStranded
    <3>1. CASE q = r BY <2>3, <3>1
    <3>2. CASE q # r
      <4>1. run'[q] = run[q] BY <2>3, <3>2
      <4>2. \A j \in JobsOf(q) : job'[j] = job[j] BY <2>1, <3>2 DEF JobsOf
      <4>3. \A c \in JobIds : ckpt[c].run = q => ckpt'[c] = ckpt[c] BY <2>2, <3>2
      <4> QED BY <4>1, <4>2, <4>3, SMT DEF RowsAgree, NoRunStranded, JobsOf
    <3> QED BY <3>1, <3>2
  <2>7. OpenApprovalIsCurrent'
    BY <2>2, <2>3, SMT DEF RowsAgree, RowsBelong, OpenApprovalIsCurrent, AwaitsApproval, RevocableApprovalStates
  <2> QED BY <2>4, <2>5, <2>6, <2>7 DEF RowsAgree

<1>1. ASSUME run' = run, job' = job, ckpt' = ckpt PROVE RowsAgree'
  <2>1. RowsBelong' BY <1>1 DEF RowsAgree, RowsBelong
  <2>2. JobMatchesRun' BY <1>1 DEF RowsAgree, JobMatchesRun, Active
  <2>3. NoRunStranded' BY <1>1, SMT DEF RowsAgree, NoRunStranded, JobsOf
  <2>4. OpenApprovalIsCurrent' BY <1>1 DEF RowsAgree, OpenApprovalIsCurrent, AwaitsApproval
  <2> QED BY <2>1, <2>2, <2>3, <2>4 DEF RowsAgree
<1>2. CASE UNCHANGED vars BY <1>1, <1>2 DEF vars
<1>3. CASE StepCases
  <2>1. StepCases BY <1>3
  <2>2. CASE WorkerCases
    <3>1. ASSUME NEW g \in grants, NEW result \in Results, CompletionRetry(g, result)
          PROVE  RowsAgree'
      BY <1>1, <3>1 DEF CompletionRetry
    <3> QED BY <2>2, <3>1, <1>HeartbeatRowsAgree, <1>CompleteRowsAgree, <1>FailRowsAgree, <1>CheckpointRowsAgree
            DEF WorkerCases
  <2>3. CASE ApprovalCases
    BY <2>3, <1>DecideRowsAgree, <1>ResumeRowsAgree, <1>ResumeTooLateRowsAgree DEF ApprovalCases
  <2>4. CASE Tick BY <1>1, <2>4 DEF Tick
  <2>5. CASE \E r \in Runs : CancelRun(r) BY <2>5, <1>CancelRowsAgree
  <2>6. CASE \E readAt \in Nat : ExpireDueApprovals(readAt) BY <2>6, <1>ExpireDueRowsAgree
  <2>7. CASE \E r \in Runs, j \in JobIds, m \in Nat \ {0}, t \in Nat \ {0} : SubmitRun(r, j, m, t)
    BY <2>7, <1>SubmitRowsAgree
  <2>8. CASE \E S \in LeasedBatches, t \in Nat : ExpireLeases(S, t)
    BY <2>8, <1>ExpireLeasesRowsAgree
  <2>9. CASE \E w \in Workers, j \in JobIds, n \in Nat \ {0}, t \in Nat \ {0} : ClaimJob(w, j, n, t)
    BY <2>9, <1>ClaimRowsAgree
  <2> QED BY <2>1, <2>2, <2>3, <2>4, <2>5, <2>6, <2>7, <2>8, <2>9 DEF StepCases
<1> QED BY <1>2, <1>3 DEF Step

(* So they always agree. *)
LEMMA RowsAgreeAlways == Spec => [](TypeOK /\ RowsAgree)
<1>1. Init => TypeOK /\ RowsAgree BY InitTypeOK, InitRowsAgree
<1>2. TypeOK /\ RowsAgree /\ [Next]_vars => (TypeOK /\ RowsAgree)'
  BY StepType, StepRowsAgree, NextIsStep
<1> QED BY <1>1, <1>2, PTL DEF Spec

(* In every reachable state a Run has at most one queued or leased Job, and    *)
(* that Job's state and the Run's agree.                                       *)
THEOREM OneActiveJob == Spec => []JobMatchesRun
<1>1. RowsAgree => JobMatchesRun BY DEF RowsAgree
<1> QED BY <1>1, RowsAgreeAlways, PTL

(* In every reachable state a Run that is not terminal has the row the next    *)
(* operation on it needs: a queued Job, a leased Job, or an open approval.     *)
THEOREM NeverStranded == Spec => []NoRunStranded
<1>1. RowsAgree => NoRunStranded BY DEF RowsAgree
<1> QED BY <1>1, RowsAgreeAlways, PTL

(* In every reachable state the only open approvals are the current ones of    *)
(* waiting Runs.                                                               *)
THEOREM OnlyCurrentApprovals == Spec => []OpenApprovalIsCurrent
<1>1. RowsAgree => OpenApprovalIsCurrent BY DEF RowsAgree
<1> QED BY <1>1, RowsAgreeAlways, PTL

(* In every reachable state both sweeps would commit, over any subset of the   *)
(* expired leases that row locks leave them.                                   *)
THEOREM SweepsAlwaysCommit == Spec => []SweepsNeverConflict
<1>1. TypeOK /\ RowsAgree => SweepsNeverConflict
  <2> SUFFICES ASSUME TypeOK, RowsAgree PROVE SweepsNeverConflict
    OBVIOUS
  <2>1. ASSUME NEW S \in SUBSET ExpirableJobs(now) PROVE SweepCommits(S)
    BY DEF ExpirableJobs, SweepCommits, RowsAgree, JobMatchesRun, Active
  <2>2. ApprovalSweepCommits(DueApprovals(now))
    <3>1. \A c \in DueApprovals(now) : AwaitsApproval(c)
      BY DEF DueApprovals, RowsAgree, OpenApprovalIsCurrent
    <3> QED BY <3>1 DEF ApprovalSweepCommits, AwaitsApproval
  <2> QED BY <2>1, <2>2 DEF SweepsNeverConflict
<1> QED BY <1>1, RowsAgreeAlways, PTL

-----------------------------------------------------------------------------
(* The invariant behind them.  Rows are numbered in creation order, so the    *)
(* active Job of a Run is its newest; tokens are numbered by the claims that  *)
(* drew them, so a leased Job holds the newest of its tokens, and no token of *)
(* the past exceeds its Job's attempts.                                       *)

LeasesInOrder ==
  /\ \A j, k \in JobIds : k < j /\ job[j].state # "absent" => job[k].state # "absent"
  /\ \A j \in JobIds : job[j].state # "absent" => run[job[j].run].state # "absent"
  /\ \A j, k \in JobIds :
       Active(j) /\ job[k].state # "absent" /\ job[k].run = job[j].run => k <= j
  /\ \A j \in JobIds : job[j].state = "leased" => job[j].token = job[j].attempts
  /\ \A g \in grants : job[g.job].state # "absent" /\ g.token <= job[g.job].attempts

LeaseInv == TypeOK /\ RowsAgree /\ LeasesInOrder

(* A transaction creates or leases no Job by its change to the row of j. *)
KeepsJob(j) ==
  /\ job'[j].run = job[j].run /\ job'[j].attempts = job[j].attempts
  /\ job[j].state = "absent" => job'[j] = job[j]
  /\ job[j].state # "absent" => job'[j].state # "absent"
  /\ job'[j].state \in {"queued", "leased"} => Active(j)
  /\ job'[j].state = "leased" => job[j].state = "leased" /\ job'[j].token = job[j].token

KeepsRuns == \A r \in Runs : run[r].state # "absent" => run'[r].state # "absent"

(* The columns of x that y, an ended or requeued x, keeps. *)
EndsAs(x, y, s) == y.state = s /\ y.run = x.run /\ y.attempts = x.attempts

(* Clearing the lease of a Job that leaves the leased state keeps it. *)
LEMMA EndedJobKept ==
  ASSUME TypeOK, NEW j \in JobIds, Active(j), NEW s \in JobStates \ {"leased"},
         EndsAs(job[j], job'[j], s)
  PROVE  KeepsJob(j)
BY DEF EndsAs, KeepsJob, Active, JobStates

(* Clearing the lease ends the Job in the state written with it. *)
LEMMA ClearedRow ==
  ASSUME NEW x \in JobRecord, NEW s
  PROVE  EndsAs(x, [ClearedLease(x) EXCEPT !.state = s], s)
BY DEF EndsAs, ClearedLease, JobRecord

(* A requeued Job keeps its number and its attempts. *)
LEMMA RequeuedRow ==
  ASSUME NEW x \in JobRecord, NEW t
  PROVE  EndsAs(x, RequeuedJob(x, t), "queued")
BY DEF EndsAs, ClearedLease, RequeuedJob, JobRecord

(* So does a Job that succeeded. *)
LEMMA SucceededRow ==
  ASSUME NEW x \in JobRecord, NEW result
  PROVE  EndsAs(x, SucceededJob(x, result), "succeeded")
BY DEF EndsAs, SucceededJob, JobRecord

(* And one that was cancelled. *)
LEMMA CancelledRow ==
  ASSUME NEW x \in JobRecord
  PROVE  EndsAs(x, CancelledJob(x), "cancelled")
BY ClearedRow DEF CancelledJob

(* A row that is not written keeps everything. *)
LEMMA SameJobKept ==
  ASSUME NEW j, job'[j] = job[j]
  PROVE  KeepsJob(j)
BY DEF KeepsJob, Active

-----------------------------------------------------------------------------
(* What each transaction does to the Job rows and to the Runs. *)

(* Only the row of r changes, its state from a to b. *)
RunMoves(r, a, b) ==
  /\ r \in Runs /\ run[r].state = a /\ run'[r].state = b
  /\ \A q \in Runs \ {r} : run'[q] = run[q]

JobsKept == \A j \in JobIds : KeepsJob(j)

(* No Job enters the state s. *)
NoneEnters(s) == \A j \in JobIds : job'[j].state = s => job[j].state = s

(* Ending one active Job creates and leases none. *)
LEMMA HolderEnds ==
  ASSUME LeaseInv, NEW j \in JobIds, Active(j),
         \A k \in JobIds \ {j} : job'[k] = job[k],
         NEW s \in JobStates \ {"leased"}, EndsAs(job[j], job'[j], s)
  PROVE  JobsKept /\ \A s2 : s2 # s => NoneEnters(s2)
<1>1. KeepsJob(j) BY EndedJobKept DEF LeaseInv
<1>2. \A k \in JobIds \ {j} : KeepsJob(k) BY SameJobKept
<1>3. \A s2 : s2 # s => NoneEnters(s2) BY DEF NoneEnters, EndsAs
<1> QED BY <1>1, <1>2, <1>3 DEF JobsKept

(* Writing the state of one Run moves that Run only. *)
LEMMA WrittenRunMoves ==
  ASSUME TypeOK, NEW r \in Runs, NEW a, NEW b, run[r].state = a, run' = WithRunState(r, b)
  PROVE  RunMoves(r, a, b)
<1>1. /\ WithRunState(r, b)[r].state = b
      /\ \A q \in Runs \ {r} : WithRunState(r, b)[q] = run[q]
  BY RunUpdateRows, SMT
<1> QED BY <1>1 DEF RunMoves

(* complete_job ends the Job and completes its Run. *)
LEMMA CompleteMoves ==
  ASSUME LeaseInv, NEW g \in grants, NEW result \in Results, NEW delivered \in BOOLEAN, NEW t \in Nat,
         CompleteJob(g, result, delivered, t)
  PROVE  /\ JobsKept /\ NoneEnters("cancelled") /\ grants' = grants
         /\ RunMoves(job[g.job].run, "running", "completed")
<1>1. /\ g.job \in JobIds /\ job[g.job] \in JobRecord /\ Active(g.job)
      /\ job[g.job].run \in Runs /\ run[job[g.job].run].state = "running"
  BY LeasedRow DEF CompleteJob, LeaseInv
<1>2. /\ job'[g.job] = SucceededJob(job[g.job], result)
      /\ \A k \in JobIds \ {g.job} : job'[k] = job[k]
  BY <1>1 DEF CompleteJob, LeaseInv, TypeOK
<1>3. JobsKept /\ NoneEnters("cancelled")
  <2>1. EndsAs(job[g.job], job'[g.job], "succeeded")
    BY <1>1, <1>2, SucceededRow
  <2> QED BY <1>1, <1>2, <2>1, HolderEnds DEF JobStates
<1>4. RunMoves(job[g.job].run, "running", "completed")
  <2>1. run' = WithRunState(job[g.job].run, "completed") BY DEF CompleteJob
  <2> QED BY <1>1, <2>1, WrittenRunMoves DEF LeaseInv
<1> QED BY <1>3, <1>4 DEF CompleteJob

(* fail_job ends or requeues the Job, and its Run with it. *)
LEMMA FailMoves ==
  ASSUME LeaseInv, NEW g \in grants, NEW retryable \in BOOLEAN, NEW t \in Nat,
         FailJob(g, retryable, t)
  PROVE  /\ JobsKept /\ NoneEnters("cancelled") /\ NoneEnters("succeeded") /\ grants' = grants
         /\ \/ RunMoves(job[g.job].run, "running", "queued")
            \/ RunMoves(job[g.job].run, "running", "failed")
<1>1. /\ g.job \in JobIds /\ job[g.job] \in JobRecord /\ Active(g.job)
      /\ job[g.job].run \in Runs /\ run[job[g.job].run].state = "running"
  BY LeasedRow DEF FailJob, LeaseInv
<1>2. /\ \/ job'[g.job] = RequeuedJob(job[g.job], t)
         \/ job'[g.job] = [ClearedLease(job[g.job]) EXCEPT !.state = "dead-letter"]
         \/ job'[g.job] = [ClearedLease(job[g.job]) EXCEPT !.state = "failed"]
      /\ \A k \in JobIds \ {g.job} : job'[k] = job[k]
  BY <1>1 DEF FailJob, LeaseInv, TypeOK
<1>3. JobsKept /\ NoneEnters("cancelled") /\ NoneEnters("succeeded")
  <2>1. \E s \in {"queued", "dead-letter", "failed"} : EndsAs(job[g.job], job'[g.job], s)
    BY <1>1, <1>2, RequeuedRow, ClearedRow
  <2> QED BY <1>1, <1>2, <2>1, HolderEnds DEF JobStates
<1>4. \/ RunMoves(job[g.job].run, "running", "queued")
      \/ RunMoves(job[g.job].run, "running", "failed")
  <2>1. \/ run' = WithRunState(job[g.job].run, "queued")
        \/ run' = WithRunState(job[g.job].run, "failed")
    BY DEF FailJob
  <2> QED BY <1>1, <2>1, WrittenRunMoves DEF LeaseInv
<1> QED BY <1>3, <1>4 DEF FailJob

(* create_checkpoint ends the Job and leaves its Run waiting. *)
LEMMA CheckpointMoves ==
  ASSUME LeaseInv, NEW g \in grants, NEW expires \in Nat, NEW t \in Nat,
         CreateCheckpoint(g, expires, t)
  PROVE  /\ JobsKept /\ NoneEnters("cancelled") /\ grants' = grants
         /\ RunMoves(job[g.job].run, "running", "awaiting-approval")
<1>1. /\ g.job \in JobIds /\ job[g.job] \in JobRecord /\ Active(g.job)
      /\ job[g.job].run \in Runs /\ run[job[g.job].run].state = "running"
  BY LeasedRow DEF CreateCheckpoint, LeaseInv
<1>2. /\ job'[g.job] = SucceededJob(job[g.job], "checkpoint")
      /\ \A k \in JobIds \ {g.job} : job'[k] = job[k]
  BY <1>1 DEF CreateCheckpoint, LeaseInv, TypeOK
<1>3. JobsKept /\ NoneEnters("cancelled")
  <2>1. EndsAs(job[g.job], job'[g.job], "succeeded")
    BY <1>1, <1>2, SucceededRow
  <2> QED BY <1>1, <1>2, <2>1, HolderEnds DEF JobStates
<1>4. RunMoves(job[g.job].run, "running", "awaiting-approval")
  BY <1>1 DEF CreateCheckpoint, LeaseInv, TypeOK, RunMoves
<1> QED BY <1>3, <1>4 DEF CreateCheckpoint

(* heartbeat_job moves no Run and ends no Job. *)
LEMMA HeartbeatMoves ==
  ASSUME LeaseInv, NEW g \in grants, NEW n \in Nat, NEW t \in Nat, Heartbeat(g, n, t)
  PROVE  JobsKept /\ (\A s : NoneEnters(s)) /\ run' = run /\ grants' = grants
<1>1. g.job \in JobIds /\ job[g.job] \in JobRecord /\ job[g.job].state = "leased"
  BY GrantFields DEF LeaseInv, Heartbeat, RequireActiveLease
<1>2. /\ job'[g.job].state = job[g.job].state /\ job'[g.job].run = job[g.job].run
      /\ job'[g.job].token = job[g.job].token /\ job'[g.job].attempts = job[g.job].attempts
      /\ \A k \in JobIds \ {g.job} : job'[k] = job[k]
  BY <1>1 DEF Heartbeat, RenewedJob, LeaseInv, TypeOK, JobRecord
<1>3. JobsKept /\ \A s : NoneEnters(s)
  BY <1>1, <1>2, SameJobKept DEF JobsKept, KeepsJob, Active, NoneEnters
<1> QED BY <1>3 DEF Heartbeat

(* Time takes back leases and approvals: any number of Runs move at once. *)
RunsLapse ==
  \A r \in Runs :
    \/ run'[r] = run[r]
    \/ run[r].state = "running" /\ run'[r].state \in {"queued", "failed"}
    \/ run[r].state = "awaiting-approval" /\ run'[r].state = "cancelled"

(* A lease sweep takes Jobs back and leases none. *)
LEMMA ExpireLeasesMoves ==
  ASSUME LeaseInv, NEW S \in LeasedBatches, NEW t \in Nat, ExpireLeases(S, t)
  PROVE  JobsKept /\ RunsLapse /\ grants' = grants
<1>1. ASSUME NEW j \in S PROVE KeepsJob(j)
  <2>1. j \in JobIds /\ job[j].state = "leased" /\ Active(j) BY DEF LeasedBatches, Active
  <2>2. job[j] \in JobRecord /\ job'[j] = SweptJob(j, t)
    BY <2>1 DEF LeaseInv, TypeOK, ExpireLeases
  <2>3. \E s \in {"cancelled", "queued", "dead-letter"} : EndsAs(job[j], SweptJob(j, t), s)
    BY <2>2, CancelledRow, RequeuedRow, ClearedRow DEF SweptJob
  <2> QED BY <2>1, <2>2, <2>3, EndedJobKept DEF LeaseInv, JobStates
<1>2. ASSUME NEW j \in JobIds \ S PROVE KeepsJob(j)
  <2>1. job'[j] = job[j] BY DEF ExpireLeases
  <2> QED BY <2>1, SameJobKept
<1>3. \A r \in Runs : /\ run'[r].state = SweptRunState(r, S)
                      /\ SweptRunState(r, S) = run[r].state => run'[r] = run[r]
  BY DEF ExpireLeases, LeaseInv, TypeOK, RunRecord
<1>4. RunsLapse BY <1>3 DEF RunsLapse, SweptRunState
<1> QED BY <1>1, <1>2, <1>4 DEF ExpireLeases, JobsKept

(* An approval sweep writes no Job. *)
LEMMA ExpireApprovalsMoves ==
  ASSUME TypeOK, NEW S, \A c \in S : AwaitsApproval(c), ExpireApprovals(S), job' = job
  PROVE  JobsKept /\ RunsLapse
<1>1. JobsKept BY SameJobKept DEF JobsKept
<1>2. ASSUME NEW r \in Runs
      PROVE  \/ run'[r] = run[r]
             \/ run[r].state = "awaiting-approval" /\ run'[r].state = "cancelled"
  BY SMT DEF ExpireApprovals, TypeOK, RunRecord, AwaitsApproval
<1> QED BY <1>1, <1>2 DEF RunsLapse

(* A decision, or a decision that comes too late, writes no Job. *)
LEMMA DecideMoves ==
  ASSUME LeaseInv, NEW p \in Principals, NEW c \in JobIds, NEW approve \in BOOLEAN,
         NEW t \in Nat, DecideApproval(p, c, approve, t)
  PROVE  JobsKept /\ RunsLapse /\ grants' = grants
<1>1. AwaitsApproval(c) /\ job' = job /\ grants' = grants /\ TypeOK BY DEF DecideApproval, LeaseInv
<1>2. CASE ckpt[c].expires <= t
  BY <1>1, <1>2, ExpireApprovalsMoves DEF DecideApproval
<1>3. CASE ~(ckpt[c].expires <= t)
  <2>1. run' = run \/ run' = WithRunState(ckpt[c].run, "cancelled") BY <1>3 DEF DecideApproval
  <2>2. RunsLapse
    BY <1>1, <2>1, SMT DEF RunsLapse, WithRunState, TypeOK, RunRecord, AwaitsApproval
  <2> QED BY <1>1, <2>2, SameJobKept DEF JobsKept
<1> QED BY <1>2, <1>3

(* A resumption that comes too late writes no Job. *)
LEMMA ResumeTooLateMoves ==
  ASSUME LeaseInv, NEW c \in JobIds, NEW t \in Nat, ResumeTooLate(c, t)
  PROVE  JobsKept /\ RunsLapse /\ grants' = grants
BY ExpireApprovalsMoves DEF ResumeTooLate, MayResume, LeaseInv

(* Nor does expiring the approvals that are due. *)
LEMMA ExpireDueMoves ==
  ASSUME LeaseInv, NEW readAt \in Nat, ExpireDueApprovals(readAt)
  PROVE  JobsKept /\ RunsLapse /\ grants' = grants
BY ExpireApprovalsMoves DEF ExpireDueApprovals, ApprovalSweepCommits, LeaseInv

(* cancel_run ends the Run and the Job it had. *)
LEMMA CancelMoves ==
  ASSUME LeaseInv, NEW r \in Runs, CancelRun(r)
  PROVE  /\ JobsKept /\ grants' = grants
         /\ \E a \in CancellableRunStates : RunMoves(r, a, "cancelled")
<1>1. ASSUME NEW j \in JobIds PROVE KeepsJob(j)
  <2>1. job[j] \in JobRecord BY DEF LeaseInv, TypeOK
  <2>2. CASE job[j].run = r /\ Active(j)
    <3>1. EndsAs(job[j], job'[j], "cancelled") BY <2>1, <2>2, CancelledRow DEF CancelRun
    <3> QED BY <2>2, <3>1, EndedJobKept DEF LeaseInv, JobStates
  <2>3. CASE ~(job[j].run = r /\ Active(j))
    BY <2>3, SameJobKept DEF CancelRun
  <2> QED BY <2>2, <2>3
<1>2. RunMoves(r, run[r].state, "cancelled") BY WrittenRunMoves DEF CancelRun, LeaseInv
<1> QED BY <1>1, <1>2 DEF CancelRun, JobsKept

(* A Job row is created, queued, in a Run that had no active Job. *)
JobCreated(j, r) ==
  /\ j \in JobIds /\ IsFreshJob(j)
  /\ job'[j].state = "queued" /\ job'[j].run = r
  /\ \A k \in JobIds \ {j} : job'[k] = job[k]

(* submit_run creates a queued Job and its Run. *)
LEMMA SubmitMoves ==
  ASSUME LeaseInv, NEW r \in Runs, NEW j \in JobIds, NEW m \in Nat, NEW t \in Nat,
         SubmitRun(r, j, m, t)
  PROVE  JobCreated(j, r) /\ RunMoves(r, "absent", "queued") /\ grants' = grants
<1>1. JobCreated(j, r) BY DEF SubmitRun, LeaseInv, TypeOK, NoJob, JobCreated
<1>2. RunMoves(r, "absent", "queued") BY DEF SubmitRun, LeaseInv, TypeOK, RunMoves
<1> QED BY <1>1, <1>2 DEF SubmitRun

(* resume_checkpoint creates a queued Job in the waiting Run. *)
LEMMA ResumeMoves ==
  ASSUME LeaseInv, NEW c \in JobIds, NEW j \in JobIds, NEW t \in Nat, ResumeCheckpoint(c, j, t)
  PROVE  /\ JobCreated(j, ckpt[c].run) /\ grants' = grants
         /\ RunMoves(ckpt[c].run, "awaiting-approval", "queued")
<1>1. ckpt[c].run \in Runs /\ run[ckpt[c].run].state = "awaiting-approval"
  BY DEF ResumeCheckpoint, MayResume, AwaitsApproval, LeaseInv, RowsAgree, RowsBelong
<1>2. JobCreated(j, ckpt[c].run)
  BY DEF ResumeCheckpoint, LeaseInv, TypeOK, NoJob, JobCreated
<1>3. RunMoves(ckpt[c].run, "awaiting-approval", "queued")
  BY <1>1 DEF ResumeCheckpoint, LeaseInv, TypeOK, RunMoves
<1> QED BY <1>2, <1>3 DEF ResumeCheckpoint

(* claim_job leases one queued Job under the next token. *)
LEMMA ClaimMoves ==
  ASSUME LeaseInv, NEW w \in Workers, NEW j \in JobIds, NEW n \in Nat, NEW t \in Nat,
         ClaimJob(w, j, n, t)
  PROVE  /\ job[j].state = "queued" /\ job'[j].state = "leased" /\ job'[j].run = job[j].run
         /\ job[j].attempts \in Nat
         /\ job'[j].token = job[j].attempts + 1 /\ job'[j].attempts = job[j].attempts + 1
         /\ \A k \in JobIds \ {j} : job'[k] = job[k]
         /\ RunMoves(job[j].run, "queued", "running")
         /\ grants' = grants \cup {[job |-> j, token |-> job[j].attempts + 1, worker |-> w, at |-> t]}
<1>1. job[j].state = "queued" /\ job[j] \in JobRecord
  BY DEF ClaimJob, ClaimSelects, ClaimableJobs, LeaseInv, TypeOK
<1>2. job[j].run \in Runs /\ run[job[j].run].state = "queued"
  BY <1>1 DEF LeaseInv, RowsAgree, RowsBelong, JobMatchesRun
<1>3. /\ job'[j].state = "leased" /\ job'[j].run = job[j].run
      /\ job'[j].token = job[j].attempts + 1 /\ job'[j].attempts = job[j].attempts + 1
      /\ \A k \in JobIds \ {j} : job'[k] = job[k]
  BY <1>1, <1>2, SMT DEF ClaimJob, FreshToken, LeaseInv, TypeOK, JobRecord
<1>4. RunMoves(job[j].run, "queued", "running")
  BY <1>2, WrittenRunMoves DEF ClaimJob, LeaseInv
<1>5. grants' = grants \cup {[job |-> j, token |-> job[j].attempts + 1, worker |-> w, at |-> t]}
  BY <1>2 DEF ClaimJob, FreshToken
<1>6. job[j].attempts \in Nat BY <1>1 DEF JobRecord
<1> QED BY <1>1, <1>3, <1>4, <1>5, <1>6

-----------------------------------------------------------------------------
(* Every transaction keeps leases in order. *)

(* Each transaction keeps Jobs and tokens numbered in order. *)
LEMMA StepInOrder ==
  ASSUME LeaseInv, Step
  PROVE  LeaseInv'
<1>KeptJobsInOrder.
  ASSUME LeaseInv, \A j \in JobIds : KeepsJob(j), KeepsRuns, grants' = grants
  PROVE  LeasesInOrder'
  <2> USE <1>KeptJobsInOrder
  <2>1. \A j, k \in JobIds : k < j /\ job'[j].state # "absent" => job'[k].state # "absent"
    BY SMT DEF LeaseInv, LeasesInOrder, KeepsJob
  <2>2. \A j \in JobIds : job'[j].state # "absent" => run'[job'[j].run].state # "absent"
    BY SMT DEF LeaseInv, LeasesInOrder, KeepsJob, KeepsRuns, RowsAgree, RowsBelong
  <2>3. \A j, k \in JobIds :
          Active(j)' /\ job'[k].state # "absent" /\ job'[k].run = job'[j].run => k <= j
    BY DEF LeaseInv, LeasesInOrder, KeepsJob, Active
  <2>4. \A j \in JobIds : job'[j].state = "leased" => job'[j].token = job'[j].attempts
    BY DEF LeaseInv, LeasesInOrder, KeepsJob
  <2>5. \A g \in grants' : job'[g.job].state # "absent" /\ g.token <= job'[g.job].attempts
    BY GrantFields DEF LeaseInv, LeasesInOrder, KeepsJob
  <2> QED BY <2>1, <2>2, <2>3, <2>4, <2>5 DEF LeasesInOrder

<1>MoveKeepsRuns.
  ASSUME NEW r, NEW a, NEW b, RunMoves(r, a, b), b # "absent"
  PROVE  KeepsRuns
  BY <1>MoveKeepsRuns DEF RunMoves, KeepsRuns

<1>LapseKeepsRuns. RunsLapse => KeepsRuns
  BY DEF RunsLapse, KeepsRuns

<1>CreatedInOrder.
  ASSUME LeaseInv, NEW j, NEW r, NEW a \in {"absent", "awaiting-approval"}, JobCreated(j, r),
         RunMoves(r, a, "queued"), grants' = grants
  PROVE  LeasesInOrder'
  <2> USE <1>CreatedInOrder
  <2>1. /\ j \in JobIds /\ job[j].state = "absent" /\ \A k \in JobIds : k < j => job[k].state # "absent"
        /\ job'[j].state = "queued" /\ job'[j].run = r
        /\ \A k \in JobIds \ {j} : job'[k] = job[k]
    BY DEF JobCreated, IsFreshJob
  <2>2. \A k \in JobIds : Active(k) => job[k].run # r
    BY DEF RunMoves, LeaseInv, RowsAgree, JobMatchesRun, Active
  <2>3. \A k \in JobIds : job[k].state # "absent" => k < j
    BY <2>1, SMT DEF LeaseInv, LeasesInOrder, JobIds
  <2>4. \A i, k \in JobIds : k < i /\ job'[i].state # "absent" => job'[k].state # "absent"
    BY <2>1 DEF LeaseInv, LeasesInOrder
  <2>5. \A k \in JobIds : job'[k].state # "absent" => run'[job'[k].run].state # "absent"
    BY <2>1, SMT DEF LeaseInv, LeasesInOrder, RunMoves, RowsAgree, RowsBelong
  <2>6. \A i, k \in JobIds :
          Active(i)' /\ job'[k].state # "absent" /\ job'[k].run = job'[i].run => k <= i
    <3> SUFFICES ASSUME NEW i \in JobIds, NEW k \in JobIds, Active(i)', job'[k].state # "absent",
                        job'[k].run = job'[i].run
                 PROVE  k <= i
      OBVIOUS
    <3>1. CASE i = j BY <2>1, <2>3, <3>1, SMT DEF JobIds
    <3>2. CASE i # j
      BY <2>1, <2>2, <3>2 DEF Active, LeaseInv, LeasesInOrder
    <3> QED BY <3>1, <3>2
  <2>7. \A k \in JobIds : job'[k].state = "leased" => job'[k].token = job'[k].attempts
    BY <2>1 DEF LeaseInv, LeasesInOrder
  <2>8. \A g \in grants' : job'[g.job].state # "absent" /\ g.token <= job'[g.job].attempts
    BY <2>1, GrantFields DEF LeaseInv, LeasesInOrder
  <2> QED BY <2>4, <2>5, <2>6, <2>7, <2>8 DEF LeasesInOrder

<1>ClaimInOrder.
  ASSUME LeaseInv, NEW w \in Workers, NEW j \in JobIds, NEW n \in Nat, NEW t \in Nat,
         ClaimJob(w, j, n, t)
  PROVE  LeasesInOrder'
  <2> USE <1>ClaimInOrder
  <2> DEFINE g0 == [job |-> j, token |-> job[j].attempts + 1, worker |-> w, at |-> t]
  <2>1. /\ job[j].state = "queued" /\ job'[j].state = "leased" /\ job'[j].run = job[j].run
        /\ job[j].attempts \in Nat
        /\ job'[j].token = job[j].attempts + 1 /\ job'[j].attempts = job[j].attempts + 1
        /\ \A k \in JobIds \ {j} : job'[k] = job[k]
    BY ClaimMoves
  <2>2. RunMoves(job[j].run, "queued", "running") /\ grants' = grants \cup {g0}
    BY ClaimMoves
  <2>3. \A i, k \in JobIds : k < i /\ job'[i].state # "absent" => job'[k].state # "absent"
    BY <2>1 DEF LeaseInv, LeasesInOrder
  <2>4. \A k \in JobIds : job'[k].state # "absent" => run'[job'[k].run].state # "absent"
    BY <2>1, <2>2, SMT DEF LeaseInv, LeasesInOrder, RunMoves, RowsAgree, RowsBelong
  <2>5. \A i, k \in JobIds :
          Active(i)' /\ job'[k].state # "absent" /\ job'[k].run = job'[i].run => k <= i
    BY <2>1, SMT DEF Active, LeaseInv, LeasesInOrder
  <2>6. \A k \in JobIds : job'[k].state = "leased" => job'[k].token = job'[k].attempts
    BY <2>1 DEF LeaseInv, LeasesInOrder
  <2>7. ASSUME NEW g \in grants' PROVE job'[g.job].state # "absent" /\ g.token <= job'[g.job].attempts
    <3>1. CASE g = g0 BY <2>1, <3>1, SMT
    <3>2. CASE g \in grants
      <4>1. g.job \in JobIds /\ g.token \in Nat /\ job[g.job].state # "absent" /\ g.token <= job[g.job].attempts
        BY <3>2, GrantFields DEF LeaseInv, LeasesInOrder
      <4> QED BY <2>1, <4>1, SMT
    <3> QED BY <2>2, <3>1, <3>2
  <2> QED BY <2>3, <2>4, <2>5, <2>6, <2>7 DEF LeasesInOrder

<1> SUFFICES LeasesInOrder'
  BY StepType, StepRowsAgree DEF LeaseInv
<1>1. ASSUME job' = job, run' = run, grants' = grants PROVE LeasesInOrder'
  BY <1>1 DEF LeaseInv, LeasesInOrder, Active
<1>2. CASE UNCHANGED vars BY <1>1, <1>2 DEF vars
<1>3. CASE StepCases
  <2>1. StepCases BY <1>3
  <2>2. ASSUME JobsKept, KeepsRuns, grants' = grants PROVE LeasesInOrder'
    BY <2>2, <1>KeptJobsInOrder DEF JobsKept
  <2>3. ASSUME NEW g \in grants, NEW t \in Nat, NEW n \in Nat, Heartbeat(g, n, t)
        PROVE  LeasesInOrder'
    BY <2>2, <2>3, HeartbeatMoves DEF KeepsRuns
  <2>4. ASSUME NEW g \in grants, NEW t \in Nat, NEW result \in Results, NEW delivered \in BOOLEAN,
               CompleteJob(g, result, delivered, t)
        PROVE  LeasesInOrder'
    BY <2>2, <2>4, CompleteMoves, <1>MoveKeepsRuns
  <2>5. ASSUME NEW g \in grants, NEW result \in Results, CompletionRetry(g, result)
        PROVE  LeasesInOrder'
    BY <1>1, <2>5 DEF CompletionRetry
  <2>6. ASSUME NEW g \in grants, NEW t \in Nat, NEW retryable \in BOOLEAN, FailJob(g, retryable, t)
        PROVE  LeasesInOrder'
    BY <2>2, <2>6, FailMoves, <1>MoveKeepsRuns
  <2>7. ASSUME NEW g \in grants, NEW t \in Nat, NEW expires \in Nat, CreateCheckpoint(g, expires, t)
        PROVE  LeasesInOrder'
    BY <2>2, <2>7, CheckpointMoves, <1>MoveKeepsRuns
  <2>8. CASE WorkerCases BY <2>3, <2>4, <2>5, <2>6, <2>7, <2>8 DEF WorkerCases
  <2>9. CASE ApprovalCases
    <3>1. ASSUME NEW c \in JobIds, NEW t \in Nat, NEW j \in JobIds, ResumeCheckpoint(c, j, t)
          PROVE  LeasesInOrder'
      BY <3>1, ResumeMoves, <1>CreatedInOrder
    <3> QED BY <2>2, <2>9, <3>1, DecideMoves, ResumeTooLateMoves, <1>LapseKeepsRuns DEF ApprovalCases
  <2>10. CASE Tick BY <1>1, <2>10 DEF Tick
  <2>11. CASE \E r \in Runs : CancelRun(r) BY <2>2, <2>11, CancelMoves, <1>MoveKeepsRuns
  <2>12. CASE \E readAt \in Nat : ExpireDueApprovals(readAt)
    BY <2>2, <2>12, ExpireDueMoves, <1>LapseKeepsRuns
  <2>13. CASE \E r \in Runs, j \in JobIds, m \in Nat \ {0}, t \in Nat \ {0} : SubmitRun(r, j, m, t)
    BY <2>13, SubmitMoves, <1>CreatedInOrder
  <2>14. CASE \E S \in LeasedBatches, t \in Nat : ExpireLeases(S, t)
    BY <2>2, <2>14, ExpireLeasesMoves, <1>LapseKeepsRuns
  <2>15. CASE \E w \in Workers, j \in JobIds, n \in Nat \ {0}, t \in Nat \ {0} : ClaimJob(w, j, n, t)
    BY <2>15, <1>ClaimInOrder
  <2> QED BY <2>1, <2>8, <2>9, <2>10, <2>11, <2>12, <2>13, <2>14, <2>15 DEF StepCases
<1> QED BY <1>2, <1>3 DEF Step

(* They are in order in the empty database. *)
LEMMA InitInOrder == Init => LeaseInv
<1>1. Init => LeasesInOrder BY SMT DEF Init, LeasesInOrder, NoJob, Active
<1> QED BY <1>1, InitTypeOK, InitRowsAgree DEF LeaseInv

(* So they always are. *)
LEMMA LeasesAlwaysInOrder == Spec => []LeaseInv
<1>1. LeaseInv /\ [Next]_vars => LeaseInv' BY StepInOrder, NextIsStep DEF LeaseInv
<1> QED BY <1>1, InitInOrder, PTL DEF Spec

-----------------------------------------------------------------------------
(* Only the newest lease finalizes. *)

(* A finalization that passes the lease checks is made under the newest *)
(* lease of its Run.                                                    *)
LEMMA FinalizationIsNewest ==
  ASSUME LeaseInv, NEW h \in grants, NEW t \in Nat, NEW kind,
         RequireActiveLease(h, t), RecordEffect(h, kind, t),
         NEW e \in effects' \ effects, NEW g \in grants, job[g.job].run = job[e.job].run
  PROVE  g.job < e.job \/ (g.job = e.job /\ g.token <= e.token)
<1>1. e.job = h.job /\ e.token = h.token BY SMT DEF RecordEffect
<1>2. h.job \in JobIds /\ Active(h.job) /\ job[h.job].token = h.token /\ job[h.job].state = "leased"
  BY LeasedRow DEF LeaseInv
<1>3. g.job \in JobIds /\ job[g.job].state # "absent" /\ g.token <= job[g.job].attempts
  BY GrantFields DEF LeaseInv, LeasesInOrder
<1>4. g.job <= h.job BY <1>1, <1>2, <1>3 DEF LeaseInv, LeasesInOrder
<1>5. job[h.job].attempts = h.token BY <1>2 DEF LeaseInv, LeasesInOrder
<1> QED BY <1>1, <1>2, <1>3, <1>4, <1>5, SMT DEF JobIds

(* No call under a lease that expired and was claimed again, however late or  *)
(* often it arrives, changes the database: complete_job, fail_job and         *)
(* create_checkpoint act only under the newest lease of their Run.            *)
THEOREM OnlyNewestLeaseActs == Spec => NoStaleEffect
<1> DEFINE Newest == \A e \in effects' \ effects, g \in grants :
                       job[g.job].run = job[e.job].run =>
                         g.job < e.job \/ (g.job = e.job /\ g.token <= e.token)
<1>1. ASSUME LeaseInv, [Next]_vars PROVE [Newest]_vars
  <2>1. CASE UNCHANGED vars BY <2>1
  <2>2. CASE Next
    <3>1. StepCases BY <1>1, <2>2, NextCases DEF LeaseInv
    <3>2. ASSUME NEW h \in grants, NEW t \in Nat, NEW kind, RequireActiveLease(h, t),
                 RecordEffect(h, kind, t)
          PROVE  Newest
      BY <1>1, <3>2, FinalizationIsNewest
    <3>3. CASE effects' = effects BY <3>3
    <3>4. CASE WorkerCases
      <4>1. ASSUME NEW g \in grants, NEW t \in Nat,
                   \/ \E n \in Nat \ {0} : Heartbeat(g, n, t)
                   \/ \E result \in Results : CompletionRetry(g, result)
            PROVE  effects' = effects
        BY <4>1 DEF Heartbeat, CompletionRetry
      <4>2. ASSUME NEW g \in grants, NEW t \in Nat,
                   NEW result \in Results, NEW delivered \in BOOLEAN, CompleteJob(g, result, delivered, t)
            PROVE  RequireActiveLease(g, t) /\ RecordEffect(g, "complete", t)
        BY <4>2 DEF CompleteJob
      <4>3. ASSUME NEW g \in grants, NEW t \in Nat, NEW retryable \in BOOLEAN, FailJob(g, retryable, t)
            PROVE  RequireActiveLease(g, t) /\ RecordEffect(g, "fail", t)
        BY <4>3 DEF FailJob
      <4>4. ASSUME NEW g \in grants, NEW t \in Nat, NEW expires \in Nat, CreateCheckpoint(g, expires, t)
            PROVE  RequireActiveLease(g, t) /\ RecordEffect(g, "checkpoint", t)
        BY <4>4 DEF CreateCheckpoint
      <4> HIDE DEF Newest
      <4> QED BY <3>2, <3>3, <3>4, <4>1, <4>2, <4>3, <4>4 DEF WorkerCases
    <3>5. CASE ApprovalCases
      <4>1. ASSUME NEW c \in JobIds, NEW t \in Nat, NEW p \in Principals, NEW approve \in BOOLEAN,
                   DecideApproval(p, c, approve, t)
            PROVE  effects' = effects
        BY <4>1 DEF DecideApproval
      <4>2. ASSUME NEW c \in JobIds, NEW t \in Nat, NEW j \in JobIds, ResumeCheckpoint(c, j, t)
            PROVE  effects' = effects
        BY <4>2 DEF ResumeCheckpoint
      <4>3. ASSUME NEW c \in JobIds, NEW t \in Nat, ResumeTooLate(c, t) PROVE effects' = effects
        BY <4>3 DEF ResumeTooLate
      <4> QED BY <3>3, <3>5, <4>1, <4>2, <4>3 DEF ApprovalCases
    <3>6. CASE ~WorkerCases /\ ~ApprovalCases
      <4>1. effects' = effects
        BY <3>1, <3>6 DEF StepCases, Tick, CancelRun, ExpireDueApprovals, SubmitRun,
                                 ExpireLeases, ClaimJob
      <4> QED BY <3>3, <4>1
    <3> QED BY <3>4, <3>5, <3>6
  <2> QED BY <1>1, <2>1, <2>2
<1> QED BY <1>1, LeasesAlwaysInOrder, PTL DEF Spec, NoStaleEffect

-----------------------------------------------------------------------------
(* The database triggers reject no transaction.  The columns of a lease agree *)
(* on every row, and a queued Job has an attempt left: a claim may charge it. *)

RowAdmitted(x) == TriggerAdmitsLease(x) /\ (x.state = "queued" => x.attempts < x.max)

RowsAdmitted == \A j \in JobIds : job[j].state # "absent" => RowAdmitted(job[j])

TriggerInv == LeaseInv /\ RowsAdmitted

(* The change of a row from x to y. *)
UpdateAdmitted(x, y) ==
  /\ RowAdmitted(y)
  /\ IF x.state = "absent" THEN y.state # "leased" ELSE TriggerAdmitsJobUpdate(x, y)

JobsAdmitted == \A j \in JobIds : job'[j] = job[j] \/ UpdateAdmitted(job[j], job'[j])
RunsAdmitted == \A r \in Runs : TriggerAdmitsRun(run[r], run'[r])

(* The triggers admit every row a transaction writes. *)
LEMMA StepAdmitted ==
  ASSUME TriggerInv, StepCases
  PROVE  JobsAdmitted /\ RunsAdmitted
(* A lease is given back by a retry, or ended in one of these states. *)
<1>EndedUpdate.
  ASSUME NEW x \in JobRecord, RowAdmitted(x), x.state = "leased",
         NEW s \in {"failed", "dead-letter", "cancelled"}
  PROVE  UpdateAdmitted(x, [ClearedLease(x) EXCEPT !.state = s])
  <2> USE <1>EndedUpdate
  <2> DEFINE y == [ClearedLease(x) EXCEPT !.state = s]
  <2>1. /\ y.state = s /\ y.max = x.max /\ y.attempts = x.attempts /\ y.deadline = 0
        /\ y.event = 0 /\ y.run = x.run /\ y.resumes = x.resumes
    BY DEF ClearedLease, JobRecord
  <2>2. x.attempts \in Nat /\ x.max \in Nat BY DEF JobRecord
  <2> SUFFICES UpdateAdmitted(x, y) OBVIOUS
  <2> HIDE DEF y
  <2> QED BY <2>1, <2>2 DEF UpdateAdmitted, RowAdmitted, TriggerAdmitsLease, TriggerAdmitsJobUpdate, JobStates

<1>CancelledUpdate.
  ASSUME NEW x \in JobRecord, RowAdmitted(x), x.state \in {"queued", "leased"}
  PROVE  UpdateAdmitted(x, CancelledJob(x))
  <2> USE <1>CancelledUpdate
  <2> DEFINE y == CancelledJob(x)
  <2>1. /\ y.state = "cancelled" /\ y.max = x.max /\ y.attempts = x.attempts /\ y.deadline = 0
        /\ y.event = 0 /\ y.run = x.run /\ y.resumes = x.resumes
    BY DEF CancelledJob, ClearedLease, JobRecord
  <2>2. x.attempts \in Nat /\ x.max \in Nat BY DEF JobRecord
  <2> SUFFICES UpdateAdmitted(x, y) OBVIOUS
  <2> HIDE DEF y
  <2> QED BY <2>1, <2>2 DEF UpdateAdmitted, RowAdmitted, TriggerAdmitsLease, TriggerAdmitsJobUpdate, JobStates

<1>RequeuedUpdate.
  ASSUME NEW x \in JobRecord, RowAdmitted(x), x.state = "leased", x.attempts < x.max, NEW t
  PROVE  UpdateAdmitted(x, RequeuedJob(x, t))
  <2> USE <1>RequeuedUpdate
  <2> DEFINE y == RequeuedJob(x, t)
  <2>1. /\ y.state = "queued" /\ y.max = x.max /\ y.attempts = x.attempts /\ y.deadline = 0
        /\ y.event = 0 /\ y.run = x.run /\ y.resumes = x.resumes
    BY DEF RequeuedJob, ClearedLease, JobRecord
  <2>2. x.attempts \in Nat /\ x.max \in Nat BY DEF JobRecord
  <2> SUFFICES UpdateAdmitted(x, y) OBVIOUS
  <2> HIDE DEF y
  <2> QED BY <2>1, <2>2 DEF UpdateAdmitted, RowAdmitted, TriggerAdmitsLease, TriggerAdmitsJobUpdate, JobStates

<1>SucceededUpdate.
  ASSUME NEW x \in JobRecord, RowAdmitted(x), x.state = "leased", NEW result
  PROVE  UpdateAdmitted(x, SucceededJob(x, result))
  <2> USE <1>SucceededUpdate
  <2> DEFINE y == SucceededJob(x, result)
  <2>1. /\ y.state = "succeeded" /\ y.max = x.max /\ y.attempts = x.attempts /\ y.deadline = 0
        /\ y.event = 0 /\ y.run = x.run /\ y.resumes = x.resumes
    BY DEF SucceededJob, JobRecord
  <2>2. x.attempts \in Nat /\ x.max \in Nat BY DEF JobRecord
  <2> SUFFICES UpdateAdmitted(x, y) OBVIOUS
  <2> HIDE DEF y
  <2> QED BY <2>1, <2>2 DEF UpdateAdmitted, RowAdmitted, TriggerAdmitsLease, TriggerAdmitsJobUpdate, JobStates

(* A renewal moves the heartbeat forward and stays before the deadline, also  *)
(* when the clock of the renewing server is behind.                           *)
<1>RenewedUpdate.
  ASSUME NEW x \in JobRecord, RowAdmitted(x), x.state = "leased", NEW n \in Nat \ {0}, NEW t \in Nat,
         Greatest(t, x.heartbeat) < x.deadline
  PROVE  UpdateAdmitted(x, RenewedJob(x, n, Greatest(t, x.heartbeat)))
  <2> USE <1>RenewedUpdate
  <2> DEFINE renewed == Greatest(t, x.heartbeat)
             event == HeartbeatEventAt(x, renewed)
             y == RenewedJob(x, n, renewed)
  <2>1. /\ y.state = "leased" /\ y.max = x.max /\ y.attempts = x.attempts /\ y.deadline = x.deadline
        /\ y.run = x.run /\ y.resumes = x.resumes /\ y.owner = x.owner /\ y.token = x.token
        /\ y.heartbeat = renewed /\ y.event = event /\ y.expires = Least(renewed + n, x.deadline)
    BY DEF JobRecord, RenewedJob
  <2>2. x.heartbeat \in Nat /\ x.deadline \in Nat /\ x.event \in Nat BY DEF JobRecord
  <2>3. /\ renewed \in Nat /\ renewed >= x.heartbeat /\ renewed < x.deadline
        /\ x.heartbeat # 0 => renewed # 0
        /\ Least(renewed + n, x.deadline) \in Nat /\ Least(renewed + n, x.deadline) <= x.deadline
        /\ x.deadline # 0 => Least(renewed + n, x.deadline) # 0
    BY <2>2, SMT DEF Greatest, Least
  <2>4. TriggerAdmitsLease(x) /\ MaxLease \in Nat BY ControlPlaneAssumption DEF RowAdmitted
  <2>5. event <= renewed
    <3>1. x.event <= x.heartbeat BY <2>4 DEF TriggerAdmitsLease
    <3> HIDE DEF renewed
    <3> QED BY <2>2, <2>3, <3>1, SMT DEF HeartbeatEventAt
  <2> SUFFICES UpdateAdmitted(x, y) OBVIOUS
  <2> HIDE DEF y, renewed, event
  <2>6. TriggerAdmitsLease(y)
    <3>1. renewed <= x.deadline /\ x.deadline <= renewed + MaxLease
      <4>1. x.deadline <= x.heartbeat + MaxLease BY <2>4 DEF TriggerAdmitsLease
      <4>2. MaxLease \in Nat BY <2>4
      <4> QED BY <2>2, <2>3, <4>1, <4>2, SMT
    <3> QED BY <2>1, <2>3, <2>4, <2>5, <3>1 DEF TriggerAdmitsLease
  <2>7. TriggerAdmitsJobUpdate(x, y) BY <2>1, <2>2, SMT DEF TriggerAdmitsJobUpdate
  <2> QED BY <2>1, <2>6, <2>7 DEF UpdateAdmitted, RowAdmitted

<1>MoveAdmitted.
  ASSUME NEW r, NEW a, NEW b, RunMoves(r, a, b),
         \/ a = "absent" /\ b = "queued"
         \/ a = "queued" /\ b \in {"running", "cancelled"}
         \/ a = "running" /\ b \in RunStates
         \/ a = "awaiting-approval" /\ b \in {"queued", "cancelled"}
  PROVE  RunsAdmitted
  BY <1>MoveAdmitted DEF RunMoves, RunsAdmitted, TriggerAdmitsRun

<1>LapseAdmitted. RunsLapse => RunsAdmitted
  BY DEF RunsLapse, RunsAdmitted, TriggerAdmitsRun, RunStates

(* What a Worker call finds on the row of its lease. *)
<1>AdmittedHolder.
  ASSUME TriggerInv, NEW g \in grants, NEW t \in Nat, RequireActiveLease(g, t)
  PROVE  /\ g.job \in JobIds /\ job[g.job] \in JobRecord /\ RowAdmitted(job[g.job])
         /\ job[g.job].state = "leased" /\ t < job[g.job].deadline
  BY <1>AdmittedHolder, LeasedRow DEF TriggerInv, LeaseInv, RowsAdmitted

<1>HeartbeatAdmitted.
  ASSUME TriggerInv, NEW g \in grants, NEW n \in Nat \ {0}, NEW t \in Nat, Heartbeat(g, n, t)
  PROVE  JobsAdmitted
  <2> USE <1>HeartbeatAdmitted
  <2> DEFINE x == job[g.job]
             renewed == Greatest(t, x.heartbeat)
  <2>1. g.job \in JobIds /\ x \in JobRecord BY GrantFields DEF TriggerInv, LeaseInv
  <2>2. renewed \in Nat BY <2>1 DEF Greatest, JobRecord
  <2>3. RowAdmitted(x) /\ x.state = "leased" /\ renewed < x.deadline
    BY <2>2, <1>AdmittedHolder DEF Heartbeat
  <2>4. /\ job'[g.job] = RenewedJob(x, n, renewed)
        /\ \A k \in JobIds \ {g.job} : job'[k] = job[k]
    BY <2>1 DEF Heartbeat, TriggerInv, LeaseInv, TypeOK
  <2>5. UpdateAdmitted(x, job'[g.job]) BY <2>1, <2>3, <2>4, <1>RenewedUpdate
  <2> QED BY <2>4, <2>5 DEF JobsAdmitted

<1>SucceedAdmitted.
  ASSUME TriggerInv, NEW g \in grants, NEW t \in Nat, RequireActiveLease(g, t), NEW result,
         job' = [job EXCEPT ![g.job] = SucceededJob(@, result)]
  PROVE  JobsAdmitted
  <2> USE <1>SucceedAdmitted
  <2>1. /\ g.job \in JobIds /\ job[g.job] \in JobRecord /\ RowAdmitted(job[g.job])
        /\ job[g.job].state = "leased"
    BY <1>AdmittedHolder
  <2>2. job'[g.job] = SucceededJob(job[g.job], result) /\ \A k \in JobIds \ {g.job} : job'[k] = job[k]
    BY <2>1 DEF TriggerInv, LeaseInv, TypeOK
  <2>3. UpdateAdmitted(job[g.job], job'[g.job]) BY <2>1, <2>2, <1>SucceededUpdate
  <2> QED BY <2>2, <2>3 DEF JobsAdmitted

<1>FailAdmitted.
  ASSUME TriggerInv, NEW g \in grants, NEW retryable \in BOOLEAN, NEW t \in Nat,
         FailJob(g, retryable, t)
  PROVE  JobsAdmitted
  <2> USE <1>FailAdmitted
  <2> DEFINE x == job[g.job]
  <2>1. g.job \in JobIds /\ x \in JobRecord /\ RowAdmitted(x) /\ x.state = "leased"
    BY <1>AdmittedHolder DEF FailJob
  <2>2. /\ \/ job'[g.job] = RequeuedJob(x, t) /\ ~(x.attempts >= x.max)
           \/ job'[g.job] = [ClearedLease(x) EXCEPT !.state = "dead-letter"]
           \/ job'[g.job] = [ClearedLease(x) EXCEPT !.state = "failed"]
        /\ \A k \in JobIds \ {g.job} : job'[k] = job[k]
    BY <2>1 DEF FailJob, TriggerInv, LeaseInv, TypeOK
  <2>3. ~(x.attempts >= x.max) => x.attempts < x.max BY <2>1, SMT DEF JobRecord
  <2>4. UpdateAdmitted(x, job'[g.job])
    <3>1. /\ UpdateAdmitted(x, [ClearedLease(x) EXCEPT !.state = "dead-letter"])
          /\ UpdateAdmitted(x, [ClearedLease(x) EXCEPT !.state = "failed"])
      BY <2>1, <1>EndedUpdate
    <3>2. ~(x.attempts >= x.max) => UpdateAdmitted(x, RequeuedJob(x, t))
      BY <2>1, <2>3, <1>RequeuedUpdate
    <3> QED BY <2>2, <3>1, <3>2
  <2> QED BY <2>2, <2>4 DEF JobsAdmitted

<1>ExpireLeasesAdmitted.
  ASSUME TriggerInv, NEW S \in LeasedBatches, NEW t \in Nat, ExpireLeases(S, t)
  PROVE  JobsAdmitted
  <2> USE <1>ExpireLeasesAdmitted
  <2>1. ASSUME NEW j \in S PROVE UpdateAdmitted(job[j], job'[j])
    <3>1. j \in JobIds /\ job[j].state = "leased" BY DEF LeasedBatches
    <3>2. job[j] \in JobRecord /\ RowAdmitted(job[j]) /\ job'[j] = SweptJob(j, t)
      BY <3>1 DEF TriggerInv, LeaseInv, TypeOK, RowsAdmitted, ExpireLeases
    <3>3. \/ job'[j] = CancelledJob(job[j])
          \/ job'[j] = RequeuedJob(job[j], t) /\ job[j].attempts < job[j].max
          \/ job'[j] = [ClearedLease(job[j]) EXCEPT !.state = "dead-letter"]
      BY <3>2 DEF SweptJob
    <3> QED BY <3>1, <3>2, <3>3, <1>CancelledUpdate, <1>RequeuedUpdate, <1>EndedUpdate
  <2>2. \A j \in JobIds \ S : job'[j] = job[j] BY DEF ExpireLeases
  <2> QED BY <2>1, <2>2 DEF JobsAdmitted

<1>CancelAdmitted.
  ASSUME TriggerInv, NEW r \in Runs, CancelRun(r)
  PROVE  JobsAdmitted
  <2> USE <1>CancelAdmitted
  <2> SUFFICES ASSUME NEW j \in JobIds PROVE job'[j] = job[j] \/ UpdateAdmitted(job[j], job'[j])
    BY DEF JobsAdmitted
  <2>1. CASE job[j].run = r /\ Active(j)
    <3>1. job[j] \in JobRecord /\ RowAdmitted(job[j]) /\ job'[j] = CancelledJob(job[j])
      BY <2>1 DEF TriggerInv, LeaseInv, TypeOK, RowsAdmitted, CancelRun, Active
    <3> QED BY <2>1, <3>1, <1>CancelledUpdate DEF Active
  <2>2. CASE ~(job[j].run = r /\ Active(j)) BY <2>2 DEF CancelRun
  <2> QED BY <2>1, <2>2

<1>ClaimAdmitted.
  ASSUME TriggerInv, NEW w \in Workers, NEW j \in JobIds, NEW n \in Nat \ {0}, NEW t \in Nat \ {0},
         ClaimJob(w, j, n, t)
  PROVE  JobsAdmitted
  <2> USE <1>ClaimAdmitted
  <2> DEFINE x == job[j]
             y == [x EXCEPT !.state = "leased", !.owner = w, !.token = FreshToken(j),
                            !.expires = Least(t + n, t + MaxLease),
                            !.deadline = t + MaxLease, !.heartbeat = t,
                            !.event = 0, !.attempts = x.attempts + 1]
  <2>1. x.state = "queued" /\ x \in JobRecord /\ RowAdmitted(x)
    BY DEF ClaimJob, ClaimSelects, ClaimableJobs, TriggerInv, LeaseInv, TypeOK, RowsAdmitted
  <2>2. run[x.run].state = "queued"
    BY <2>1 DEF TriggerInv, LeaseInv, RowsAgree, JobMatchesRun
  <2>3. job'[j] = y /\ \A k \in JobIds \ {j} : job'[k] = job[k]
    BY <2>1, <2>2 DEF ClaimJob, TriggerInv, LeaseInv, TypeOK
  <2>4. /\ y.state = "leased" /\ y.owner = w /\ y.token = x.attempts + 1
        /\ y.expires = Least(t + n, t + MaxLease) /\ y.deadline = t + MaxLease /\ y.heartbeat = t
        /\ y.event = 0 /\ y.attempts = x.attempts + 1 /\ y.max = x.max /\ y.run = x.run /\ y.resumes = x.resumes
    BY <2>1 DEF JobRecord, FreshToken
  <2>5. /\ x.attempts \in Nat /\ x.max \in Nat /\ x.attempts < x.max /\ w # None /\ MaxLease \in Nat
        /\ x.max <= 20
    BY <2>1, ControlPlaneAssumption DEF JobRecord, RowAdmitted, TriggerAdmitsLease
  <2>6. /\ Least(t + n, t + MaxLease) \in Nat \ {0} /\ Least(t + n, t + MaxLease) <= t + MaxLease
    BY <2>5, SMT DEF Least
  <2> HIDE DEF y
  <2>7. RowAdmitted(y)
    BY <2>4, <2>5, <2>6, SMT DEF RowAdmitted, TriggerAdmitsLease
  <2>8. TriggerAdmitsJobUpdate(x, y) BY <2>1, <2>4 DEF TriggerAdmitsJobUpdate
  <2> QED BY <2>1, <2>3, <2>7, <2>8 DEF JobsAdmitted, UpdateAdmitted

<1>CreatedAdmitted.
  ASSUME NEW j \in JobIds, job[j].state = "absent", \A k \in JobIds \ {j} : job'[k] = job[k],
         job'[j].state = "queued", job'[j].attempts = 0, job'[j].deadline = 0, job'[j].event = 0,
         job'[j].max \in Nat \ {0}, job'[j].max <= 20
  PROVE  JobsAdmitted
  BY <1>CreatedAdmitted, SMT DEF JobsAdmitted, UpdateAdmitted, RowAdmitted, TriggerAdmitsLease

<1>SubmitAdmitted.
  ASSUME TriggerInv, NEW r \in Runs, NEW j \in JobIds, NEW m \in Nat \ {0}, NEW t \in Nat,
         m <= 20, SubmitRun(r, j, m, t)
  PROVE  JobsAdmitted
  <2> USE <1>SubmitAdmitted
  <2>1. /\ job[j].state = "absent" /\ \A k \in JobIds \ {j} : job'[k] = job[k]
        /\ job'[j].state = "queued" /\ job'[j].attempts = 0 /\ job'[j].deadline = 0
        /\ job'[j].event = 0
        /\ job'[j].max = m
    BY DEF SubmitRun, IsFreshJob, TriggerInv, LeaseInv, TypeOK, NoJob
  <2> QED BY <2>1, <1>CreatedAdmitted

<1>ResumeAdmitted.
  ASSUME TriggerInv, NEW c \in JobIds, NEW j \in JobIds, NEW t \in Nat, ResumeCheckpoint(c, j, t)
  PROVE  JobsAdmitted
  <2> USE <1>ResumeAdmitted
  <2>1. /\ job[j].state = "absent" /\ \A k \in JobIds \ {j} : job'[k] = job[k]
        /\ job'[j].state = "queued" /\ job'[j].attempts = 0 /\ job'[j].deadline = 0
        /\ job'[j].event = 0
        /\ job'[j].max = job[c].max
    BY DEF ResumeCheckpoint, IsFreshJob, TriggerInv, LeaseInv, TypeOK, NoJob
  <2>2. job[c].state = "succeeded" /\ job[c] \in JobRecord
    BY DEF ResumeCheckpoint, MayResume, TriggerInv, LeaseInv, TypeOK, RowsAgree, RowsBelong
  <2>3. job[c].max \in Nat \ {0} /\ job[c].max <= 20
    BY <2>2, SMT DEF TriggerInv, RowsAdmitted, RowAdmitted, TriggerAdmitsLease, JobRecord
  <2> QED BY <2>1, <2>3, <1>CreatedAdmitted

<1>1. LeaseInv BY DEF TriggerInv
<1>2. ASSUME job' = job PROVE JobsAdmitted BY <1>2 DEF JobsAdmitted
<1>3. ASSUME run' = run PROVE RunsAdmitted BY <1>3 DEF RunsAdmitted, TriggerAdmitsRun
<1>4. CASE WorkerCases
  <2>1. ASSUME NEW g \in grants, NEW t \in Nat, NEW n \in Nat \ {0}, Heartbeat(g, n, t)
        PROVE  JobsAdmitted /\ RunsAdmitted
    BY <1>1, <1>3, <2>1, <1>HeartbeatAdmitted, HeartbeatMoves
  <2>2. ASSUME NEW g \in grants, NEW t \in Nat, NEW result \in Results, NEW delivered \in BOOLEAN,
               CompleteJob(g, result, delivered, t)
        PROVE  JobsAdmitted /\ RunsAdmitted
    <3>1. JobsAdmitted BY <2>2, <1>SucceedAdmitted DEF CompleteJob
    <3>2. RunsAdmitted BY <1>1, <2>2, CompleteMoves, <1>MoveAdmitted DEF RunStates
    <3> QED BY <3>1, <3>2
  <2>3. ASSUME NEW g \in grants, NEW result \in Results, CompletionRetry(g, result)
        PROVE  JobsAdmitted /\ RunsAdmitted
    BY <1>2, <1>3, <2>3 DEF CompletionRetry
  <2>4. ASSUME NEW g \in grants, NEW t \in Nat, NEW retryable \in BOOLEAN, FailJob(g, retryable, t)
        PROVE  JobsAdmitted /\ RunsAdmitted
    BY <1>1, <2>4, <1>FailAdmitted, FailMoves, <1>MoveAdmitted DEF RunStates
  <2>5. ASSUME NEW g \in grants, NEW t \in Nat, NEW expires \in Nat, CreateCheckpoint(g, expires, t)
        PROVE  JobsAdmitted /\ RunsAdmitted
    <3>1. JobsAdmitted BY <2>5, <1>SucceedAdmitted DEF CreateCheckpoint
    <3>2. RunsAdmitted BY <1>1, <2>5, CheckpointMoves, <1>MoveAdmitted DEF RunStates
    <3> QED BY <3>1, <3>2
  <2> QED BY <1>4, <2>1, <2>2, <2>3, <2>4, <2>5 DEF WorkerCases
<1>5. CASE ApprovalCases
  <2>1. ASSUME NEW c \in JobIds, NEW t \in Nat, NEW p \in Principals, NEW approve \in BOOLEAN,
               DecideApproval(p, c, approve, t)
        PROVE  JobsAdmitted /\ RunsAdmitted
    <3>1. job' = job BY <2>1 DEF DecideApproval
    <3> QED BY <1>1, <1>2, <2>1, <3>1, DecideMoves, <1>LapseAdmitted
  <2>2. ASSUME NEW c \in JobIds, NEW t \in Nat, ResumeTooLate(c, t)
        PROVE  JobsAdmitted /\ RunsAdmitted
    <3>1. job' = job BY <2>2 DEF ResumeTooLate
    <3> QED BY <1>1, <1>2, <2>2, <3>1, ResumeTooLateMoves, <1>LapseAdmitted
  <2>3. ASSUME NEW c \in JobIds, NEW t \in Nat, NEW j \in JobIds, ResumeCheckpoint(c, j, t)
        PROVE  JobsAdmitted /\ RunsAdmitted
    BY <1>1, <2>3, <1>ResumeAdmitted, ResumeMoves, <1>MoveAdmitted
  <2> QED BY <1>5, <2>1, <2>2, <2>3 DEF ApprovalCases
<1>6. CASE Tick BY <1>2, <1>3, <1>6 DEF Tick
<1>7. ASSUME NEW r \in Runs, CancelRun(r) PROVE JobsAdmitted /\ RunsAdmitted
  BY <1>1, <1>7, <1>CancelAdmitted, CancelMoves, <1>MoveAdmitted DEF CancellableRunStates, RunStates
<1>8. ASSUME NEW readAt \in Nat, ExpireDueApprovals(readAt) PROVE JobsAdmitted /\ RunsAdmitted
  <2>1. job' = job BY <1>8 DEF ExpireDueApprovals
  <2> QED BY <1>1, <1>2, <1>8, <2>1, ExpireDueMoves, <1>LapseAdmitted
<1>9. CASE \E r \in Runs, j \in JobIds, m \in Nat \ {0}, t \in Nat \ {0} :
             m <= 20 /\ SubmitRun(r, j, m, t)
  BY <1>1, <1>9, <1>SubmitAdmitted, SubmitMoves, <1>MoveAdmitted
<1>10. CASE \E S \in LeasedBatches, t \in Nat : ExpireLeases(S, t)
  BY <1>1, <1>10, <1>ExpireLeasesAdmitted, ExpireLeasesMoves, <1>LapseAdmitted
<1>11. CASE \E w \in Workers, j \in JobIds, n \in Nat \ {0}, t \in Nat \ {0} : ClaimJob(w, j, n, t)
  BY <1>1, <1>11, <1>ClaimAdmitted, ClaimMoves, <1>MoveAdmitted
<1> QED BY <1>1, <1>4, <1>5, <1>6, <1>7, <1>8, <1>9, <1>10, <1>11 DEF StepCases

(* The columns agree in the empty database. *)
LEMMA TriggerInvInitially == Init => TriggerInv
<1>1. Init => RowsAdmitted BY SMT DEF Init, RowsAdmitted, NoJob
<1> QED BY <1>1, InitInOrder DEF TriggerInv

(* Every transaction keeps them so. *)
LEMMA StepTriggerInv ==
  ASSUME TriggerInv, Step
  PROVE  TriggerInv'
<1>1. LeaseInv' BY StepInOrder DEF TriggerInv
<1>2. CASE UNCHANGED vars
  <2>1. RowsAdmitted' BY <1>2 DEF vars, TriggerInv, RowsAdmitted
  <2> QED BY <1>1, <2>1 DEF TriggerInv
<1>3. CASE StepCases
  <2>1. JobsAdmitted BY <1>3, StepAdmitted
  <2>2. RowsAdmitted' BY <2>1 DEF TriggerInv, JobsAdmitted, UpdateAdmitted, RowsAdmitted
  <2> QED BY <1>1, <2>2 DEF TriggerInv
<1> QED BY <1>2, <1>3 DEF Step

(* No transaction of service.py, claim_service.py or lifecycle_service.py     *)
(* writes a row that the triggers of the schema reject, whatever the clocks   *)
(* of the servers show, and no terminal Run or Job is ever written again.     *)
THEOREM TriggersNeverReject == Spec => ServiceObeysTriggers
<1> DEFINE Obeys == /\ \A r \in Runs : TriggerAdmitsRun(run[r], run'[r])
                    /\ \A j \in JobIds : TriggerAdmitsJob(job[j], job'[j])
<1>1. TriggerInv /\ [Next]_vars => TriggerInv'
  BY StepTriggerInv, NextIsStep DEF TriggerInv, LeaseInv
<1>2. ASSUME TriggerInv, [Next]_vars PROVE [Obeys]_vars
  <2>1. CASE UNCHANGED vars BY <2>1
  <2>2. CASE Next
    <3>1. JobsAdmitted /\ RunsAdmitted
      BY <1>2, <2>2, NextCases, StepAdmitted DEF TriggerInv, LeaseInv
    <3> QED BY <3>1 DEF JobsAdmitted, RunsAdmitted, UpdateAdmitted, RowAdmitted, TriggerAdmitsJob
  <2> QED BY <1>2, <2>1, <2>2
<1> QED BY TriggerInvInitially, <1>1, <1>2, PTL DEF Spec, ServiceObeysTriggers

-----------------------------------------------------------------------------
(* The transactions that finish no Job. *)

(* The transactions that finish no Job and answer no completion. *)
LEMMA QuietCases ==
  ASSUME LeaseInv, StepCases, ~WorkerCases
  PROVE  NoneEnters("succeeded") /\ acked' = acked
<1>SameJobsEnterNothing. job' = job => \A s : NoneEnters(s)
  BY DEF NoneEnters

<1>SweepSucceedsNone.
  ASSUME LeaseInv, NEW S \in LeasedBatches, NEW t \in Nat, ExpireLeases(S, t)
  PROVE  NoneEnters("succeeded")
  <2> USE <1>SweepSucceedsNone
  <2>1. ASSUME NEW j \in S PROVE job'[j].state # "succeeded"
    <3>1. j \in JobIds BY DEF LeasedBatches
    <3>2. job[j] \in JobRecord /\ job'[j] = SweptJob(j, t) BY <3>1 DEF LeaseInv, TypeOK, ExpireLeases
    <3>3. \E s \in {"cancelled", "queued", "dead-letter"} : EndsAs(job[j], SweptJob(j, t), s)
      BY <3>2, CancelledRow, RequeuedRow, ClearedRow DEF SweptJob
    <3> QED BY <3>2, <3>3 DEF EndsAs
  <2>2. \A j \in JobIds \ S : job'[j] = job[j] BY DEF ExpireLeases
  <2> QED BY <2>1, <2>2 DEF NoneEnters

<1>CancelSucceedsNone.
  ASSUME LeaseInv, NEW r \in Runs, CancelRun(r)
  PROVE  NoneEnters("succeeded")
  <2> USE <1>CancelSucceedsNone
  <2>1. ASSUME NEW j \in JobIds PROVE job'[j] = job[j] \/ job'[j].state = "cancelled"
    <3>1. job[j] \in JobRecord BY DEF LeaseInv, TypeOK
    <3>2. job'[j] = job[j] \/ job'[j] = CancelledJob(job[j]) BY DEF CancelRun
    <3> QED BY <3>1, <3>2, CancelledRow DEF EndsAs
  <2> QED BY <2>1 DEF NoneEnters

<1>1. ASSUME NEW c \in JobIds, NEW t \in Nat, NEW p \in Principals, NEW approve \in BOOLEAN,
             DecideApproval(p, c, approve, t)
      PROVE  job' = job /\ acked' = acked
  BY <1>1 DEF DecideApproval
<1>2. ASSUME NEW c \in JobIds, NEW t \in Nat, ResumeTooLate(c, t) PROVE job' = job /\ acked' = acked
  BY <1>2 DEF ResumeTooLate
<1>3. ASSUME NEW c \in JobIds, NEW t \in Nat, NEW j \in JobIds, ResumeCheckpoint(c, j, t)
      PROVE  NoneEnters("succeeded") /\ acked' = acked
  <2>1. acked' = acked BY <1>3 DEF ResumeCheckpoint
  <2> QED BY <1>3, <2>1, ResumeMoves DEF JobCreated, NoneEnters
<1>4. CASE ApprovalCases
  BY <1>1, <1>2, <1>3, <1>4, <1>SameJobsEnterNothing DEF ApprovalCases
<1>5. CASE Tick BY <1>5, <1>SameJobsEnterNothing DEF Tick
<1>6. ASSUME NEW r \in Runs, CancelRun(r) PROVE NoneEnters("succeeded") /\ acked' = acked
  <2>1. acked' = acked BY <1>6 DEF CancelRun
  <2> QED BY <1>6, <2>1, <1>CancelSucceedsNone
<1>7. CASE \E readAt \in Nat : ExpireDueApprovals(readAt)
  BY <1>7, <1>SameJobsEnterNothing DEF ExpireDueApprovals
<1>8. ASSUME NEW r \in Runs, NEW j \in JobIds, NEW m \in Nat, NEW t \in Nat, SubmitRun(r, j, m, t)
      PROVE  NoneEnters("succeeded") /\ acked' = acked
  <2>1. acked' = acked BY <1>8 DEF SubmitRun
  <2> QED BY <1>8, <2>1, SubmitMoves DEF JobCreated, NoneEnters
<1>9. ASSUME NEW S \in LeasedBatches, NEW t \in Nat, ExpireLeases(S, t)
      PROVE  NoneEnters("succeeded") /\ acked' = acked
  <2>1. acked' = acked BY <1>9 DEF ExpireLeases
  <2> QED BY <1>9, <2>1, <1>SweepSucceedsNone
<1>10. ASSUME NEW w \in Workers, NEW j \in JobIds, NEW n \in Nat, NEW t \in Nat, ClaimJob(w, j, n, t)
       PROVE  NoneEnters("succeeded") /\ acked' = acked
  <2>1. acked' = acked BY <1>10 DEF ClaimJob
  <2> QED BY <1>10, <2>1, ClaimMoves DEF NoneEnters
<1> QED BY <1>4, <1>5, <1>6, <1>7, <1>8, <1>9, <1>10 DEF StepCases

=============================================================================
