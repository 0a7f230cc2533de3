-------------------- MODULE ControlPlaneAuthorityProofs ---------------------
(***************************************************************************)
(* What a Run may rely on, for every value of the constants: the Control   *)
(* Plane implements RunAuthority; what was acknowledged stays; a resumed   *)
(* Run was authorised; and a lease acts at most once, and in time.         *)
(***************************************************************************)
EXTENDS ControlPlaneProofs, ControlPlaneRefinement

\* The prover of a step that names no other.
USE ZenonT(40)

-----------------------------------------------------------------------------
(* The Control Plane implements RunAuthority. *)

(* The phase each Run state stands for. *)
LEMMA PhaseTable ==
  /\ PhaseOf("absent") = "none" /\ PhaseOf("queued") = "idle" /\ PhaseOf("running") = "held"
  /\ PhaseOf("awaiting-approval") = "waiting"
  /\ \A s \in {"completed", "failed", "cancelled"} : PhaseOf(s) = s
BY DEF PhaseOf

(* The lease of a Run is the one of its leased Job, if it has one. *)
LEMMA LeaseOfRun ==
  RowsAgree =>
    \A r \in Runs :
      /\ run[r].state # "running" => RunLease[r] = NoLease
      /\ \A j \in JobIds : job[j].state = "leased" /\ job[j].run = r => RunLease[r] = <<j, job[j].token>>
<1> SUFFICES ASSUME RowsAgree, NEW r \in Runs
             PROVE  /\ run[r].state # "running" => RunLease[r] = NoLease
                    /\ \A j \in JobIds : job[j].state = "leased" /\ job[j].run = r =>
                         RunLease[r] = <<j, job[j].token>>
  OBVIOUS
<1>1. RunLease[r] = IF LeasedJobs(r) = {} THEN NoLease
                    ELSE LeaseOf(CHOOSE j \in LeasedJobs(r) : TRUE)
  BY DEF RunLease
<1>2. run[r].state # "running" => LeasedJobs(r) = {}
  BY DEF LeasedJobs, JobsOf, RowsAgree, JobMatchesRun
<1>3. ASSUME NEW j \in JobIds, job[j].state = "leased", job[j].run = r
      PROVE  RunLease[r] = <<j, job[j].token>>
  <2>1. LeasedJobs(r) = {j}
    BY <1>3 DEF LeasedJobs, JobsOf, RowsAgree, JobMatchesRun, Active
  <2>2. (CHOOSE k \in LeasedJobs(r) : TRUE) = j BY <2>1
  <2> QED BY <1>1, <2>1, <2>2 DEF LeaseOf
<1> QED BY <1>1, <1>2, <1>3

(* A step leases no Job of r. *)
NoNewLease(r) ==
  \A j \in JobIds : job'[j].state = "leased" /\ job'[j].run = r =>
    job[j].state = "leased" /\ job[j].run = r /\ job'[j].token = job[j].token

(* Every transaction is a step of RunAuthority or leaves its state alone. *)
LEMMA StepImplements ==
  ASSUME LeaseInv, Step
  PROVE  [Authority!Next]_(Authority!authority)
<1>PhaseType.
  ASSUME NEW s \in RunStates \cup {"absent"}
  PROVE  PhaseOf(s) \in Authority!Phases
  BY <1>PhaseType, PhaseTable DEF RunStates, Authority!Phases, Authority!Outcomes

<1>LeaseOfRunNext.
  RowsAgree' =>
    (\A r \in Runs :
       /\ run[r].state # "running" => RunLease[r] = NoLease
       /\ \A j \in JobIds : job[j].state = "leased" /\ job[j].run = r =>
            RunLease[r] = <<j, job[j].token>>)'
  BY LeaseOfRun, PTL

<1>SameLease.
  ASSUME RowsAgree, RowsAgree', NEW r \in Runs, NoNewLease(r), run'[r].state = run[r].state
  PROVE  RunLease'[r] = RunLease[r]
  <2> USE <1>SameLease
  <2>1. CASE run[r].state # "running"
    BY <2>1, LeaseOfRun, <1>LeaseOfRunNext
  <2>2. CASE run[r].state = "running"
    <3>1. PICK j \in JobIds : job'[j].state = "leased" /\ job'[j].run = r
      BY <2>2, SMT DEF RowsAgree, NoRunStranded, JobsOf
    <3>2. job[j].state = "leased" /\ job[j].run = r /\ job'[j].token = job[j].token
      BY <3>1 DEF NoNewLease
    <3>3. RunLease[r] = <<j, job[j].token>> BY <3>2, LeaseOfRun
    <3>4. RunLease'[r] = <<j, job'[j].token>> BY <3>1, <1>LeaseOfRunNext
    <3> QED BY <3>2, <3>3, <3>4
  <2> QED BY <2>1, <2>2

<1>SpentUnchanged. grants' = grants => GrantedLeases' = GrantedLeases
  BY DEF GrantedLeases

(* One Run moves and is held by no lease afterwards. *)
<1>MoveImplements.
  ASSUME RowsAgree, RowsAgree', grants' = grants, \A q \in Runs : NoNewLease(q),
         NEW r, NEW a, NEW b, RunMoves(r, a, b), b # "running"
  PROVE  Authority!Moves(r, {PhaseOf(a)}, PhaseOf(b))
  <2> USE <1>MoveImplements
  <2>1. r \in Runs /\ run[r].state = a /\ run'[r].state = b
        /\ \A q \in Runs \ {r} : run'[q].state = run[q].state
    BY DEF RunMoves
  <2>2. RunPhase[r] = PhaseOf(a) BY <2>1 DEF RunPhase
  <2>3. RunPhase' = [RunPhase EXCEPT ![r] = PhaseOf(b)] BY <2>1 DEF RunPhase
  <2>4. RunLease' = [RunLease EXCEPT ![r] = NoLease]
    <3>1. RunLease'[r] = NoLease BY <2>1, <1>LeaseOfRunNext
    <3>2. \A q \in Runs \ {r} : RunLease'[q] = RunLease[q] BY <2>1, <1>SameLease
    <3>3. RunLease' = [q \in Runs |-> RunLease'[q]] /\ RunLease = [q \in Runs |-> RunLease[q]]
      BY SMT DEF RunLease
    <3> QED BY <2>1, <3>1, <3>2, <3>3
  <2> QED BY <2>2, <2>3, <2>4, <1>SpentUnchanged DEF Authority!Moves

<1>KeptHasNoNewLease. JobsKept => \A q \in Runs : NoNewLease(q)
  BY DEF JobsKept, KeepsJob, NoNewLease

<1>CreatedHasNoNewLease.
  ASSUME NEW j, NEW r, JobCreated(j, r)
  PROVE  \A q \in Runs : NoNewLease(q)
  BY <1>CreatedHasNoNewLease DEF JobCreated, NoNewLease

<1>LapseImplements.
  ASSUME RowsAgree, TypeOK', RowsAgree', grants' = grants, JobsKept, RunsLapse
  PROVE  Authority!Expire
  <2> USE <1>LapseImplements
  <2>1. RunPhase' \in [Runs -> Authority!Phases]
    <3>1. \A r \in Runs : run'[r].state \in RunStates \cup {"absent"} BY DEF TypeOK, RunRecord
    <3> QED BY <3>1, <1>PhaseType DEF RunPhase
  <2>2. RunLease' = [r \in Runs |-> RunLease'[r]] BY SMT DEF RunLease
  <2>3. ASSUME NEW r \in Runs
        PROVE  Authority!Lapses(r) \/ (RunPhase'[r] = RunPhase[r] /\ RunLease'[r] = RunLease[r])
    <3>1. RunPhase[r] = PhaseOf(run[r].state) /\ RunPhase'[r] = PhaseOf(run'[r].state) BY DEF RunPhase
    <3>2. CASE run'[r] = run[r]
      BY <3>1, <3>2, <1>SameLease, <1>KeptHasNoNewLease
    <3>3. CASE run[r].state = "running" /\ run'[r].state \in {"queued", "failed"}
      BY <3>1, <3>3, PhaseTable, <1>LeaseOfRunNext DEF Authority!Lapses
    <3>4. CASE run[r].state = "awaiting-approval" /\ run'[r].state = "cancelled"
      BY <3>1, <3>4, PhaseTable, <1>LeaseOfRunNext DEF Authority!Lapses
    <3> QED BY <3>2, <3>3, <3>4 DEF RunsLapse
  <2> QED BY <2>1, <2>2, <2>3, <1>SpentUnchanged DEF Authority!Expire

(* The new lease is none of those granted before: its number exceeds them. *)
<1>ClaimImplements.
  ASSUME LeaseInv, RowsAgree', NEW w \in Workers, NEW j \in JobIds, NEW n \in Nat, NEW t \in Nat,
         ClaimJob(w, j, n, t)
  PROVE  Authority!Grant(job[j].run)
  <2> USE <1>ClaimImplements
  <2> DEFINE r == job[j].run
             k == job[j].attempts + 1
  <2>1. /\ job[j].state = "queued" /\ job'[j].state = "leased" /\ job'[j].run = r
        /\ job[j].attempts \in Nat /\ job'[j].token = k
        /\ \A i \in JobIds \ {j} : job'[i] = job[i]
    BY ClaimMoves
  <2>2. /\ r \in Runs /\ run[r].state = "queued" /\ run'[r].state = "running"
        /\ \A q \in Runs \ {r} : run'[q].state = run[q].state
    BY ClaimMoves, SMT DEF RunMoves
  <2>3. grants' = grants \cup {[job |-> j, token |-> k, worker |-> w, at |-> t]} BY ClaimMoves
  <2>4. RunPhase[r] = "idle" BY <2>2, PhaseTable DEF RunPhase
  <2>5. RunPhase' = [RunPhase EXCEPT ![r] = "held"] BY <2>2, PhaseTable DEF RunPhase
  <2>6. RunLease'[r] = <<j, k>> BY <2>1, <2>2, <1>LeaseOfRunNext
  <2>7. RunLease' = [RunLease EXCEPT ![r] = RunLease'[r]]
    <3>1. ASSUME NEW q \in Runs \ {r} PROVE RunLease'[q] = RunLease[q]
      <4>1. NoNewLease(q) BY <2>1 DEF NoNewLease
      <4> QED BY <2>2, <4>1, <1>SameLease DEF LeaseInv
    <3>2. RunLease' = [q \in Runs |-> RunLease'[q]] /\ RunLease = [q \in Runs |-> RunLease[q]]
      BY SMT DEF RunLease
    <3> QED BY <2>2, <3>1, <3>2
  <2>8. <<j, k>> \notin GrantedLeases \cup {NoLease}
    <3>1. ASSUME NEW g \in grants PROVE <<g.job, g.token>> # <<j, k>>
      <4>1. g.token \in Nat /\ g.token <= job[g.job].attempts
        BY GrantFields DEF LeaseInv, LeasesInOrder
      <4> QED BY <2>1, <4>1, SMT
    <3>2. <<j, k>> # NoLease BY SMT DEF NoLease, JobIds
    <3> QED BY <3>1, <3>2 DEF GrantedLeases
  <2>9. GrantedLeases' = GrantedLeases \cup {<<j, k>>}
    <3> DEFINE g0 == [job |-> j, token |-> k, worker |-> w, at |-> t]
    <3>1. g0.job = j /\ g0.token = k OBVIOUS
    <3>2. GrantedLeases' = {<<g.job, g.token>> : g \in grants \cup {g0}} BY <2>3 DEF GrantedLeases
    <3> HIDE DEF g0
    <3> QED BY <3>1, <3>2 DEF GrantedLeases
  <2> QED BY <2>4, <2>5, <2>6, <2>7, <2>8, <2>9 DEF Authority!Grant

<1>1. RowsAgree /\ TypeOK' /\ RowsAgree' BY StepInOrder DEF LeaseInv
<1>2. ASSUME JobsKept, run' = run, grants' = grants PROVE UNCHANGED Authority!authority
  <2>1. RunPhase' = RunPhase BY <1>2 DEF RunPhase
  <2>2. \A r \in Runs : RunLease'[r] = RunLease[r] BY <1>1, <1>2, <1>SameLease, <1>KeptHasNoNewLease
  <2>3. RunLease' = RunLease
    <3>1. RunLease' = [q \in Runs |-> RunLease'[q]] /\ RunLease = [q \in Runs |-> RunLease[q]]
      BY SMT DEF RunLease
    <3> QED BY <2>2, <3>1
  <2> QED BY <1>2, <2>1, <2>3, <1>SpentUnchanged DEF Authority!authority
<1>3. ASSUME job' = job, run' = run, grants' = grants PROVE UNCHANGED Authority!authority
  BY <1>2, <1>3, SameJobKept DEF JobsKept
<1>4. CASE UNCHANGED vars BY <1>3, <1>4 DEF vars
<1>5. CASE StepCases
  <2>1. StepCases BY <1>5
  <2>2. ASSUME JobsKept, RunsLapse, grants' = grants PROVE Authority!Next
    BY <1>1, <2>2, <1>LapseImplements DEF Authority!Next
  <2>3. ASSUME JobsKept, grants' = grants, NEW r, NEW a, NEW b, RunMoves(r, a, b), b # "running"
        PROVE  r \in Runs /\ Authority!Moves(r, {PhaseOf(a)}, PhaseOf(b))
    BY <1>1, <2>3, <1>MoveImplements, <1>KeptHasNoNewLease DEF RunMoves
  <2>4. ASSUME NEW g \in grants, NEW t \in Nat, NEW n \in Nat, Heartbeat(g, n, t)
        PROVE  UNCHANGED Authority!authority
    BY <1>2, <2>4, HeartbeatMoves
  <2>5. ASSUME NEW g \in grants, NEW t \in Nat, NEW result \in Results, NEW delivered \in BOOLEAN,
               CompleteJob(g, result, delivered, t)
        PROVE  Authority!Next
    <3>1. job[g.job].run \in Runs /\ Authority!Moves(job[g.job].run, {"held"}, "completed")
      BY <2>3, <2>5, CompleteMoves, PhaseTable
    <3> QED BY <3>1 DEF Authority!Next, Authority!Complete
  <2>6. ASSUME NEW g \in grants, NEW result \in Results, CompletionRetry(g, result)
        PROVE  UNCHANGED Authority!authority
    BY <1>3, <2>6 DEF CompletionRetry
  <2>7. ASSUME NEW g \in grants, NEW t \in Nat, NEW retryable \in BOOLEAN, FailJob(g, retryable, t)
        PROVE  Authority!Next
    <3>1. /\ job[g.job].run \in Runs
          /\ \/ Authority!Moves(job[g.job].run, {"held"}, "idle")
             \/ Authority!Moves(job[g.job].run, {"held"}, "failed")
      BY <2>3, <2>7, FailMoves, PhaseTable
    <3> QED BY <3>1 DEF Authority!Next, Authority!GiveBack, Authority!Fail
  <2>8. ASSUME NEW g \in grants, NEW t \in Nat, NEW expires \in Nat, CreateCheckpoint(g, expires, t)
        PROVE  Authority!Next
    <3>1. job[g.job].run \in Runs /\ Authority!Moves(job[g.job].run, {"held"}, "waiting")
      BY <2>3, <2>8, CheckpointMoves, PhaseTable
    <3> QED BY <3>1 DEF Authority!Next, Authority!Suspend
  <2>9. CASE WorkerCases BY <2>4, <2>5, <2>6, <2>7, <2>8, <2>9 DEF WorkerCases
  <2>10. ASSUME NEW c \in JobIds, NEW t \in Nat, NEW j \in JobIds, ResumeCheckpoint(c, j, t)
         PROVE  Authority!Next
    <3>1. /\ JobCreated(j, ckpt[c].run) /\ grants' = grants
          /\ RunMoves(ckpt[c].run, "awaiting-approval", "queued")
      BY <2>10, ResumeMoves
    <3>2. Authority!Moves(ckpt[c].run, {"waiting"}, "idle")
      BY <1>1, <3>1, <1>MoveImplements, <1>CreatedHasNoNewLease, PhaseTable
    <3> QED BY <3>1, <3>2 DEF Authority!Next, Authority!Resume, RunMoves
  <2>11. CASE ApprovalCases
    BY <2>2, <2>10, <2>11, DecideMoves, ResumeTooLateMoves DEF ApprovalCases
  <2>12. CASE Tick BY <1>3, <2>12 DEF Tick
  <2>13. ASSUME NEW r \in Runs, CancelRun(r) PROVE Authority!Next
    <3>1. PICK a \in CancellableRunStates : RunMoves(r, a, "cancelled") BY <2>13, CancelMoves
    <3>2. Authority!Moves(r, {PhaseOf(a)}, "cancelled") BY <2>3, <2>13, <3>1, CancelMoves, PhaseTable
    <3>3. PhaseOf(a) \in {"idle", "held", "waiting"} BY PhaseTable DEF CancellableRunStates
    <3>4. Authority!Cancel(r) BY <3>2, <3>3 DEF Authority!Moves, Authority!Cancel
    <3> QED BY <3>4 DEF Authority!Next
  <2>14. CASE \E readAt \in Nat : ExpireDueApprovals(readAt) BY <2>2, <2>14, ExpireDueMoves
  <2>15. ASSUME NEW r \in Runs, NEW j \in JobIds, NEW m \in Nat, NEW t \in Nat, SubmitRun(r, j, m, t)
         PROVE  Authority!Next
    <3>1. JobCreated(j, r) /\ RunMoves(r, "absent", "queued") /\ grants' = grants
      BY <2>15, SubmitMoves
    <3>2. Authority!Moves(r, {"none"}, "idle")
      BY <1>1, <3>1, <1>MoveImplements, <1>CreatedHasNoNewLease, PhaseTable
    <3> QED BY <3>2 DEF Authority!Next, Authority!Open
  <2>16. CASE \E S \in LeasedBatches, t \in Nat : ExpireLeases(S, t)
    BY <2>2, <2>16, ExpireLeasesMoves
  <2>17. ASSUME NEW w \in Workers, NEW j \in JobIds, NEW n \in Nat, NEW t \in Nat, ClaimJob(w, j, n, t)
         PROVE  Authority!Next
    <3>1. job[j].run \in Runs BY <2>17, ClaimMoves DEF RunMoves
    <3> QED BY <1>1, <2>17, <3>1, <1>ClaimImplements DEF Authority!Next
  <2> QED BY <2>1, <2>9, <2>11, <2>12, <2>13, <2>14, <2>15, <2>16, <2>17 DEF StepCases
<1> QED BY <1>4, <1>5 DEF Step

(* Whatever transactions commit, in whatever order, a Run is held under one   *)
(* lease at a time and each is new, only a held Run gets an outcome from a    *)
(* Worker, and an outcome is final.                                           *)
THEOREM ImplementsAuthority == Spec => ImplementsRunAuthority
<1>1. Init => Authority!Init
  <2> SUFFICES ASSUME Init PROVE Authority!Init
    OBVIOUS
  <2>1. RunPhase = [r \in Runs |-> "none"] BY PhaseTable DEF Init, RunPhase
  <2>2. \A r \in Runs : RunLease[r] = NoLease BY LeaseOfRun, InitRowsAgree DEF Init
  <2>3. RunLease = [r \in Runs |-> NoLease] BY <2>2 DEF RunLease
  <2>4. GrantedLeases = {} BY DEF Init, GrantedLeases
  <2> QED BY <2>1, <2>3, <2>4 DEF Authority!Init
<1>2. LeaseInv /\ [Next]_vars => [Authority!Next]_(Authority!authority)
  BY StepImplements, NextIsStep DEF LeaseInv
<1> QED BY <1>1, <1>2, LeasesAlwaysInOrder, PTL DEF Spec, ImplementsRunAuthority, Authority!Spec

-----------------------------------------------------------------------------
(* An acknowledged completion stays.  A Job that succeeded with a result, not *)
(* with a checkpoint, completed its Run, which is why a repeated completion   *)
(* may be answered from the Job row.                                          *)

ResultsComplete ==
  \A j \in JobIds : job[j].state = "succeeded" /\ job[j].result # "checkpoint" =>
    run[job[j].run].state = "completed"

AckInv == TriggerInv /\ AckedIsPersisted /\ ResultsComplete

(* Rows of succeeded Jobs and of completed Runs are final. *)
LEMMA OutcomesStay ==
  ASSUME JobsAdmitted, RunsAdmitted
  PROVE  /\ \A j \in JobIds : job[j].state = "succeeded" => job'[j] = job[j]
         /\ \A r \in Runs : run[r].state = "completed" => run'[r] = run[r]
BY DEF JobsAdmitted, UpdateAdmitted, TriggerAdmitsJobUpdate, RunsAdmitted, TriggerAdmitsRun

(* Every transaction keeps what was acknowledged. *)
LEMMA StepAcks ==
  ASSUME AckInv, Step
  PROVE  AckInv'
<1>OldAcksStay.
  ASSUME AckInv, JobsAdmitted, RunsAdmitted, NEW a \in acked
  PROVE  /\ job'[a.job].state = "succeeded" /\ job'[a.job].result = a.result
         /\ run'[job'[a.job].run].state = "completed"
  <2> USE <1>OldAcksStay
  <2>1. a.job \in JobIds BY DEF AckInv, TriggerInv, LeaseInv, TypeOK, Ack
  <2>2. /\ job[a.job].state = "succeeded" /\ job[a.job].result = a.result
        /\ run[job[a.job].run].state = "completed"
    BY DEF AckInv, AckedIsPersisted
  <2>3. job[a.job].run \in Runs
    BY <2>1, <2>2 DEF AckInv, TriggerInv, LeaseInv, RowsAgree, RowsBelong
  <2> QED BY <2>1, <2>2, <2>3, OutcomesStay

<1>QuietStepAcks.
  ASSUME AckInv, JobsAdmitted, RunsAdmitted, NoneEnters("succeeded"), acked' = acked
  PROVE  AckedIsPersisted' /\ ResultsComplete'
  <2> USE <1>QuietStepAcks
  <2>1. AckedIsPersisted' BY <1>OldAcksStay DEF AckedIsPersisted
  <2>2. ResultsComplete'
    BY OutcomesStay, SMT DEF NoneEnters, ResultsComplete, AckInv, TriggerInv, LeaseInv, RowsAgree, RowsBelong
  <2> QED BY <2>1, <2>2

<1>CompleteAcks.
  ASSUME AckInv, JobsAdmitted, RunsAdmitted, NEW g \in grants, NEW result \in Results,
         NEW delivered \in BOOLEAN, NEW t \in Nat, CompleteJob(g, result, delivered, t)
  PROVE  AckedIsPersisted' /\ ResultsComplete'
  <2> USE <1>CompleteAcks
  <2>1. /\ g.job \in JobIds /\ job[g.job] \in JobRecord /\ job[g.job].run \in Runs
    BY LeasedRow DEF CompleteJob, AckInv, TriggerInv, LeaseInv
  <2>2. /\ job'[g.job].state = "succeeded" /\ job'[g.job].result = result
        /\ job'[g.job].run = job[g.job].run
        /\ \A k \in JobIds \ {g.job} : job'[k] = job[k]
    BY <2>1 DEF CompleteJob, SucceededJob, AckInv, TriggerInv, LeaseInv, TypeOK, JobRecord
  <2>3. run'[job[g.job].run].state = "completed"
    BY CompleteMoves DEF RunMoves, AckInv, TriggerInv
  <2>4. ASSUME NEW a \in acked' \ acked PROVE a.job = g.job /\ a.result = result
    BY <2>4, SMT DEF CompleteJob, Answer
  <2>5. AckedIsPersisted' BY <2>2, <2>3, <2>4, <1>OldAcksStay, SMT DEF AckedIsPersisted
  <2>6. ResultsComplete'
    BY <2>1, <2>2, <2>3, OutcomesStay, SMT
       DEF ResultsComplete, AckInv, TriggerInv, LeaseInv, RowsAgree, RowsBelong
  <2> QED BY <2>5, <2>6

<1>RetryAcks.
  ASSUME AckInv, NEW g \in grants, NEW result \in Results, CompletionRetry(g, result)
  PROVE  AckedIsPersisted' /\ ResultsComplete'
  <2> USE <1>RetryAcks
  <2>1. g.job \in JobIds BY GrantFields DEF AckInv, TriggerInv, LeaseInv
  <2>2. job[g.job].state = "succeeded" /\ job[g.job].result = result /\ job' = job /\ run' = run
    BY DEF CompletionRetry
  <2>3. result # "checkpoint" BY ControlPlaneAssumption
  <2>4. run[job[g.job].run].state = "completed" BY <2>1, <2>2, <2>3 DEF AckInv, ResultsComplete
  <2>5. ASSUME NEW a \in acked' \ acked PROVE a.job = g.job /\ a.result = result
    BY <2>5, SMT DEF CompletionRetry, Answer
  <2>6. AckedIsPersisted' BY <2>2, <2>4, <2>5 DEF AckInv, AckedIsPersisted
  <2>7. ResultsComplete' BY <2>2 DEF AckInv, ResultsComplete
  <2> QED BY <2>6, <2>7

<1>CheckpointAcks.
  ASSUME AckInv, JobsAdmitted, RunsAdmitted, NEW g \in grants, NEW expires \in Nat, NEW t \in Nat,
         CreateCheckpoint(g, expires, t)
  PROVE  AckedIsPersisted' /\ ResultsComplete'
  <2> USE <1>CheckpointAcks
  <2>1. g.job \in JobIds /\ job[g.job] \in JobRecord
    BY GrantFields DEF AckInv, TriggerInv, LeaseInv
  <2>2. /\ job'[g.job].result = "checkpoint"
        /\ \A k \in JobIds \ {g.job} : job'[k] = job[k]
    BY <2>1 DEF CreateCheckpoint, SucceededJob, AckInv, TriggerInv, LeaseInv, TypeOK, JobRecord
  <2>3. acked' = acked BY DEF CreateCheckpoint
  <2>4. AckedIsPersisted' BY <2>3, <1>OldAcksStay DEF AckedIsPersisted
  <2>5. ResultsComplete'
    BY <2>2, OutcomesStay, SMT DEF ResultsComplete, AckInv, TriggerInv, LeaseInv, RowsAgree, RowsBelong
  <2> QED BY <2>4, <2>5

<1> SUFFICES AckedIsPersisted' /\ ResultsComplete'
  BY StepTriggerInv DEF AckInv
<1>1. CASE UNCHANGED vars BY <1>1 DEF vars, AckInv, AckedIsPersisted, ResultsComplete
<1>2. CASE StepCases
  <2>1. StepCases /\ LeaseInv BY <1>2 DEF AckInv, TriggerInv, LeaseInv
  <2>2. JobsAdmitted /\ RunsAdmitted BY <1>2, StepAdmitted DEF AckInv
  <2>3. CASE WorkerCases
    <3>1. ASSUME NEW g \in grants, NEW t \in Nat, NEW n \in Nat, Heartbeat(g, n, t)
          PROVE  NoneEnters("succeeded") /\ acked' = acked
      <4>1. acked' = acked BY <3>1 DEF Heartbeat
      <4> QED BY <2>1, <3>1, <4>1, HeartbeatMoves
    <3>2. ASSUME NEW g \in grants, NEW t \in Nat, NEW retryable \in BOOLEAN, FailJob(g, retryable, t)
          PROVE  NoneEnters("succeeded") /\ acked' = acked
      <4>1. acked' = acked BY <3>2 DEF FailJob
      <4> QED BY <2>1, <3>2, <4>1, FailMoves
    <3> QED BY <2>2, <2>3, <3>1, <3>2, <1>QuietStepAcks, <1>CompleteAcks, <1>RetryAcks, <1>CheckpointAcks
            DEF WorkerCases
  <2>4. CASE ~WorkerCases BY <2>1, <2>2, <2>4, QuietCases, <1>QuietStepAcks
  <2> QED BY <2>3, <2>4
<1> QED BY <1>1, <1>2 DEF Step

(* A completion the Worker saw succeed, at the first call or at a retry after *)
(* a lost response, is in the database with that result for ever after, and   *)
(* its Run is completed.                                                      *)
THEOREM AcknowledgedIsDurable == Spec => []AckedIsPersisted
<1>1. Init => AckInv
  <2>1. Init => AckedIsPersisted /\ ResultsComplete
    BY SMT DEF Init, AckedIsPersisted, ResultsComplete, NoJob
  <2> QED BY <2>1, TriggerInvInitially DEF AckInv
<1>2. AckInv /\ [Next]_vars => AckInv'
  BY StepAcks, NextIsStep DEF AckInv, TriggerInv, LeaseInv
<1>3. AckInv => AckedIsPersisted BY DEF AckInv
<1> QED BY <1>1, <1>2, <1>3, PTL DEF Spec

-----------------------------------------------------------------------------
(* A continuation is authorised.  A consumed approval is final, and so are    *)
(* the Job that asked for it and the columns that name the continuation.      *)

Decided(x) == x.decidedBy \notin {None, x.requestedBy} /\ x.decidedAt < x.expires

ApprovalsDecided ==
  /\ \A c \in JobIds : ckpt[c].state \in {"approved", "consumed"} => Decided(ckpt[c])
  /\ \A j \in JobIds : job[j].state = "absent" => job[j].resumes = 0

ApprovalInv == TriggerInv /\ ApprovalsDecided /\ ContinuationAuthorised

(* A step reopens no consumed approval, and approves none that is undecided. *)
ApprovalsMove ==
  \A c \in JobIds :
    \/ ckpt'[c] = ckpt[c]
    \/ /\ ckpt[c].state # "consumed"
       /\ ckpt'[c].state \in {"approved", "consumed"} => Decided(ckpt'[c])

(* The row of j keeps the columns a continuation is checked by. *)
ColumnsKept(j) ==
  /\ job'[j].run = job[j].run /\ job'[j].max = job[j].max /\ job'[j].resumes = job[j].resumes
  /\ job'[j].state = "absent" => job[j].state = "absent"

(* Every transaction keeps continuations authorised. *)
LEMMA StepAuthorised ==
  ASSUME ApprovalInv, Step
  PROVE  ApprovalInv'
<1>KeptColumns.
  ASSUME JobsAdmitted, JobsKept
  PROVE  \A j \in JobIds : ColumnsKept(j)
  BY <1>KeptColumns DEF JobsAdmitted, JobsKept, KeepsJob, UpdateAdmitted, TriggerAdmitsJobUpdate, ColumnsKept

(* A continuation that was authorised stays so. *)
<1>AuthorisedStays.
  ASSUME ApprovalInv, JobsAdmitted, RunsAdmitted, ApprovalsMove,
         NEW j \in JobIds, job[j].resumes # 0, ColumnsKept(j)
  PROVE  LET c == job'[j].resumes IN
         /\ ckpt'[c].state = "consumed" /\ ckpt'[c].continuation = j
         /\ ckpt'[c].run = job'[j].run /\ job'[c].result = "checkpoint"
         /\ ckpt'[c].decidedBy \notin {None, ckpt'[c].requestedBy}
         /\ ckpt'[c].decidedAt < ckpt'[c].expires /\ ckpt'[c].consumedAt < ckpt'[c].expires
         /\ job'[j].max = job'[c].max
  <2> USE <1>AuthorisedStays
  <2> DEFINE c == job[j].resumes
  <2>1. c \in JobIds BY DEF ApprovalInv, TriggerInv, LeaseInv, TypeOK, JobRecord
  <2>2. /\ ckpt[c].state = "consumed" /\ ckpt[c].continuation = j
        /\ ckpt[c].run = job[j].run /\ job[c].result = "checkpoint"
        /\ ckpt[c].decidedBy \notin {None, ckpt[c].requestedBy}
        /\ ckpt[c].decidedAt < ckpt[c].expires /\ ckpt[c].consumedAt < ckpt[c].expires
        /\ job[j].max = job[c].max
    BY DEF ApprovalInv, ContinuationAuthorised
  <2>3. ckpt'[c] = ckpt[c] BY <2>1, <2>2 DEF ApprovalsMove
  <2>4. job[c].state = "succeeded"
    BY <2>1, <2>2 DEF ApprovalInv, TriggerInv, LeaseInv, RowsAgree, RowsBelong
  <2>5. job'[c] = job[c] BY <2>1, <2>4, OutcomesStay
  <2> QED BY <2>2, <2>3, <2>5 DEF ColumnsKept

<1>MovedApprovalsDecided.
  ASSUME ApprovalInv, ApprovalsMove,
         \A j \in JobIds : job'[j].state = "absent" => ColumnsKept(j)
  PROVE  ApprovalsDecided'
  BY <1>MovedApprovalsDecided DEF ApprovalInv, ApprovalsDecided, ApprovalsMove, ColumnsKept

<1>ColumnsKeptApprovals.
  ASSUME ApprovalInv, JobsAdmitted, RunsAdmitted, ApprovalsMove, \A j \in JobIds : ColumnsKept(j)
  PROVE  ApprovalsDecided' /\ ContinuationAuthorised'
  <2> USE <1>ColumnsKeptApprovals
  <2>1. ApprovalsDecided' BY <1>MovedApprovalsDecided
  <2>2. ContinuationAuthorised'
    <3> SUFFICES ASSUME NEW j \in JobIds, job'[j].resumes # 0
                 PROVE  ContinuationAuthorised!(j)!2'
      BY DEF ContinuationAuthorised
    <3>1. job[j].resumes # 0 BY DEF ColumnsKept
    <3> QED BY <3>1, <1>AuthorisedStays
  <2> QED BY <2>1, <2>2

<1>ExpiryMoves.
  ASSUME TypeOK, NEW S, \A c \in S : ckpt[c].state \in RevocableApprovalStates, ExpireApprovals(S)
  PROVE  ApprovalsMove
  <2> USE <1>ExpiryMoves
  <2> SUFFICES ASSUME NEW c \in JobIds PROVE ApprovalsMove!(c)
    BY DEF ApprovalsMove
  <2>1. CASE c \in S
    <3>1. ckpt'[c].state = "expired" BY <2>1 DEF ExpireApprovals, TypeOK, CheckpointRecord
    <3> QED BY <2>1, <3>1 DEF RevocableApprovalStates
  <2>2. CASE c \notin S BY <2>2 DEF ExpireApprovals
  <2> QED BY <2>1, <2>2

<1>DecisionMoves.
  ASSUME TypeOK, NEW p \in Principals, NEW c \in JobIds, NEW approve \in BOOLEAN, NEW t \in Nat,
         DecideApproval(p, c, approve, t)
  PROVE  ApprovalsMove
  <2> USE <1>DecisionMoves
  <2>1. ckpt[c].state = "pending" /\ ckpt[c].requestedBy # p /\ ckpt[c] \in CheckpointRecord
    BY DEF DecideApproval, TypeOK
  <2>2. CASE ckpt[c].expires <= t
    BY <2>1, <2>2, <1>ExpiryMoves DEF DecideApproval, RevocableApprovalStates
  <2>3. CASE ~(ckpt[c].expires <= t)
    <3>1. /\ ckpt'[c].decidedBy = p /\ ckpt'[c].decidedAt = t
          /\ ckpt'[c].requestedBy = ckpt[c].requestedBy /\ ckpt'[c].expires = ckpt[c].expires
          /\ \A k \in JobIds \ {c} : ckpt'[k] = ckpt[k]
      <4>1. PICK s \in ApprovalStates :
              ckpt' = [ckpt EXCEPT ![c] = [ckpt[c] EXCEPT !.state = s, !.decidedBy = p, !.decidedAt = t]]
        BY <2>3 DEF DecideApproval, ApprovalStates, TypeOK, CheckpointRecord
      <4> QED BY <2>1, <4>1 DEF TypeOK, CheckpointRecord
    <3>2. ckpt[c].expires \in Nat /\ p # None BY <2>1, ControlPlaneAssumption DEF CheckpointRecord
    <3>3. Decided(ckpt'[c]) BY <2>1, <2>3, <3>1, <3>2, SMT DEF Decided
    <3> QED BY <2>1, <3>1, <3>3 DEF ApprovalsMove
  <2> QED BY <2>2, <2>3

<1>CancellationMoves.
  ASSUME TypeOK, NEW r \in Runs, CancelRun(r)
  PROVE  ApprovalsMove
  <2> USE <1>CancellationMoves
  <2> SUFFICES ASSUME NEW c \in JobIds PROVE ApprovalsMove!(c)
    BY DEF ApprovalsMove
  <2>1. CASE ckpt[c].run = r /\ ckpt[c].state \in RevocableApprovalStates
    <3>1. ckpt'[c].state = "revoked" BY <2>1 DEF CancelRun, TypeOK, CheckpointRecord
    <3> QED BY <2>1, <3>1 DEF RevocableApprovalStates
  <2>2. CASE ~(ckpt[c].run = r /\ ckpt[c].state \in RevocableApprovalStates)
    BY <2>2 DEF CancelRun
  <2> QED BY <2>1, <2>2

<1>RequestMoves.
  ASSUME LeaseInv, NEW g \in grants, NEW expires \in Nat, NEW t \in Nat,
         CreateCheckpoint(g, expires, t)
  PROVE  ApprovalsMove
  <2> USE <1>RequestMoves
  <2>1. g.job \in JobIds /\ job[g.job].state = "leased"
    BY LeasedRow DEF CreateCheckpoint, LeaseInv
  <2>2. ckpt[g.job].state = "absent" BY <2>1 DEF LeaseInv, RowsAgree, RowsBelong
  <2>3. ckpt'[g.job].state = "pending" /\ \A k \in JobIds \ {g.job} : ckpt'[k] = ckpt[k]
    BY <2>1 DEF CreateCheckpoint, NoCheckpoint, LeaseInv, TypeOK, CheckpointRecord
  <2> QED BY <2>2, <2>3 DEF ApprovalsMove

(* The one step that creates a continuation. *)
<1>ResumeAuthorised.
  ASSUME ApprovalInv, JobsAdmitted, RunsAdmitted, NEW c \in JobIds, NEW j \in JobIds, NEW t \in Nat,
         ResumeCheckpoint(c, j, t)
  PROVE  ApprovalsDecided' /\ ContinuationAuthorised'
  <2> USE <1>ResumeAuthorised
  <2>1. /\ ckpt[c].state = "approved" /\ ckpt[c] \in CheckpointRecord /\ t < ckpt[c].expires
        /\ Decided(ckpt[c])
    BY DEF ResumeCheckpoint, MayResume, ApprovalInv, ApprovalsDecided, TriggerInv, LeaseInv, TypeOK
  <2>2. job[c].state = "succeeded" /\ job[c].result = "checkpoint"
    BY <2>1 DEF ApprovalInv, TriggerInv, LeaseInv, RowsAgree, RowsBelong
  <2>3. /\ job[j].state = "absent" /\ job'[j].state = "queued" /\ job'[j].run = ckpt[c].run
        /\ job'[j].max = job[c].max /\ job'[j].resumes = c
        /\ \A k \in JobIds \ {j} : job'[k] = job[k]
    BY DEF ResumeCheckpoint, IsFreshJob, ApprovalInv, TriggerInv, LeaseInv, TypeOK, NoJob
  <2>4. /\ ckpt'[c].state = "consumed" /\ ckpt'[c].consumedAt = t /\ ckpt'[c].continuation = j
        /\ ckpt'[c].run = ckpt[c].run /\ ckpt'[c].requestedBy = ckpt[c].requestedBy
        /\ ckpt'[c].decidedBy = ckpt[c].decidedBy /\ ckpt'[c].decidedAt = ckpt[c].decidedAt
        /\ ckpt'[c].expires = ckpt[c].expires
        /\ \A k \in JobIds \ {c} : ckpt'[k] = ckpt[k]
    <3>1. ckpt' = [ckpt EXCEPT ![c] =
                     [ckpt[c] EXCEPT !.state = "consumed", !.consumedAt = t, !.continuation = j]]
      BY <2>1 DEF ResumeCheckpoint, ApprovalInv, TriggerInv, LeaseInv, TypeOK, CheckpointRecord
    <3> QED BY <2>1, <3>1 DEF ApprovalInv, TriggerInv, LeaseInv, TypeOK, CheckpointRecord
  <2>5. ApprovalsMove BY <2>1, <2>4 DEF ApprovalsMove, Decided
  <2>6. \A k \in JobIds \ {j} : ColumnsKept(k) BY <2>3 DEF ColumnsKept
  <2>7. ApprovalsDecided' BY <2>3, <2>5, <2>6, <1>MovedApprovalsDecided
  <2>8. ContinuationAuthorised'
    <3> SUFFICES ASSUME NEW k \in JobIds, job'[k].resumes # 0
                 PROVE  ContinuationAuthorised!(k)!2'
      BY DEF ContinuationAuthorised
    <3>1. CASE k = j
      <4>1. job'[c] = job[c] BY <2>2, <2>3
      <4> QED BY <2>1, <2>2, <2>3, <2>4, <3>1, <4>1 DEF Decided
    <3>2. CASE k # j
      <4>1. job[k].resumes # 0 BY <2>3, <3>2
      <4> QED BY <2>5, <2>6, <3>2, <4>1, <1>AuthorisedStays
    <3> QED BY <3>1, <3>2
  <2> QED BY <2>7, <2>8

<1> SUFFICES ApprovalsDecided' /\ ContinuationAuthorised'
  BY StepTriggerInv DEF ApprovalInv
<1>1. CASE UNCHANGED vars
  <2>1. ApprovalsDecided' BY <1>1 DEF vars, ApprovalInv, ApprovalsDecided
  <2>2. ContinuationAuthorised' BY <1>1 DEF vars, ApprovalInv, ContinuationAuthorised
  <2> QED BY <2>1, <2>2
<1>2. CASE StepCases
  <2>1. StepCases /\ LeaseInv /\ TypeOK BY <1>2 DEF ApprovalInv, TriggerInv, LeaseInv
  <2>2. JobsAdmitted /\ RunsAdmitted BY <1>2, StepAdmitted DEF ApprovalInv
  <2>3. ASSUME JobsKept, ApprovalsMove PROVE ApprovalsDecided' /\ ContinuationAuthorised'
    BY <2>2, <2>3, <1>KeptColumns, <1>ColumnsKeptApprovals
  <2>4. ASSUME ckpt' = ckpt PROVE ApprovalsMove BY <2>4 DEF ApprovalsMove
  <2>5. CASE WorkerCases
    <3>1. ASSUME NEW g \in grants, NEW t \in Nat, NEW n \in Nat, Heartbeat(g, n, t)
          PROVE  JobsKept /\ ApprovalsMove
      <4>1. ckpt' = ckpt BY <3>1 DEF Heartbeat
      <4> QED BY <2>1, <2>4, <3>1, <4>1, HeartbeatMoves
    <3>2. ASSUME NEW g \in grants, NEW t \in Nat, NEW result \in Results, NEW delivered \in BOOLEAN,
                 CompleteJob(g, result, delivered, t)
          PROVE  JobsKept /\ ApprovalsMove
      <4>1. ckpt' = ckpt BY <3>2 DEF CompleteJob
      <4> QED BY <2>1, <2>4, <3>2, <4>1, CompleteMoves
    <3>3. ASSUME NEW g \in grants, NEW result \in Results, CompletionRetry(g, result)
          PROVE  JobsKept /\ ApprovalsMove
      <4>1. ckpt' = ckpt /\ job' = job BY <3>3 DEF CompletionRetry
      <4> QED BY <2>4, <4>1, SameJobKept DEF JobsKept
    <3>4. ASSUME NEW g \in grants, NEW t \in Nat, NEW retryable \in BOOLEAN, FailJob(g, retryable, t)
          PROVE  JobsKept /\ ApprovalsMove
      <4>1. ckpt' = ckpt BY <3>4 DEF FailJob
      <4> QED BY <2>1, <2>4, <3>4, <4>1, FailMoves
    <3>5. ASSUME NEW g \in grants, NEW t \in Nat, NEW expires \in Nat, CreateCheckpoint(g, expires, t)
          PROVE  JobsKept /\ ApprovalsMove
      BY <2>1, <3>5, CheckpointMoves, <1>RequestMoves
    <3> QED BY <2>3, <2>5, <3>1, <3>2, <3>3, <3>4, <3>5 DEF WorkerCases
  <2>6. CASE ApprovalCases
    <3>1. ASSUME NEW c \in JobIds, NEW t \in Nat, ResumeTooLate(c, t) PROVE JobsKept /\ ApprovalsMove
      <4>1. ExpireApprovals({c}) /\ ckpt[c].state \in RevocableApprovalStates
        BY <3>1 DEF ResumeTooLate, MayResume, RevocableApprovalStates
      <4> QED BY <2>1, <3>1, <4>1, ResumeTooLateMoves, <1>ExpiryMoves
    <3>2. ASSUME NEW c \in JobIds, NEW t \in Nat, NEW p \in Principals, NEW approve \in BOOLEAN,
                 DecideApproval(p, c, approve, t)
          PROVE  JobsKept /\ ApprovalsMove
      BY <2>1, <3>2, DecideMoves, <1>DecisionMoves
    <3> QED BY <2>2, <2>3, <2>6, <3>1, <3>2, <1>ResumeAuthorised DEF ApprovalCases
  <2>7. CASE Tick BY <2>3, <2>4, <2>7, SameJobKept DEF Tick, JobsKept
  <2>8. CASE \E r \in Runs : CancelRun(r) BY <2>1, <2>3, <2>8, CancelMoves, <1>CancellationMoves
  <2>9. ASSUME NEW readAt \in Nat, ExpireDueApprovals(readAt) PROVE JobsKept /\ ApprovalsMove
    <3>1. ApprovalsMove BY <2>1, <2>9, <1>ExpiryMoves DEF ExpireDueApprovals, DueApprovals
    <3> QED BY <2>1, <2>9, <3>1, ExpireDueMoves
  <2>10. ASSUME NEW r \in Runs, NEW j \in JobIds, NEW m \in Nat, NEW t \in Nat, SubmitRun(r, j, m, t)
         PROVE  ApprovalsDecided' /\ ContinuationAuthorised'
    <3>1. /\ ckpt' = ckpt /\ job'[j].state = "queued" /\ job'[j].resumes = 0
          /\ \A k \in JobIds \ {j} : job'[k] = job[k]
      BY <2>1, <2>10 DEF SubmitRun, TypeOK, NoJob
    <3>2. \A k \in JobIds \ {j} : ColumnsKept(k) BY <3>1 DEF ColumnsKept
    <3>3. ApprovalsDecided' BY <2>4, <3>1, <3>2, <1>MovedApprovalsDecided
    <3>4. ContinuationAuthorised'
      <4> SUFFICES ASSUME NEW k \in JobIds, job'[k].resumes # 0
                   PROVE  ContinuationAuthorised!(k)!2'
        BY DEF ContinuationAuthorised
      <4>1. k # j /\ job[k].resumes # 0 BY <3>1
      <4> QED BY <2>2, <2>4, <3>1, <3>2, <4>1, <1>AuthorisedStays
    <3> QED BY <3>3, <3>4
  <2>11. ASSUME NEW S \in LeasedBatches, NEW t \in Nat, ExpireLeases(S, t)
         PROVE  JobsKept /\ ApprovalsMove
    <3>1. ckpt' = ckpt BY <2>11 DEF ExpireLeases
    <3> QED BY <2>1, <2>4, <2>11, <3>1, ExpireLeasesMoves
  <2>12. ASSUME NEW w \in Workers, NEW j \in JobIds, NEW n \in Nat, NEW t \in Nat, ClaimJob(w, j, n, t)
         PROVE  ApprovalsDecided' /\ ContinuationAuthorised'
    <3>1. ckpt' = ckpt BY <2>12 DEF ClaimJob
    <3>2. /\ job[j].state = "queued" /\ job'[j].state = "leased"
          /\ \A k \in JobIds \ {j} : job'[k] = job[k]
      BY <2>1, <2>12, ClaimMoves
    <3>3. \A k \in JobIds : ColumnsKept(k)
      BY <2>2, <3>2 DEF JobsAdmitted, UpdateAdmitted, TriggerAdmitsJobUpdate, ColumnsKept
    <3> QED BY <2>2, <2>4, <3>1, <3>3, <1>ColumnsKeptApprovals
  <2> QED BY <2>1, <2>3, <2>5, <2>6, <2>7, <2>8, <2>9, <2>10, <2>11, <2>12 DEF StepCases
<1> QED BY <1>1, <1>2 DEF Step

(* No continuation Job exists that resume_checkpoint did not create from an   *)
(* approval decided by someone other than its requester, decided and consumed *)
(* before it expired; and no approval has a second continuation.              *)
THEOREM ContinuationsAreAuthorised == Spec => []ContinuationAuthorised
<1>1. Init => ApprovalInv
  <2> SUFFICES ASSUME Init PROVE ApprovalInv
    OBVIOUS
  <2>1. \A j \in JobIds : job[j].resumes = 0 /\ ckpt[j].state = "absent"
    BY DEF Init, NoJob, NoCheckpoint
  <2>2. ApprovalsDecided BY <2>1 DEF ApprovalsDecided
  <2>3. ContinuationAuthorised BY <2>1 DEF ContinuationAuthorised
  <2> QED BY <2>2, <2>3, TriggerInvInitially DEF ApprovalInv
<1>2. ApprovalInv /\ [Next]_vars => ApprovalInv'
  BY StepAuthorised, NextIsStep DEF ApprovalInv, TriggerInv, LeaseInv
<1>3. ApprovalInv => ContinuationAuthorised BY DEF ApprovalInv
<1> QED BY <1>1, <1>2, <1>3, PTL DEF Spec

-----------------------------------------------------------------------------
(* One effect of a lease, before its deadline.  A finalization ends the lease *)
(* it is made under, so the token of a leased Job has no effect yet, and the  *)
(* deadline of a leased Job is never later than its claim allowed.            *)

INSTANCE FiniteSetTheorems

GrantsOf(j) == {g \in grants : g.job = j}

EffectsSpent ==
  \A e \in effects :
    /\ e.token <= job[e.job].attempts
    /\ job[e.job].state = "leased" => e.token < job[e.job].attempts

(* The grant the leased Job j is held under. *)
HeldUnder(j, g) ==
  g.job = j /\ g.token = job[j].token /\ job[j].deadline <= g.at + MaxLease

LeasesGranted == \A j \in JobIds : job[j].state = "leased" => \E g \in grants : HeldUnder(j, g)

AttemptsAreGrants ==
  /\ \A j \in JobIds : job[j].state = "absent" => job[j].attempts = 0
  /\ IsFiniteSet(grants)
  /\ \A j \in JobIds : Cardinality(GrantsOf(j)) = job[j].attempts

EffectsUnique == \A e, f \in effects : e.job = f.job /\ e.token = f.token => e = f

EffectsTimely ==
  \A e \in effects : \E g \in grants :
    g.job = e.job /\ g.token = e.token /\ e.at < g.at + MaxLease

EffectInv ==
  /\ TriggerInv
  /\ EffectsSpent /\ LeasesGranted /\ AttemptsAreGrants /\ EffectsUnique /\ EffectsTimely

(* The types of an effect's columns. *)
LEMMA EffectFields ==
  ASSUME TypeOK, NEW e \in effects
  PROVE  e.job \in JobIds /\ e.token \in Nat /\ e.at \in Nat /\ job[e.job] \in JobRecord
BY DEF TypeOK, Effect

(* The number columns of a Job row. *)
LEMMA NumberColumns ==
  ASSUME TypeOK, NEW j \in JobIds
  PROVE  job[j].attempts \in Nat /\ job[j].token \in Nat /\ job[j].deadline \in Nat /\ job[j].max \in Nat
BY DEF TypeOK, JobRecord

(* Comparisons of times, for the provers that do no arithmetic. *)
LEMMA NoLaterThan ==
  ASSUME NEW a \in Nat, NEW b \in Nat, NEW c \in Nat, b <= c
  PROVE  (a <= b => a <= c) /\ (a < b => a < c)
BY SMT

(* Steps that claim nothing and create nothing. *)
LEMMA KeptLeases ==
  ASSUME EffectInv, JobsKept, JobsAdmitted, TypeOK', grants' = grants
  PROVE  LeasesGranted' /\ AttemptsAreGrants'
<1>1. ASSUME NEW j \in JobIds, job'[j].state = "leased" PROVE \E g \in grants' : HeldUnder(j, g)'
  <2>1. KeepsJob(j) /\ job[j].state = "leased" /\ job'[j].token = job[j].token
    BY <1>1 DEF JobsKept, KeepsJob
  <2>2. PICK g \in grants : HeldUnder(j, g) BY <2>1 DEF EffectInv, LeasesGranted
  <2>3. job'[j].deadline <= job[j].deadline
    <3>1. CASE job'[j] = job[j] BY <3>1, NumberColumns, SMT DEF EffectInv, TriggerInv, LeaseInv
    <3>2. CASE job'[j] # job[j]
      BY <1>1, <2>1, <3>2 DEF JobsAdmitted, UpdateAdmitted, TriggerAdmitsJobUpdate
    <3> QED BY <3>1, <3>2
  <2>4. job[j].deadline \in Nat /\ job'[j].deadline \in Nat
    BY NumberColumns DEF EffectInv, TriggerInv, LeaseInv, TypeOK, JobRecord
  <2>5. g.at + MaxLease \in Nat
    <3>1. g.at \in Nat BY DEF EffectInv, TriggerInv, LeaseInv, TypeOK, Grant
    <3> QED BY <3>1, ControlPlaneAssumption, SMT
  <2>6. job'[j].deadline <= g.at + MaxLease BY <2>2, <2>3, <2>4, <2>5, NoLaterThan DEF HeldUnder
  <2> QED BY <2>1, <2>2, <2>6 DEF HeldUnder
<1>2. AttemptsAreGrants'
  BY DEF EffectInv, AttemptsAreGrants, GrantsOf, JobsKept, KeepsJob
<1> QED BY <1>1, <1>2 DEF LeasesGranted

(* A Job that keeps its row keeps its token spent. *)
LEMMA KeptSpent ==
  ASSUME EffectInv, JobsKept, NEW e \in effects
  PROVE  /\ e.token <= job'[e.job].attempts
         /\ job'[e.job].state = "leased" => e.token < job'[e.job].attempts
<1>1. e.job \in JobIds BY EffectFields DEF EffectInv, TriggerInv, LeaseInv
<1> QED BY <1>1 DEF EffectInv, EffectsSpent, JobsKept, KeepsJob

(* Transactions that claim nothing and finalize nothing. *)
LEMMA QuietEffects ==
  ASSUME EffectInv, JobsKept, JobsAdmitted, TypeOK', grants' = grants, effects' = effects
  PROVE  /\ EffectsSpent' /\ LeasesGranted' /\ AttemptsAreGrants' /\ EffectsUnique' /\ EffectsTimely'
<1>1. EffectsSpent' BY KeptSpent DEF EffectsSpent
<1>2. EffectsUnique' /\ EffectsTimely' BY DEF EffectInv, EffectsUnique, EffectsTimely
<1> QED BY <1>1, <1>2, KeptLeases

(* A finalization under the grant g: the lease was live, and is over. *)
LEMMA FinalEffects ==
  ASSUME EffectInv, JobsKept, JobsAdmitted, TypeOK', grants' = grants,
         NEW g \in grants, NEW t \in Nat, NEW kind, RequireActiveLease(g, t),
         RecordEffect(g, kind, t), job'[g.job].state # "leased"
  PROVE  /\ EffectsSpent' /\ LeasesGranted' /\ AttemptsAreGrants' /\ EffectsUnique' /\ EffectsTimely'
<1> DEFINE e0 == [job |-> g.job, token |-> g.token, kind |-> kind, at |-> t]
<1>0. e0.job = g.job /\ e0.token = g.token /\ e0.at = t OBVIOUS
<1> HIDE DEF e0
<1>1. effects' = effects \cup {e0} BY DEF RecordEffect, e0
<1>2. /\ g.job \in JobIds /\ job[g.job].state = "leased" /\ job[g.job].token = g.token
      /\ t < job[g.job].deadline
  BY LeasedRow DEF EffectInv, TriggerInv, LeaseInv
<1>3. /\ g.token = job[g.job].attempts /\ job'[g.job].attempts = job[g.job].attempts
      /\ job[g.job].attempts \in Nat /\ job[g.job].deadline \in Nat
  BY <1>2, NumberColumns DEF EffectInv, TriggerInv, LeaseInv, LeasesInOrder, JobsKept, KeepsJob
<1>4. e0.token <= job'[e0.job].attempts BY <1>0, <1>3, SMT
<1>5. EffectsSpent' BY <1>0, <1>1, <1>4, KeptSpent DEF EffectsSpent
<1>6. ASSUME NEW e \in effects, e.job = g.job PROVE e.token # g.token
  <2>1. e.token < job[g.job].attempts /\ e.token \in Nat
    BY <1>2, <1>6, EffectFields DEF EffectInv, EffectsSpent, TriggerInv, LeaseInv
  <2> QED BY <1>3, <2>1, SMT
<1>7. EffectsUnique'
  <2> SUFFICES ASSUME NEW e \in effects', NEW f \in effects', e.job = f.job, e.token = f.token
               PROVE  e = f
    BY DEF EffectsUnique
  <2>1. CASE e \in effects /\ f \in effects BY <2>1 DEF EffectInv, EffectsUnique
  <2>2. CASE e = e0 BY <1>0, <1>1, <1>6, <2>2
  <2>3. CASE f = e0 BY <1>0, <1>1, <1>6, <2>3
  <2> QED BY <1>1, <2>1, <2>2, <2>3
<1>8. \E h \in grants : h.job = g.job /\ h.token = g.token /\ t < h.at + MaxLease
  <2>1. PICK h \in grants : HeldUnder(g.job, h) BY <1>2 DEF EffectInv, LeasesGranted
  <2>2. h.at + MaxLease \in Nat
    <3>1. h.at \in Nat BY DEF EffectInv, TriggerInv, LeaseInv, TypeOK, Grant
    <3> QED BY <3>1, ControlPlaneAssumption, SMT
  <2>3. t < h.at + MaxLease BY <1>2, <1>3, <2>1, <2>2, NoLaterThan DEF HeldUnder
  <2> QED BY <1>2, <2>1, <2>3 DEF HeldUnder
<1>9. EffectsTimely' BY <1>0, <1>1, <1>8 DEF EffectInv, EffectsTimely
<1> QED BY <1>5, <1>7, <1>9, KeptLeases

(* A new Job has no lease and no attempt. *)
LEMMA CreatedEffects ==
  ASSUME EffectInv, NEW j, NEW r, JobCreated(j, r), job'[j].attempts = 0,
         grants' = grants, effects' = effects
  PROVE  /\ EffectsSpent' /\ LeasesGranted' /\ AttemptsAreGrants' /\ EffectsUnique' /\ EffectsTimely'
<1>1. /\ j \in JobIds /\ job[j].state = "absent" /\ job'[j].state = "queued" /\ job[j].attempts = 0
      /\ \A k \in JobIds \ {j} : job'[k] = job[k]
  BY DEF JobCreated, IsFreshJob, EffectInv, AttemptsAreGrants
<1>2. \A k \in JobIds : job'[k].attempts = job[k].attempts BY <1>1
<1>3. \A k \in JobIds : job'[k].state = "leased" => job'[k] = job[k] BY <1>1
<1>4. \A k \in JobIds : job'[k].state = "absent" => job[k].state = "absent" BY <1>1
<1>5. EffectsSpent'
  BY <1>2, <1>3, EffectFields DEF EffectInv, EffectsSpent, TriggerInv, LeaseInv
<1>6. LeasesGranted' BY <1>3 DEF EffectInv, LeasesGranted, HeldUnder
<1>7. AttemptsAreGrants' BY <1>2, <1>4 DEF EffectInv, AttemptsAreGrants, GrantsOf
<1>8. EffectsUnique' /\ EffectsTimely' BY DEF EffectInv, EffectsUnique, EffectsTimely
<1> QED BY <1>5, <1>6, <1>7, <1>8

(* A claim draws a token that no grant and no effect has, and charges it. *)
LEMMA ClaimEffects ==
  ASSUME EffectInv, NEW w \in Workers, NEW j \in JobIds, NEW n \in Nat, NEW t \in Nat,
         ClaimJob(w, j, n, t)
  PROVE  /\ EffectsSpent' /\ LeasesGranted' /\ AttemptsAreGrants' /\ EffectsUnique' /\ EffectsTimely'
<1> DEFINE g0 == [job |-> j, token |-> job[j].attempts + 1, worker |-> w, at |-> t]
<1>0. g0.job = j /\ g0.token = job[j].attempts + 1 /\ g0.at = t OBVIOUS
<1>1. /\ job[j].state = "queued" /\ job'[j].state = "leased" /\ job[j].attempts \in Nat
      /\ job'[j].token = job[j].attempts + 1 /\ job'[j].attempts = job[j].attempts + 1
      /\ \A k \in JobIds \ {j} : job'[k] = job[k]
      /\ RunMoves(job[j].run, "queued", "running")
      /\ grants' = grants \cup {g0}
  BY ClaimMoves DEF EffectInv, TriggerInv
<1> HIDE DEF g0
<1>2. effects' = effects BY DEF ClaimJob
<1>3. job'[j].deadline = t + MaxLease /\ t + MaxLease \in Nat
  <2>1. job[j] \in JobRecord BY DEF EffectInv, TriggerInv, LeaseInv, TypeOK
  <2>2. run[job[j].run].state = "queued" BY <1>1 DEF RunMoves
  <2>3. job'[j].deadline = t + MaxLease
    BY <2>1, <2>2 DEF ClaimJob, EffectInv, TriggerInv, LeaseInv, TypeOK, JobRecord
  <2> QED BY <2>3, ControlPlaneAssumption, SMT
<1>4. EffectsSpent'
  <2> SUFFICES ASSUME NEW e \in effects
               PROVE  /\ e.token <= job'[e.job].attempts
                      /\ job'[e.job].state = "leased" => e.token < job'[e.job].attempts
    BY <1>2 DEF EffectsSpent
  <2>1. /\ e.job \in JobIds /\ e.token \in Nat /\ e.token <= job[e.job].attempts
        /\ job[e.job].state = "leased" => e.token < job[e.job].attempts
    BY EffectFields DEF EffectInv, EffectsSpent, TriggerInv, LeaseInv
  <2>2. CASE e.job = j BY <1>1, <2>1, <2>2, SMT
  <2>3. CASE e.job # j BY <1>1, <2>1, <2>3
  <2> QED BY <2>2, <2>3
<1>5. LeasesGranted'
  <2> SUFFICES ASSUME NEW k \in JobIds, job'[k].state = "leased"
               PROVE  \E g \in grants' : HeldUnder(k, g)'
    BY DEF LeasesGranted
  <2>1. CASE k = j
    <3>1. job'[j].deadline <= g0.at + MaxLease BY <1>0, <1>3, SMT
    <3> QED BY <1>0, <1>1, <2>1, <3>1 DEF HeldUnder
  <2>2. CASE k # j
    <3>1. job'[k] = job[k] BY <1>1, <2>2
    <3>2. PICK g \in grants : HeldUnder(k, g) BY <3>1 DEF EffectInv, LeasesGranted
    <3> QED BY <1>1, <3>1, <3>2 DEF HeldUnder
  <2> QED BY <2>1, <2>2
<1>6. AttemptsAreGrants'
  <2>1. g0 \notin grants
    <3>1. ASSUME g0 \in grants PROVE FALSE
      <4>1. g0.token <= job[j].attempts
        BY <1>0, <3>1 DEF EffectInv, TriggerInv, LeaseInv, LeasesInOrder
      <4> QED BY <1>0, <1>1, <4>1, SMT
    <3> QED BY <3>1
  <2>2. IsFiniteSet(grants) /\ IsFiniteSet(grants')
    BY <1>1, FS_AddElement DEF EffectInv, AttemptsAreGrants
  <2>3. ASSUME NEW k \in JobIds PROVE Cardinality(GrantsOf(k)') = job'[k].attempts
    <3>1. Cardinality(GrantsOf(k)) = job[k].attempts /\ IsFiniteSet(GrantsOf(k))
      <4>1. GrantsOf(k) \subseteq grants BY DEF GrantsOf
      <4> QED BY <2>2, <4>1, FS_Subset DEF EffectInv, AttemptsAreGrants
    <3>2. CASE k = j
      <4>1. GrantsOf(k)' = GrantsOf(k) \cup {g0} BY <1>0, <1>1, <3>2 DEF GrantsOf
      <4>2. g0 \notin GrantsOf(k) BY <2>1 DEF GrantsOf
      <4>3. Cardinality(GrantsOf(k) \cup {g0}) = Cardinality(GrantsOf(k)) + 1
        BY <3>1, <4>2, FS_AddElement
      <4> QED BY <1>1, <3>1, <3>2, <4>1, <4>3
    <3>3. CASE k # j
      <4>1. GrantsOf(k)' = GrantsOf(k) BY <1>0, <1>1, <3>3 DEF GrantsOf
      <4> QED BY <1>1, <3>1, <3>3, <4>1
    <3> QED BY <3>2, <3>3
  <2>4. \A k \in JobIds : job'[k].state = "absent" => job'[k].attempts = 0
    BY <1>1 DEF EffectInv, AttemptsAreGrants
  <2> QED BY <2>2, <2>3, <2>4 DEF AttemptsAreGrants
<1>7. EffectsUnique' BY <1>2 DEF EffectInv, EffectsUnique
<1>8. EffectsTimely' BY <1>1, <1>2 DEF EffectInv, EffectsTimely
<1> QED BY <1>4, <1>5, <1>6, <1>7, <1>8

(* Every transaction keeps the invariant. *)
LEMMA StepEffects ==
  ASSUME EffectInv, Step
  PROVE  EffectInv'
<1> SUFFICES /\ EffectsSpent' /\ LeasesGranted' /\ AttemptsAreGrants'
             /\ EffectsUnique' /\ EffectsTimely'
  BY StepTriggerInv DEF EffectInv
<1>0. TriggerInv /\ LeaseInv /\ TypeOK BY DEF EffectInv, TriggerInv, LeaseInv
<1>1. CASE UNCHANGED vars
  BY <1>1 DEF vars, EffectInv, EffectsSpent, LeasesGranted, HeldUnder, AttemptsAreGrants,
                     GrantsOf, EffectsUnique, EffectsTimely
<1>2. CASE StepCases
  <2>1. StepCases BY <1>0, <1>2
  <2>2. JobsAdmitted /\ TypeOK' BY <1>0, <1>2, StepAdmitted, StepType
  <2> DEFINE Goal == /\ EffectsSpent' /\ LeasesGranted' /\ AttemptsAreGrants'
                     /\ EffectsUnique' /\ EffectsTimely'
  <2>3. ASSUME JobsKept, grants' = grants, effects' = effects PROVE Goal
    BY <2>2, <2>3, QuietEffects
  <2>4. ASSUME job' = job, grants' = grants, effects' = effects PROVE Goal
    BY <2>3, <2>4, SameJobKept DEF JobsKept
  <2>5. CASE WorkerCases
    <3>1. ASSUME NEW g \in grants, NEW t \in Nat, NEW n \in Nat, Heartbeat(g, n, t) PROVE Goal
      <4>1. effects' = effects BY <3>1 DEF Heartbeat
      <4> QED BY <1>0, <2>3, <3>1, <4>1, HeartbeatMoves
    <3>2. ASSUME NEW g \in grants, NEW t \in Nat, NEW result \in Results, NEW delivered \in BOOLEAN,
                 CompleteJob(g, result, delivered, t)
          PROVE  Goal
      <4>1. RequireActiveLease(g, t) /\ RecordEffect(g, "complete", t) BY <3>2 DEF CompleteJob
      <4>2. job[g.job] \in JobRecord /\ job'[g.job] = SucceededJob(job[g.job], result)
        BY <1>0, <3>2, GrantFields DEF CompleteJob, TypeOK
      <4>3. job'[g.job].state # "leased" BY <4>2, SucceededRow DEF EndsAs
      <4> QED BY <1>0, <2>2, <3>2, <4>1, <4>3, CompleteMoves, FinalEffects
    <3>3. ASSUME NEW g \in grants, NEW result \in Results, CompletionRetry(g, result) PROVE Goal
      BY <2>4, <3>3 DEF CompletionRetry
    <3>4. ASSUME NEW g \in grants, NEW t \in Nat, NEW retryable \in BOOLEAN, FailJob(g, retryable, t)
          PROVE  Goal
      <4>1. RequireActiveLease(g, t) /\ RecordEffect(g, "fail", t) BY <3>4 DEF FailJob
      <4>2. /\ job[g.job] \in JobRecord
            /\ \/ job'[g.job] = RequeuedJob(job[g.job], t)
               \/ job'[g.job] = [ClearedLease(job[g.job]) EXCEPT !.state = "dead-letter"]
               \/ job'[g.job] = [ClearedLease(job[g.job]) EXCEPT !.state = "failed"]
        BY <1>0, <3>4, GrantFields DEF FailJob, TypeOK
      <4>3. \E s \in {"queued", "dead-letter", "failed"} : EndsAs(job[g.job], job'[g.job], s)
        BY <4>2, RequeuedRow, ClearedRow
      <4>4. job'[g.job].state # "leased" BY <4>3 DEF EndsAs
      <4> QED BY <1>0, <2>2, <3>4, <4>1, <4>4, FailMoves, FinalEffects
    <3>5. ASSUME NEW g \in grants, NEW t \in Nat, NEW expires \in Nat, CreateCheckpoint(g, expires, t)
          PROVE  Goal
      <4>1. RequireActiveLease(g, t) /\ RecordEffect(g, "checkpoint", t)
        BY <3>5 DEF CreateCheckpoint
      <4>2. job[g.job] \in JobRecord /\ job'[g.job] = SucceededJob(job[g.job], "checkpoint")
        BY <1>0, <3>5, GrantFields DEF CreateCheckpoint, TypeOK
      <4>3. job'[g.job].state # "leased" BY <4>2, SucceededRow DEF EndsAs
      <4> QED BY <1>0, <2>2, <3>5, <4>1, <4>3, CheckpointMoves, FinalEffects
    <3> QED BY <2>5, <3>1, <3>2, <3>3, <3>4, <3>5 DEF WorkerCases
  <2>6. CASE ApprovalCases
    <3>1. ASSUME NEW c \in JobIds, NEW t \in Nat, NEW p \in Principals, NEW approve \in BOOLEAN,
                 DecideApproval(p, c, approve, t)
          PROVE  Goal
      BY <2>4, <3>1 DEF DecideApproval
    <3>2. ASSUME NEW c \in JobIds, NEW t \in Nat, ResumeTooLate(c, t) PROVE Goal
      BY <2>4, <3>2 DEF ResumeTooLate
    <3>3. ASSUME NEW c \in JobIds, NEW t \in Nat, NEW j \in JobIds, ResumeCheckpoint(c, j, t)
          PROVE  Goal
      <4>1. effects' = effects /\ job'[j].attempts = 0
        BY <1>0, <3>3 DEF ResumeCheckpoint, TypeOK, NoJob
      <4> QED BY <1>0, <3>3, <4>1, ResumeMoves, CreatedEffects
    <3> QED BY <2>6, <3>1, <3>2, <3>3 DEF ApprovalCases
  <2>7. CASE Tick BY <2>4, <2>7 DEF Tick
  <2>8. ASSUME NEW r \in Runs, CancelRun(r) PROVE Goal
    <3>1. effects' = effects BY <2>8 DEF CancelRun
    <3> QED BY <1>0, <2>3, <2>8, <3>1, CancelMoves
  <2>9. CASE \E readAt \in Nat : ExpireDueApprovals(readAt)
    BY <2>4, <2>9 DEF ExpireDueApprovals
  <2>10. ASSUME NEW r \in Runs, NEW j \in JobIds, NEW m \in Nat, NEW t \in Nat, SubmitRun(r, j, m, t)
         PROVE  Goal
    <3>1. effects' = effects /\ job'[j].attempts = 0
      BY <1>0, <2>10 DEF SubmitRun, TypeOK, NoJob
    <3> QED BY <1>0, <2>10, <3>1, SubmitMoves, CreatedEffects
  <2>11. ASSUME NEW S \in LeasedBatches, NEW t \in Nat, ExpireLeases(S, t) PROVE Goal
    <3>1. effects' = effects BY <2>11 DEF ExpireLeases
    <3> QED BY <1>0, <2>3, <2>11, <3>1, ExpireLeasesMoves
  <2>12. ASSUME NEW w \in Workers, NEW j \in JobIds, NEW n \in Nat, NEW t \in Nat, ClaimJob(w, j, n, t)
         PROVE  Goal
    BY <2>12, ClaimEffects
  <2>13. CASE \E r \in Runs, j \in JobIds, m \in Nat \ {0}, t \in Nat \ {0} : SubmitRun(r, j, m, t)
    BY <2>10, <2>13
  <2>14. CASE \E w \in Workers, j \in JobIds, n \in Nat \ {0}, t \in Nat \ {0} : ClaimJob(w, j, n, t)
    BY <2>12, <2>14
  <2> QED BY <2>1, <2>5, <2>6, <2>7, <2>8, <2>9, <2>11, <2>13, <2>14 DEF StepCases
<1> QED BY <1>1, <1>2 DEF Step

(* No lease and no effect at first. *)
LEMMA EffectsInitially == Init => EffectInv
<1> SUFFICES ASSUME Init PROVE EffectInv
  OBVIOUS
<1>1. TriggerInv BY TriggerInvInitially
<1>2. grants = {} /\ effects = {} /\ \A j \in JobIds : job[j].attempts = 0 /\ job[j].state = "absent"
  BY DEF Init, NoJob
<1>3. \A j \in JobIds : GrantsOf(j) = {} BY <1>2 DEF GrantsOf
<1>4. AttemptsAreGrants BY <1>2, <1>3, FS_EmptySet DEF AttemptsAreGrants
<1>5. EffectsSpent /\ LeasesGranted /\ EffectsUnique /\ EffectsTimely
  BY <1>2 DEF EffectsSpent, LeasesGranted, EffectsUnique, EffectsTimely
<1> QED BY <1>1, <1>4, <1>5 DEF EffectInv

(* Whatever the renewals, repeats and sweeps, a lease changes the database at  *)
(* most once and before the hard deadline its claim set; every attempt charged *)
(* to a Job is one lease, and a queued Job always has an attempt left.         *)
THEOREM LeasesActOnceInTime == Spec => []OneTimelyEffectPerLease
<1>1. EffectInv /\ [Next]_vars => EffectInv'
  BY StepEffects, NextIsStep DEF EffectInv, TriggerInv, LeaseInv
<1>2. EffectInv => OneTimelyEffectPerLease
  <2> SUFFICES ASSUME EffectInv PROVE OneTimelyEffectPerLease
    OBVIOUS
  <2>1. ASSUME NEW j \in JobIds
        PROVE  /\ Cardinality({g \in grants : g.job = j}) = job[j].attempts
               /\ job[j].attempts <= job[j].max
               /\ job[j].state = "queued" => job[j].attempts < job[j].max
    <3>1. Cardinality({g \in grants : g.job = j}) = job[j].attempts
      BY DEF EffectInv, AttemptsAreGrants, GrantsOf
    <3>2. CASE job[j].state = "absent"
      <4>1. job[j].attempts = 0 /\ job[j].max \in Nat
        BY <3>2, NumberColumns DEF EffectInv, AttemptsAreGrants, TriggerInv, LeaseInv
      <4> QED BY <3>1, <3>2, <4>1, SMT
    <3>3. CASE job[j].state # "absent"
      BY <3>1, <3>3 DEF EffectInv, TriggerInv, RowsAdmitted, RowAdmitted, TriggerAdmitsLease
    <3> QED BY <3>2, <3>3
  <2> QED BY <2>1 DEF EffectInv, EffectsUnique, EffectsTimely, OneTimelyEffectPerLease
<1> QED BY EffectsInitially, <1>1, <1>2, PTL DEF Spec

-----------------------------------------------------------------------------
(* A cancellation fences the lease it cuts off.  Between the end of a lease   *)
(* and a cancellation that fences nothing its Job waits in the queue: it got  *)
(* there by an effect under the lease, or because the lease had run out.      *)

(* The lease g was finalized, or there was time for it to run out. *)
Lapsed(g) == (\E e \in effects : e.job = g.job /\ e.token = g.token) \/ g.at < now

FenceRow(j) == fence[j] # 0 =>
  /\ job[j].state = "cancelled" /\ fence[j] = job[j].attempts
  /\ \A e \in effects : e.job = j => e.token # fence[j]

(* The grant g is the newest of its Job: what the row says of it. *)
NewestRow(g) == g.token = job[g.job].attempts =>
  /\ job[g.job].state = "leased" =>
       g.at <= job[g.job].heartbeat /\ g.at < job[g.job].expires /\ g.at < job[g.job].deadline
  /\ job[g.job].state = "queued" => Lapsed(g)
  /\ job[g.job].state = "cancelled" => fence[g.job] = g.token \/ Lapsed(g)

CutOffRow(j) == FenceRow(j) /\ \A g \in GrantsOf(j) : NewestRow(g)

CutOffInv == EffectInv /\ \A j \in JobIds : CutOffRow(j)

(* The columns the argument compares are numbers. *)
LEMMA CutOffColumns ==
  ASSUME TypeOK, NEW j \in JobIds
  PROVE  /\ now \in Nat /\ job[j].heartbeat \in Nat /\ job[j].expires \in Nat
         /\ job[j].deadline \in Nat /\ job[j].attempts \in Nat
         /\ \A g \in GrantsOf(j) : g.at \in Nat /\ g.token \in Nat
BY DEF TypeOK, JobRecord, Grant, GrantsOf

(* No effect is under the token of a leased Job, and it has no fence. *)
LEMMA LeasedUnspent ==
  ASSUME CutOffInv, NEW j \in JobIds, job[j].state = "leased"
  PROVE  /\ job[j].token = job[j].attempts /\ fence[j] = 0
         /\ \A e \in effects : e.job = j => e.token # job[j].attempts
<1>1. job[j].token = job[j].attempts
  BY DEF CutOffInv, EffectInv, TriggerInv, LeaseInv, LeasesInOrder
<1>2. fence[j] = 0 BY DEF CutOffInv, CutOffRow, FenceRow
<1>3. ASSUME NEW e \in effects, e.job = j PROVE e.token # job[j].attempts
  <2>1. e.token < job[j].attempts /\ e.token \in Nat /\ job[j].attempts \in Nat
    BY <1>3, EffectFields, NumberColumns DEF CutOffInv, EffectInv, EffectsSpent, TriggerInv, LeaseInv
  <2> QED BY <2>1, SMT
<1> QED BY <1>1, <1>2, <1>3

(* A row no transaction touched. *)
LEMMA UntouchedRow ==
  ASSUME CutOffInv, NEW j \in JobIds, job'[j] = job[j], fence'[j] = fence[j],
         GrantsOf(j)' = GrantsOf(j), effects \subseteq effects',
         \A e \in effects' : e.job = j => e \in effects, now' = now \/ now' = now + 1
  PROVE  CutOffRow(j)'
<1>1. FenceRow(j)' BY DEF CutOffInv, CutOffRow, FenceRow
<1>2. ASSUME NEW g \in GrantsOf(j) PROVE NewestRow(g)'
  <2>1. g.job = j /\ NewestRow(g) BY DEF GrantsOf, CutOffInv, CutOffRow
  <2>2. g.at < now => g.at < now'
    <3>1. g.at \in Nat /\ now \in Nat
      BY CutOffColumns DEF CutOffInv, EffectInv, TriggerInv, LeaseInv
    <3> QED BY <3>1, SMT
  <2>3. Lapsed(g) => Lapsed(g)' BY <2>2 DEF Lapsed
  <2> QED BY <2>1, <2>3 DEF NewestRow
<1> QED BY <1>1, <1>2 DEF CutOffRow

(* The row of a lease that ended, and was not cancelled. *)
LEMMA EndedRow ==
  ASSUME CutOffInv, NEW j \in JobIds, job[j].state = "leased", fence'[j] = fence[j],
         job'[j].state \notin {"leased", "cancelled"}, job'[j].attempts = job[j].attempts,
         GrantsOf(j)' = GrantsOf(j),
         \A g \in GrantsOf(j) : g.token = job[j].attempts => Lapsed(g)'
  PROVE  CutOffRow(j)'
<1>1. FenceRow(j)' BY LeasedUnspent DEF FenceRow
<1>2. \A g \in GrantsOf(j) : NewestRow(g)' BY DEF NewestRow, GrantsOf
<1> QED BY <1>1, <1>2 DEF CutOffRow

(* A finalization leaves its effect under the lease it ends. *)
LEMMA FinalRows ==
  ASSUME CutOffInv, JobsKept, grants' = grants, fence' = fence, now' = now,
         NEW g \in grants, NEW t \in Nat, NEW kind, RequireActiveLease(g, t), RecordEffect(g, kind, t),
         job'[g.job].state \notin {"leased", "cancelled"},
         \A k \in JobIds \ {g.job} : job'[k] = job[k]
  PROVE  \A j \in JobIds : CutOffRow(j)'
<1>1. g.job \in JobIds /\ job[g.job].state = "leased" /\ job[g.job].token = g.token
  BY LeasedRow DEF CutOffInv, EffectInv, TriggerInv, LeaseInv
<1> DEFINE e0 == [job |-> g.job, token |-> g.token, kind |-> kind, at |-> t]
<1>2. e0.job = g.job /\ e0.token = g.token /\ effects' = effects \cup {e0} BY DEF RecordEffect
<1> HIDE DEF e0
<1>3. \A j : GrantsOf(j)' = GrantsOf(j) BY DEF GrantsOf
<1>4. CutOffRow(g.job)'
  <2>1. \A h \in GrantsOf(g.job) : h.token = job[g.job].attempts => Lapsed(h)'
    BY <1>1, <1>2, LeasedUnspent DEF Lapsed, GrantsOf
  <2>2. job'[g.job].attempts = job[g.job].attempts BY <1>1 DEF JobsKept, KeepsJob
  <2> QED BY <1>1, <1>3, <2>1, <2>2, EndedRow
<1>5. ASSUME NEW j \in JobIds, j # g.job PROVE CutOffRow(j)'
  BY <1>2, <1>3, <1>5, UntouchedRow
<1> QED BY <1>4, <1>5

(* A renewal moves the ends of the lease, never before the grant. *)
LEMMA RenewedRows ==
  ASSUME CutOffInv, NEW g \in grants, NEW n \in Nat \ {0}, NEW t \in Nat, Heartbeat(g, n, t)
  PROVE  \A j \in JobIds : CutOffRow(j)'
<1> DEFINE x == job[g.job]
           renewed == Greatest(t, x.heartbeat)
<1>1. /\ TypeOK /\ g.job \in JobIds /\ x \in JobRecord /\ x.state = "leased" /\ renewed < x.deadline
      /\ fence' = fence /\ grants' = grants /\ effects' = effects /\ now' = now
      /\ job'[g.job] = RenewedJob(x, n, renewed)
      /\ \A k \in JobIds \ {g.job} : job'[k] = job[k]
  BY GrantFields DEF CutOffInv, EffectInv, TriggerInv, LeaseInv, Heartbeat, RequireActiveLease, TypeOK
<1>2. /\ job'[g.job].state = "leased" /\ job'[g.job].attempts = x.attempts
      /\ job'[g.job].heartbeat = renewed /\ job'[g.job].deadline = x.deadline
      /\ job'[g.job].expires = Least(renewed + n, x.deadline)
  BY <1>1 DEF RenewedJob, JobRecord
<1>3. \A j : GrantsOf(j)' = GrantsOf(j) BY <1>1 DEF GrantsOf
<1>4. ASSUME NEW h \in GrantsOf(g.job) PROVE NewestRow(h)'
  <2>1. h.job = g.job /\ NewestRow(h) BY <1>1 DEF GrantsOf, CutOffInv, CutOffRow
  <2>2. ASSUME h.token = x.attempts
        PROVE  h.at <= renewed /\ h.at < Least(renewed + n, x.deadline) /\ h.at < x.deadline
    <3>1. h.at <= x.heartbeat /\ h.at < x.deadline BY <1>1, <2>1, <2>2 DEF NewestRow
    <3>2. h.at \in Nat /\ x.heartbeat \in Nat /\ x.deadline \in Nat BY <1>1, CutOffColumns
    <3> HIDE DEF x
    <3> QED BY <3>1, <3>2, SMT DEF Greatest, Least
  <2> HIDE DEF x, renewed
  <2> QED BY <1>2, <2>1, <2>2 DEF NewestRow, x
<1>5. CutOffRow(g.job)'
  <2>1. FenceRow(g.job)' BY <1>1, LeasedUnspent DEF FenceRow
  <2> QED BY <1>3, <1>4, <2>1 DEF CutOffRow
<1>6. ASSUME NEW j \in JobIds, j # g.job PROVE CutOffRow(j)'
  BY <1>1, <1>3, <1>6, UntouchedRow
<1> QED BY <1>5, <1>6

(* A sweep takes back leases that have run out, and cancels none of them: the *)
(* Run of a leased Job is running.                                            *)
LEMMA SweptRows ==
  ASSUME CutOffInv, NEW S \in LeasedBatches, NEW t \in Nat, \A j \in S : RanOut(j), ExpireLeases(S, t)
  PROVE  \A j \in JobIds : CutOffRow(j)'
<1>1. /\ TypeOK /\ LeaseInv /\ grants' = grants /\ effects' = effects /\ now' = now
  BY DEF CutOffInv, EffectInv, TriggerInv, LeaseInv, ExpireLeases
<1>2. \A j : GrantsOf(j)' = GrantsOf(j) BY <1>1 DEF GrantsOf
<1>3. ASSUME NEW j \in JobIds, j \in S PROVE CutOffRow(j)'
  <2>1. job[j].state = "leased" /\ job[j] \in JobRecord BY <1>1, <1>3 DEF LeasedBatches, TypeOK
  <2>2. job[j].run \in Runs /\ run[job[j].run].state = "running"
    BY <1>1, <2>1 DEF LeaseInv, RowsAgree, RowsBelong, JobMatchesRun
  <2>3. job'[j] = SweptJob(j, t) /\ fence'[j] = fence[j] BY <1>3, <2>2 DEF ExpireLeases
  <2>4. \E s \in {"queued", "dead-letter"} : EndsAs(job[j], SweptJob(j, t), s)
    BY <2>1, <2>2, RequeuedRow, ClearedRow DEF SweptJob
  <2>5. ASSUME NEW g \in GrantsOf(j), g.token = job[j].attempts PROVE Lapsed(g)'
    <3>1. g.job = j /\ g.at < job[j].expires /\ g.at < job[j].deadline
      BY <2>1, <2>5 DEF CutOffInv, CutOffRow, NewestRow, GrantsOf
    <3>2. /\ g.at \in Nat /\ now \in Nat /\ job[j].expires \in Nat /\ job[j].deadline \in Nat
      BY <1>1, CutOffColumns
    <3>3. job[j].expires <= now \/ job[j].deadline <= now BY <1>3 DEF RanOut
    <3>4. g.at < now BY <3>1, <3>2, <3>3, SMT
    <3> QED BY <1>1, <3>4 DEF Lapsed
  <2> QED BY <1>2, <2>1, <2>3, <2>4, <2>5, EndedRow DEF EndsAs
<1>4. ASSUME NEW j \in JobIds, j \notin S PROVE CutOffRow(j)'
  <2>1. job'[j] = job[j] /\ fence'[j] = fence[j] BY <1>4 DEF ExpireLeases
  <2> QED BY <1>1, <1>2, <2>1, UntouchedRow
<1> QED BY <1>3, <1>4

(* cancel_run fences what it takes from a Worker; a Job it takes from the     *)
(* queue has no lease to cut off.                                             *)
LEMMA CancelledRows ==
  ASSUME CutOffInv, NEW r \in Runs, CancelRun(r)
  PROVE  \A j \in JobIds : CutOffRow(j)'
<1>1. /\ TypeOK /\ grants' = grants /\ effects' = effects /\ now' = now
  BY DEF CutOffInv, EffectInv, TriggerInv, LeaseInv, CancelRun
<1>2. \A j : GrantsOf(j)' = GrantsOf(j) BY <1>1 DEF GrantsOf
<1>3. ASSUME NEW j \in JobIds, job[j].run = r, job[j].state = "leased" PROVE CutOffRow(j)'
  <2>1. EndsAs(job[j], job'[j], "cancelled") /\ fence'[j] = job[j].token
    <3>1. job[j] \in JobRecord BY <1>1 DEF TypeOK
    <3> QED BY <1>3, <3>1, CancelledRow DEF CancelRun, Active
  <2>2. FenceRow(j)' BY <1>1, <1>3, <2>1, LeasedUnspent DEF FenceRow, EndsAs
  <2>3. \A g \in GrantsOf(j) : NewestRow(g)'
    BY <1>3, <2>1, LeasedUnspent DEF NewestRow, GrantsOf, EndsAs
  <2> QED BY <1>2, <2>2, <2>3 DEF CutOffRow
<1>4. ASSUME NEW j \in JobIds, job[j].run = r, job[j].state = "queued" PROVE CutOffRow(j)'
  <2>1. EndsAs(job[j], job'[j], "cancelled") /\ fence'[j] = fence[j] /\ fence[j] = 0
    <3>1. job[j] \in JobRecord BY <1>1 DEF TypeOK
    <3>2. fence[j] = 0 BY <1>4 DEF CutOffInv, CutOffRow, FenceRow
    <3> QED BY <1>4, <3>1, <3>2, CancelledRow DEF CancelRun, Active
  <2>2. \A g \in GrantsOf(j) : NewestRow(g)'
    BY <1>1, <1>4, <2>1 DEF CutOffInv, CutOffRow, NewestRow, Lapsed, GrantsOf, EndsAs
  <2> QED BY <1>2, <2>1, <2>2 DEF CutOffRow, FenceRow
<1>5. ASSUME NEW j \in JobIds, ~(job[j].run = r /\ Active(j)) PROVE CutOffRow(j)'
  <2>1. job'[j] = job[j] /\ fence'[j] = fence[j] BY <1>5 DEF CancelRun
  <2> QED BY <1>1, <1>2, <2>1, UntouchedRow
<1> QED BY <1>3, <1>4, <1>5 DEF Active

(* A claim starts a lease that ends after it: the newest grant is the claim's. *)
LEMMA ClaimedRows ==
  ASSUME CutOffInv, NEW w \in Workers, NEW j \in JobIds, NEW n \in Nat \ {0}, NEW t \in Nat,
         ClaimJob(w, j, n, t)
  PROVE  \A k \in JobIds : CutOffRow(k)'
<1>a. PICK g0 : g0 = [job |-> j, token |-> job[j].attempts + 1, worker |-> w, at |-> t] OBVIOUS
<1>0. g0.job = j /\ g0.at = t BY <1>a
<1>1. /\ job[j].state = "queued" /\ job'[j].state = "leased" /\ job[j].attempts \in Nat
      /\ job'[j].attempts = job[j].attempts + 1
      /\ \A k \in JobIds \ {j} : job'[k] = job[k]
      /\ RunMoves(job[j].run, "queued", "running")
      /\ grants' = grants \cup {g0}
  BY <1>a, ClaimMoves DEF CutOffInv, EffectInv, TriggerInv
<1>2. effects' = effects /\ fence' = fence /\ now' = now BY DEF ClaimJob
<1>3. /\ job'[j].heartbeat = t /\ job'[j].expires = Least(t + n, t + MaxLease)
      /\ job'[j].deadline = t + MaxLease
  <2>1. job[j] \in JobRecord BY DEF CutOffInv, EffectInv, TriggerInv, LeaseInv, TypeOK
  <2>2. run[job[j].run].state = "queued" BY <1>1 DEF RunMoves
  <2> QED BY <2>1, <2>2 DEF ClaimJob, CutOffInv, EffectInv, TriggerInv, LeaseInv, TypeOK, JobRecord
<1>4. t <= t /\ t < Least(t + n, t + MaxLease) /\ t < t + MaxLease
  BY ControlPlaneAssumption, SMT DEF Least
<1>5. NewestRow(g0)'
  <2>1. g0.at <= job'[j].heartbeat /\ g0.at < job'[j].expires /\ g0.at < job'[j].deadline
    BY <1>0, <1>3, <1>4
  <2> QED BY <1>0, <1>1, <2>1 DEF NewestRow
<1>6. ASSUME NEW g \in GrantsOf(j) PROVE NewestRow(g)'
  <2>1. g.job = j /\ g.token \in Nat /\ g.token <= job[j].attempts
    BY CutOffColumns DEF CutOffInv, EffectInv, TriggerInv, LeaseInv, LeasesInOrder, GrantsOf
  <2>2. g.token # job[j].attempts + 1 BY <1>1, <2>1, SMT
  <2> QED BY <1>1, <2>1, <2>2 DEF NewestRow
<1>7. CutOffRow(j)'
  <2>1. FenceRow(j)' BY <1>1, <1>2 DEF CutOffInv, CutOffRow, FenceRow
  <2>2. \A g \in GrantsOf(j)' : NewestRow(g)'
    <3>1. ASSUME NEW g \in GrantsOf(j)' PROVE g \in GrantsOf(j) \/ g = g0 BY <1>1, <3>1 DEF GrantsOf
    <3> QED BY <1>5, <1>6, <3>1
  <2> QED BY <2>1, <2>2 DEF CutOffRow
<1>8. ASSUME NEW k \in JobIds, k # j PROVE CutOffRow(k)'
  <2>1. GrantsOf(k)' = GrantsOf(k) BY <1>0, <1>1, <1>8 DEF GrantsOf
  <2> QED BY <1>1, <1>2, <1>8, <2>1, UntouchedRow
<1> QED BY <1>7, <1>8

(* A new Job was never leased. *)
LEMMA CreatedRows ==
  ASSUME CutOffInv, NEW j, NEW r, JobCreated(j, r), grants' = grants, effects' = effects,
         fence' = fence, now' = now
  PROVE  \A k \in JobIds : CutOffRow(k)'
<1>1. /\ j \in JobIds /\ job[j].state = "absent" /\ \A k \in JobIds \ {j} : job'[k] = job[k]
  BY DEF JobCreated, IsFreshJob
<1>2. \A k : GrantsOf(k)' = GrantsOf(k) BY DEF GrantsOf
<1>3. CutOffRow(j)'
  <2>1. fence[j] = 0 BY <1>1 DEF CutOffInv, CutOffRow, FenceRow
  <2>2. GrantsOf(j) = {}
    BY <1>1 DEF CutOffInv, EffectInv, TriggerInv, LeaseInv, LeasesInOrder, GrantsOf
  <2> QED BY <1>2, <2>1, <2>2 DEF CutOffRow, FenceRow
<1>4. ASSUME NEW k \in JobIds, k # j PROVE CutOffRow(k)' BY <1>1, <1>2, <1>4, UntouchedRow
<1> QED BY <1>3, <1>4

(* Every transaction keeps the invariant. *)
LEMMA StepCutOff ==
  ASSUME CutOffInv, Step
  PROVE  CutOffInv'
<1> DEFINE Goal == \A j \in JobIds : CutOffRow(j)'
<1> SUFFICES Goal BY StepEffects DEF CutOffInv
<1>0. EffectInv /\ TriggerInv /\ LeaseInv /\ TypeOK BY DEF CutOffInv, EffectInv, TriggerInv, LeaseInv
<1>1. ASSUME job' = job, fence' = fence, grants' = grants, effects' = effects,
             now' = now \/ now' = now + 1
      PROVE  Goal
  <2>1. \A j : GrantsOf(j)' = GrantsOf(j) BY <1>1 DEF GrantsOf
  <2> QED BY <1>1, <2>1, UntouchedRow
<1> HIDE DEF Goal
<1>2. CASE UNCHANGED vars BY <1>1, <1>2 DEF vars
<1>3. CASE WorkerCases
  <2>1. ASSUME NEW g \in grants, NEW t \in Nat, NEW n \in Nat \ {0}, Heartbeat(g, n, t) PROVE Goal
    BY <2>1, RenewedRows DEF Goal
  <2>2. ASSUME NEW g \in grants, NEW t \in Nat, NEW result \in Results, NEW delivered \in BOOLEAN,
               CompleteJob(g, result, delivered, t)
        PROVE  Goal
    <3>1. /\ RequireActiveLease(g, t) /\ RecordEffect(g, "complete", t) /\ fence' = fence /\ now' = now
          /\ g.job \in JobIds /\ job[g.job] \in JobRecord
          /\ job'[g.job] = SucceededJob(job[g.job], result)
          /\ \A k \in JobIds \ {g.job} : job'[k] = job[k]
      BY <1>0, <2>2, GrantFields DEF CompleteJob, TypeOK
    <3>2. job'[g.job].state \notin {"leased", "cancelled"} BY <3>1, SucceededRow DEF EndsAs
    <3> QED BY <1>0, <2>2, <3>1, <3>2, CompleteMoves, FinalRows DEF Goal
  <2>3. ASSUME NEW g \in grants, NEW result \in Results, CompletionRetry(g, result) PROVE Goal
    BY <1>1, <2>3 DEF CompletionRetry
  <2>4. ASSUME NEW g \in grants, NEW t \in Nat, NEW retryable \in BOOLEAN, FailJob(g, retryable, t)
        PROVE  Goal
    <3>1. /\ RequireActiveLease(g, t) /\ RecordEffect(g, "fail", t) /\ fence' = fence /\ now' = now
          /\ g.job \in JobIds /\ job[g.job] \in JobRecord
          /\ \/ job'[g.job] = RequeuedJob(job[g.job], t)
             \/ job'[g.job] = [ClearedLease(job[g.job]) EXCEPT !.state = "dead-letter"]
             \/ job'[g.job] = [ClearedLease(job[g.job]) EXCEPT !.state = "failed"]
          /\ \A k \in JobIds \ {g.job} : job'[k] = job[k]
      BY <1>0, <2>4, GrantFields DEF FailJob, TypeOK
    <3>2. \E s \in {"queued", "dead-letter", "failed"} : EndsAs(job[g.job], job'[g.job], s)
      BY <3>1, RequeuedRow, ClearedRow
    <3>3. job'[g.job].state \notin {"leased", "cancelled"} BY <3>2 DEF EndsAs
    <3> QED BY <1>0, <2>4, <3>1, <3>3, FailMoves, FinalRows DEF Goal
  <2>5. ASSUME NEW g \in grants, NEW t \in Nat, NEW expires \in Nat, CreateCheckpoint(g, expires, t)
        PROVE  Goal
    <3>1. /\ RequireActiveLease(g, t) /\ RecordEffect(g, "checkpoint", t) /\ fence' = fence /\ now' = now
          /\ g.job \in JobIds /\ job[g.job] \in JobRecord
          /\ job'[g.job] = SucceededJob(job[g.job], "checkpoint")
          /\ \A k \in JobIds \ {g.job} : job'[k] = job[k]
      BY <1>0, <2>5, GrantFields DEF CreateCheckpoint, TypeOK
    <3>2. job'[g.job].state \notin {"leased", "cancelled"} BY <3>1, SucceededRow DEF EndsAs
    <3> QED BY <1>0, <2>5, <3>1, <3>2, CheckpointMoves, FinalRows DEF Goal
  <2> QED BY <1>3, <2>1, <2>2, <2>3, <2>4, <2>5 DEF WorkerCases
<1>4. CASE ApprovalCases
  <2>1. ASSUME NEW c \in JobIds, NEW t \in Nat, NEW p \in Principals, NEW approve \in BOOLEAN,
               DecideApproval(p, c, approve, t)
        PROVE  Goal
    BY <1>1, <2>1 DEF DecideApproval
  <2>2. ASSUME NEW c \in JobIds, NEW t \in Nat, ResumeTooLate(c, t) PROVE Goal
    BY <1>1, <2>2 DEF ResumeTooLate
  <2>3. ASSUME NEW c \in JobIds, NEW t \in Nat, NEW j \in JobIds, ResumeCheckpoint(c, j, t)
        PROVE  Goal
    <3>1. effects' = effects /\ fence' = fence /\ now' = now BY <2>3 DEF ResumeCheckpoint
    <3> QED BY <1>0, <2>3, <3>1, ResumeMoves, CreatedRows DEF Goal
  <2> QED BY <1>4, <2>1, <2>2, <2>3 DEF ApprovalCases
<1>5. CASE Tick BY <1>1, <1>5 DEF Tick
<1>6. CASE \E r \in Runs : CancelRun(r) BY <1>6, CancelledRows DEF Goal
<1>7. CASE \E readAt \in Nat : ExpireDueApprovals(readAt) BY <1>1, <1>7 DEF ExpireDueApprovals
<1>8. ASSUME NEW r \in Runs, NEW j \in JobIds, NEW m \in Nat \ {0}, NEW t \in Nat \ {0},
             SubmitRun(r, j, m, t)
      PROVE  Goal
  <2>1. effects' = effects /\ fence' = fence /\ now' = now BY <1>8 DEF SubmitRun
  <2> QED BY <1>0, <1>8, <2>1, SubmitMoves, CreatedRows DEF Goal
<1>9. ASSUME NEW S \in LeasedBatches, NEW t \in Nat, \A j \in S : RanOut(j), ExpireLeases(S, t)
      PROVE  Goal
  BY <1>9, SweptRows DEF Goal
<1>10. CASE \E w \in Workers, j \in JobIds, n \in Nat \ {0}, t \in Nat \ {0} : ClaimJob(w, j, n, t)
  BY <1>10, ClaimedRows DEF Goal
<1> QED BY <1>2, <1>3, <1>4, <1>5, <1>6, <1>7, <1>8, <1>9, <1>10 DEF Step, StepCases

(* cancel_run fences the lease it takes from a Worker and no other: a fence   *)
(* names the newest lease of a cancelled Job, under which nothing was         *)
(* finalized, and a lease that ended neither by an effect nor by time has     *)
(* its fence.                                                                 *)
THEOREM CancellationFences == Spec => []CutOffLeaseIsFenced
<1>1. Init => CutOffInv
  <2> SUFFICES ASSUME Init PROVE CutOffInv
    OBVIOUS
  <2>1. grants = {} /\ \A j \in JobIds : fence[j] = 0 BY DEF Init
  <2>2. \A j \in JobIds : CutOffRow(j) BY <2>1 DEF CutOffRow, FenceRow, GrantsOf
  <2> QED BY <2>2, EffectsInitially DEF CutOffInv
<1>2. CutOffInv /\ [Next]_vars => CutOffInv'
  BY StepCutOff, NextIsStep DEF CutOffInv, EffectInv, TriggerInv, LeaseInv
<1>3. CutOffInv => CutOffLeaseIsFenced
  <2> SUFFICES ASSUME CutOffInv PROVE CutOffLeaseIsFenced
    OBVIOUS
  <2>1. \A j \in JobIds : FenceRow(j) BY DEF CutOffInv, CutOffRow
  <2>2. ASSUME NEW g \in grants PROVE NewestRow(g)
    <3>1. g.job \in JobIds BY DEF CutOffInv, EffectInv, TriggerInv, LeaseInv, TypeOK, Grant
    <3> QED BY <3>1 DEF CutOffInv, CutOffRow, GrantsOf
  <2> QED BY <2>1, <2>2 DEF CutOffLeaseIsFenced, FenceRow, NewestRow, Lapsed
<1> QED BY <1>1, <1>2, <1>3, PTL DEF Spec
=============================================================================
