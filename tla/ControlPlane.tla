---------------------------- MODULE ControlPlane ----------------------------
(***************************************************************************)
(* The durable Control Plane for ordinary (generic) Jobs: Runs, Jobs,      *)
(* leases, approval checkpoints, cancellation and the expiry sweeps.       *)
(*                                                                         *)
(* Every action is one database transaction of service.py,                 *)
(* claim_service.py or lifecycle_service.py.  Transactions are             *)
(* serialisable (database.py: BEGIN IMMEDIATE on SQLite, row locks in a    *)
(* fixed order on PostgreSQL), so a transaction is one step.  claim_job    *)
(* and requeue_expired are two transactions each, and so two actions: the  *)
(* second may never run (the process dies), and a time read before the     *)
(* first may be stale when it is used, so it is any earlier clock value.   *)
(*                                                                         *)
(* A Worker call may be lost, delayed, duplicated or reordered: the grants *)
(* a claim hands out are remembered, and any grant may be used at any      *)
(* later time any number of times.                                         *)
(***************************************************************************)
EXTENDS Integers, FiniteSets

CONSTANTS
  Runs,           \* submission keys; a key names at most one Run
  MaxJobs,        \* bound: Job rows that may be created
  Principals,     \* authenticated callers: Workers, approvers, operators
  Workers,        \* the principals with the Worker role
  None,           \* SQL NULL for a principal
  Results,        \* values an executor may return
  MaxAttempts,    \* largest max_attempts a submission may ask for
  LeaseSeconds,   \* lease_seconds values a Worker may request
  MaxLease,       \* MAX_JOB_LEASE_LIFETIME_SECONDS
  EventInterval,  \* MIN_JOB_HEARTBEAT_EVENT_INTERVAL_SECONDS
  Skew,           \* how far a server clock may lag the fastest one
  MaxTime,        \* bound: last value of the clock
  Horizon,        \* bound: no lease is granted that could outlive this time
  SkipLocked      \* TRUE for PostgreSQL (SKIP LOCKED), FALSE for SQLite

ASSUME ControlPlaneAssumption ==
  /\ MaxJobs \in Nat /\ MaxAttempts \in 1..20   \* SubmitRunRequest: 1 <= max_attempts <= 20
  /\ MaxLease \in Nat \ {0} /\ EventInterval \in Nat \ {0}
  /\ Skew \in Nat /\ MaxTime \in Nat /\ Horizon \in Nat
  /\ LeaseSeconds \subseteq Nat \ {0}
  /\ Workers \subseteq Principals /\ None \notin Principals
  /\ SkipLocked \in BOOLEAN
  /\ Results \cap {"none", "checkpoint"} = {}

VARIABLES
  now,        \* the fastest server clock; 0 is NULL, so it starts at 1
  run,        \* cp_runs by submission key
  job,        \* cp_jobs by creation order
  ckpt,       \* cp_checkpoints and its cp_approvals row, by the Job that made it
  fence,      \* job.stop-fenced event of a Job: the fenced lease token, or 0
  grants,     \* history: every lease ever handed out
  effects,    \* history: every Worker finalization that changed the database
  acked       \* history: every completion answered with success

vars == <<now, run, job, ckpt, fence, grants, effects, acked>>

JobIds == 1..MaxJobs

RunStates == {"queued", "running", "awaiting-approval", "completed", "failed", "cancelled"}
JobStates == {"queued", "leased", "succeeded", "failed", "dead-letter", "cancelled"}
ApprovalStates == {"pending", "approved", "denied", "consumed", "expired", "revoked"}
CancellableRunStates == {"queued", "running", "awaiting-approval"}
RevocableApprovalStates == {"pending", "approved"}

RunRecord == [state : RunStates \cup {"absent"}, ckpt : JobIds \cup {0}]

(* event is heartbeat_event_at, the renewal last written to the event log;   *)
(* resumes is the checkpoint named by the payload's resumeFromCheckpointId.  *)
JobRecord == [state : JobStates \cup {"absent"}, run : Runs \cup {None},
              attempts : Nat, max : Nat, owner : Workers \cup {None}, token : Nat,
              expires : Nat, deadline : Nat, heartbeat : Nat, event : Nat, available : Nat,
              result : Results \cup {"none", "checkpoint"}, resumes : JobIds \cup {0}]

CheckpointRecord == [state : ApprovalStates \cup {"absent"}, run : Runs \cup {None},
                     expires : Nat,
                     requestedBy : Workers \cup {None}, decidedBy : Principals \cup {None},
                     decidedAt : Nat, consumedAt : Nat, continuation : JobIds \cup {0}]

NoJob == [state |-> "absent", run |-> None, attempts |-> 0, max |-> 0, owner |-> None,
          token |-> 0, expires |-> 0, deadline |-> 0, heartbeat |-> 0, event |-> 0,
          available |-> 0, result |-> "none", resumes |-> 0]

NoCheckpoint == [state |-> "absent", run |-> None, expires |-> 0,
                 requestedBy |-> None, decidedBy |-> None, decidedAt |-> 0,
                 consumedAt |-> 0, continuation |-> 0]

Grant == [job : JobIds, token : Nat, worker : Workers, at : Nat]
Effect == [job : JobIds, token : Nat, kind : {"complete", "fail", "checkpoint"}, at : Nat]
Ack == [job : JobIds, token : Nat, result : Results]

Least(a, b) == IF a <= b THEN a ELSE b
Greatest(a, b) == IF a >= b THEN a ELSE b

(* A value utc_now() may return on one of the API servers. *)
ClockReadings == {t \in 1..now : t + Skew >= now}

Active(j) == job[j].state \in {"queued", "leased"}
JobsOf(r) == {j \in JobIds : job[j].run = r}

(* uuid4 names a new row; rows are numbered in creation order. *)
IsFreshJob(j) == /\ job[j].state = "absent"
                 /\ \A k \in JobIds : k < j => job[k].state # "absent"

(* secrets.token_urlsafe: a token this Job was never leased under, named by *)
(* the number of the claim that drew it.                                    *)
FreshToken(j) == job[j].attempts + 1

(* Every column holds a value of its type (database_schema.py): in particular *)
(* every state a transaction writes is one the schema knows.                  *)
TypeOK ==
  /\ now \in Nat \ {0}
  /\ run \in [Runs -> RunRecord]
  /\ job \in [JobIds -> JobRecord]
  /\ ckpt \in [JobIds -> CheckpointRecord]
  /\ fence \in [JobIds -> Nat]
  /\ grants \subseteq Grant
  /\ effects \subseteq Effect
  /\ acked \subseteq Ack

Init ==
  /\ now = 1
  /\ run = [r \in Runs |-> [state |-> "absent", ckpt |-> 0]]
  /\ job = [j \in JobIds |-> NoJob]
  /\ ckpt = [c \in JobIds |-> NoCheckpoint]
  /\ fence = [j \in JobIds |-> 0]
  /\ grants = {}
  /\ effects = {}
  /\ acked = {}

-----------------------------------------------------------------------------
(* Lease checks shared by the Worker calls. *)

(* Mutant: the owner's name is checked and the token is not. *)
OwnerNameSuffices(g) == job[g.job].owner = g.worker

RequireLeaseIdentity(g) == job[g.job].owner = g.worker /\ job[g.job].token = g.token

(* Mutant: a lease that has run out counts until a sweep takes it back. *)
LeaseRowSuffices(g, t) == RequireLeaseIdentity(g) /\ job[g.job].state = "leased"

RequireActiveLease(g, t) ==
  LET j == job[g.job] IN
  /\ RequireLeaseIdentity(g)
  /\ j.state = "leased"
  /\ t < j.expires /\ t < j.deadline /\ j.expires <= j.deadline

(* A transaction writes the state column of one Run. *)
WithRunState(r, s) == [run EXCEPT ![r].state = s]

RunOf(g) == run[job[g.job].run]

ClearedLease(j) == [j EXCEPT !.owner = None, !.token = 0, !.expires = 0,
                             !.deadline = 0, !.heartbeat = 0, !.event = 0]
RequeuedJob(j, t) == [ClearedLease(j) EXCEPT !.state = "queued", !.available = t]
CancelledJob(j) == [ClearedLease(j) EXCEPT !.state = "cancelled"]

-----------------------------------------------------------------------------
Tick ==
  /\ now < MaxTime
  /\ now' = now + 1
  /\ UNCHANGED <<run, job, ckpt, fence, grants, effects, acked>>

(* submit_run: a repeated submission key returns the existing Run. *)
SubmitRun(r, j, m, t) ==
  /\ run[r].state = "absent"
  /\ IsFreshJob(j)
  /\ run' = [run EXCEPT ![r] = [state |-> "queued", ckpt |-> 0]]
  /\ job' = [job EXCEPT ![j] = [NoJob EXCEPT !.state = "queued", !.run = r, !.max = m,
                                             !.available = t]]
  /\ UNCHANGED <<now, ckpt, fence, grants, effects, acked>>
-----------------------------------------------------------------------------
(* The lease sweep: the first transaction of claim_job, the second of       *)
(* requeue_expired.                                                         *)


ExpirableJobs(t) ==
  {j \in JobIds : job[j].state = "leased" /\ (job[j].expires <= t \/ job[j].deadline <= t)}

(* SKIP LOCKED leaves out the rows some other transaction holds. *)
SweepBatches(t) == IF SkipLocked THEN SUBSET ExpirableJobs(t) ELSE {ExpirableJobs(t)}

(* One StateConflict in the batch rolls the whole sweep back. *)
SweepCommits(S) ==
  /\ \A j \in S : run[job[j].run].state \in {"running", "cancelled"}
  /\ \A j, k \in S : j # k /\ job[j].run = job[k].run => run[job[j].run].state = "cancelled"

SweptJob(j, t) ==
  IF run[job[j].run].state = "cancelled"
  THEN CancelledJob(job[j])
  ELSE IF job[j].attempts < job[j].max
       THEN RequeuedJob(job[j], t)
       ELSE [ClearedLease(job[j]) EXCEPT !.state = "dead-letter"]

(* Mutant: dead-lettering the Job leaves its Run running. *)
SweptRunStateRequeueOnly(r, S) ==
  IF run[r].state = "running" /\ \E j \in S \cap JobsOf(r) : job[j].attempts < job[j].max
  THEN "queued" ELSE run[r].state

SweptRunState(r, S) ==
  IF run[r].state # "running" \/ S \cap JobsOf(r) = {} THEN run[r].state
  ELSE IF \E j \in S \cap JobsOf(r) : job[j].attempts < job[j].max THEN "queued" ELSE "failed"

ExpireLeases(S, t) ==
  /\ S # {}
  /\ SweepCommits(S)
  /\ job' = [j \in JobIds |-> IF j \in S THEN SweptJob(j, t) ELSE job[j]]
  /\ run' = [r \in Runs |-> [run[r] EXCEPT !.state = SweptRunState(r, S)]]
  /\ fence' = [j \in JobIds |-> IF j \in S /\ run[job[j].run].state = "cancelled"
                                THEN job[j].token ELSE fence[j]]
  /\ UNCHANGED <<now, ckpt, grants, effects, acked>>

-----------------------------------------------------------------------------
(* The second transaction of claim_job. *)

ClaimableJobs(t) == {j \in JobIds : job[j].state = "queued" /\ job[j].available <= t}

(* order_by(priority desc, created_at, job_id): continuations have priority 10. *)
ClaimsBefore(j, k) ==
  \/ job[j].resumes # 0 /\ job[k].resumes = 0
  \/ (job[j].resumes # 0) = (job[k].resumes # 0) /\ j < k

ClaimSelects(j, t) ==
  /\ j \in ClaimableJobs(t)
  /\ SkipLocked \/ \A k \in ClaimableJobs(t) : ~ClaimsBefore(k, j)

(* A claim granted at t is over by t + MaxLease, and Horizon bounds the last *)
(* claim: with Horizon = MaxTime every lease ends before the clock does.  A  *)
(* queued Job of a cancelled Run is cancelled here instead of leased.        *)
ClaimJob(w, j, seconds, t) ==
  LET r == job[j].run
      k == FreshToken(j)
      cancelled == run[r].state = "cancelled"
      leased == [job[j] EXCEPT !.state = "leased", !.owner = w, !.token = k,
                               !.expires = Least(t + seconds, t + MaxLease),
                               !.deadline = t + MaxLease, !.heartbeat = t,
                               !.event = 0, !.attempts = job[j].attempts + 1]
  IN /\ \E claimTime \in 1..t : ClaimSelects(j, claimTime)
     /\ t + MaxLease <= Horizon
     /\ run[r].state \in {"queued", "cancelled"}
     /\ job' = [job EXCEPT ![j] = IF cancelled THEN CancelledJob(job[j]) ELSE leased]
     /\ run' = IF cancelled THEN run ELSE WithRunState(r, "running")
     /\ grants' = IF cancelled THEN grants
                  ELSE grants \cup {[job |-> j, token |-> k, worker |-> w, at |-> t]}
     /\ UNCHANGED <<now, ckpt, fence, effects, acked>>

-----------------------------------------------------------------------------
(* The Worker's calls under a lease. *)

(* _heartbeat_event_is_due: not every renewal is written to the event log. *)
HeartbeatEventAt(j, t) == IF j.event = 0 \/ j.event + EventInterval <= t THEN t ELSE j.event

RenewedJob(j, seconds, t) ==
  [j EXCEPT !.heartbeat = t, !.event = HeartbeatEventAt(j, t),
            !.expires = Least(t + seconds, j.deadline)]

(* Mutant: the renewal trusts this server's clock. *)
HeartbeatByLocalClock(g, seconds, t) ==
  /\ RunOf(g).state = "running"
  /\ RequireActiveLease(g, t)
  /\ job' = [job EXCEPT ![g.job] = RenewedJob(@, seconds, t)]
  /\ UNCHANGED <<now, run, ckpt, fence, grants, effects, acked>>

(* The clock never runs backwards across the renewals of one lease. *)
Heartbeat(g, seconds, t) ==
  LET renewed == Greatest(t, job[g.job].heartbeat)
  IN /\ RunOf(g).state = "running"
     /\ RequireActiveLease(g, renewed)
     /\ job' = [job EXCEPT ![g.job] = RenewedJob(@, seconds, renewed)]
     /\ UNCHANGED <<now, run, ckpt, fence, grants, effects, acked>>

(* A succeeded Job keeps its owner, token and last heartbeat. *)
SucceededJob(j, result) ==
  [j EXCEPT !.state = "succeeded", !.result = result, !.expires = 0, !.deadline = 0,
            !.event = 0]

RecordEffect(g, kind, t) ==
  effects' = effects \cup {[job |-> g.job, token |-> g.token, kind |-> kind, at |-> t]}

(* The response reaches the Worker, or is lost after the commit. *)
Answer(g, result, delivered) ==
  acked' = IF delivered
           THEN acked \cup {[job |-> g.job, token |-> g.token, result |-> result]}
           ELSE acked

CompleteJob(g, result, delivered, t) ==
  /\ RunOf(g).state = "running"
  /\ RequireActiveLease(g, t)
  /\ job' = [job EXCEPT ![g.job] = SucceededJob(@, result)]
  /\ run' = WithRunState(job[g.job].run, "completed")
  /\ RecordEffect(g, "complete", t)
  /\ Answer(g, result, delivered)
  /\ UNCHANGED <<now, ckpt, fence, grants>>

(* Mutant: any repeated completion is answered with success. *)
CompletionRetryUnchecked(g, result) ==
  /\ RequireLeaseIdentity(g)
  /\ job[g.job].state = "succeeded"
  /\ Answer(g, result, TRUE)
  /\ UNCHANGED <<now, run, job, ckpt, fence, grants, effects>>

(* A repeated completion succeeds only with the persisted result. *)
CompletionRetry(g, result) ==
  /\ RunOf(g).state # "cancelled"
  /\ RequireLeaseIdentity(g)
  /\ job[g.job].state = "succeeded"
  /\ job[g.job].result = result
  /\ Answer(g, result, TRUE)
  /\ UNCHANGED <<now, run, job, ckpt, fence, grants, effects>>

(* Mutant: the Job is requeued and its Run is left running. *)
FailJobKeepsRun(g, retryable, t) ==
  /\ RunOf(g).state = "running"
  /\ RequireActiveLease(g, t)
  /\ job' = [job EXCEPT ![g.job] = RequeuedJob(@, t)]
  /\ RecordEffect(g, "fail", t)
  /\ UNCHANGED <<now, run, ckpt, fence, grants, acked>>

FailJob(g, retryable, t) ==
  LET j == job[g.job]
      exhausted == j.attempts >= j.max
      requeue == retryable /\ ~exhausted
      ended == [ClearedLease(j) EXCEPT !.state = IF exhausted THEN "dead-letter" ELSE "failed"]
  IN /\ RunOf(g).state = "running"
     /\ RequireActiveLease(g, t)
     /\ job' = [job EXCEPT ![g.job] = IF requeue THEN RequeuedJob(j, t) ELSE ended]
     /\ run' = WithRunState(j.run, IF requeue THEN "queued" ELSE "failed")
     /\ RecordEffect(g, "fail", t)
     /\ UNCHANGED <<now, ckpt, fence, grants, acked>>

(* Mutant: the checkpoint does not end the Job that made it. *)
CheckpointKeepsLease(g, expires, t) ==
  LET r == job[g.job].run
  IN /\ run[r].state = "running"
     /\ t < expires
     /\ RequireActiveLease(g, t)
     /\ ckpt' = [ckpt EXCEPT ![g.job] = [NoCheckpoint EXCEPT !.state = "pending", !.run = r,
                                            !.expires = expires, !.requestedBy = g.worker]]
     /\ run' = [run EXCEPT ![r] = [state |-> "awaiting-approval", ckpt |-> g.job]]
     /\ RecordEffect(g, "checkpoint", t)
     /\ UNCHANGED <<now, job, fence, grants, acked>>

(* The checkpoint, its pending approval and the end of the Job in one step. *)
CreateCheckpoint(g, expires, t) ==
  LET r == job[g.job].run
  IN /\ run[r].state = "running"
     /\ t < expires
     /\ RequireActiveLease(g, t)
     /\ ckpt' = [ckpt EXCEPT ![g.job] = [NoCheckpoint EXCEPT !.state = "pending", !.run = r,
                                            !.expires = expires, !.requestedBy = g.worker]]
     /\ job' = [job EXCEPT ![g.job] = SucceededJob(@, "checkpoint")]
     /\ run' = [run EXCEPT ![r] = [state |-> "awaiting-approval", ckpt |-> g.job]]
     /\ RecordEffect(g, "checkpoint", t)
     /\ UNCHANGED <<now, fence, grants, acked>>

-----------------------------------------------------------------------------
(* Approval decision, resume and expiry. *)

AwaitsApproval(c) ==
  run[ckpt[c].run].state = "awaiting-approval" /\ run[ckpt[c].run].ckpt = c

(* expire_approval on every member of S; each cancels its Run. *)
ExpireApprovals(S) ==
  /\ ckpt' = [c \in JobIds |-> IF c \in S THEN [ckpt[c] EXCEPT !.state = "expired"] ELSE ckpt[c]]
  /\ run' = [r \in Runs |-> IF \E c \in S : ckpt[c].run = r
                            THEN [run[r] EXCEPT !.state = "cancelled"] ELSE run[r]]

DecideApproval(p, c, approve, t) ==
  /\ ckpt[c].state = "pending"
  /\ AwaitsApproval(c)
  /\ ckpt[c].requestedBy # p
  /\ IF ckpt[c].expires <= t
     THEN ExpireApprovals({c})
     ELSE /\ ckpt' = [ckpt EXCEPT ![c].state = IF approve THEN "approved" ELSE "denied",
                                  ![c].decidedBy = p, ![c].decidedAt = t]
          /\ run' = IF approve THEN run
                    ELSE WithRunState(ckpt[c].run, "cancelled")
  /\ UNCHANGED <<now, job, fence, grants, effects, acked>>

(* claimed_at is set exactly when continuation_job_id is. *)
MayResume(c) ==
  /\ ckpt[c].continuation = 0
  /\ ckpt[c].state = "approved"
  /\ AwaitsApproval(c)

(* Mutant: the approval's expiry is not read again when it is consumed. *)
ResumeWithoutExpiryCheck(c, j, t) ==
  /\ MayResume(c)
  /\ IsFreshJob(j)
  /\ job' = [job EXCEPT ![j] = [NoJob EXCEPT !.state = "queued", !.run = ckpt[c].run,
                                  !.max = job[c].max, !.available = t, !.resumes = c]]
  /\ ckpt' = [ckpt EXCEPT ![c].state = "consumed", ![c].consumedAt = t, ![c].continuation = j]
  /\ run' = [run EXCEPT ![ckpt[c].run] = [state |-> "queued", ckpt |-> 0]]
  /\ UNCHANGED <<now, fence, grants, effects, acked>>

ResumeCheckpoint(c, j, t) ==
  LET r == ckpt[c].run
  IN /\ MayResume(c)
     /\ t < ckpt[c].expires
     /\ IsFreshJob(j)
     /\ job' = [job EXCEPT ![j] = [NoJob EXCEPT !.state = "queued", !.run = r,
                                     !.max = job[c].max, !.available = t, !.resumes = c]]
     /\ ckpt' = [ckpt EXCEPT ![c].state = "consumed", ![c].consumedAt = t,
                             ![c].continuation = j]
     /\ run' = [run EXCEPT ![r] = [state |-> "queued", ckpt |-> 0]]
     /\ UNCHANGED <<now, fence, grants, effects, acked>>

(* The other branch of resume_checkpoint: the expiry is committed. *)
ResumeTooLate(c, t) ==
  /\ MayResume(c)
  /\ ckpt[c].expires <= t
  /\ ExpireApprovals({c})
  /\ UNCHANGED <<now, job, fence, grants, effects, acked>>

-----------------------------------------------------------------------------
(* Cancellation and maintenance. *)

(* Mutant: approvals are not revoked. *)
CancelLeavesApprovals(r) ==
  LET Cancels(j) == job[j].run = r /\ Active(j)
  IN /\ run[r].state \in CancellableRunStates
     /\ fence' = [j \in JobIds |-> IF Cancels(j) /\ job[j].state = "leased"
                                   THEN job[j].token ELSE fence[j]]
     /\ job' = [j \in JobIds |-> IF Cancels(j)
                                 THEN CancelledJob(job[j])
                                 ELSE job[j]]
     /\ run' = WithRunState(r, "cancelled")
     /\ UNCHANGED <<now, ckpt, grants, effects, acked>>

(* Mutant: the fence is computed after the lease columns are cleared. *)
CancelClearsThenFences(r) ==
  /\ run[r].state \in CancellableRunStates
  /\ job' = [j \in JobIds |-> IF job[j].run = r /\ Active(j)
                              THEN CancelledJob(job[j])
                              ELSE job[j]]
  /\ fence' = [j \in JobIds |-> IF job[j].run = r /\ job[j].state = "leased"
                                THEN job'[j].token ELSE fence[j]]
  /\ run' = WithRunState(r, "cancelled")
  /\ UNCHANGED <<now, ckpt, grants, effects, acked>>

(* Every queued or leased Job of the Run, every open approval, and the Run.  *)
(* A leased Job is fenced before its lease is erased.                        *)
CancelRun(r) ==
  LET Cancels(j) == job[j].run = r /\ Active(j)
      Revokes(c) == ckpt[c].run = r /\ ckpt[c].state \in RevocableApprovalStates
  IN /\ run[r].state \in CancellableRunStates
     /\ fence' = [j \in JobIds |-> IF Cancels(j) /\ job[j].state = "leased"
                                   THEN job[j].token ELSE fence[j]]
     /\ job' = [j \in JobIds |-> IF Cancels(j)
                                 THEN CancelledJob(job[j])
                                 ELSE job[j]]
     /\ ckpt' = [c \in JobIds |-> IF Revokes(c) THEN [ckpt[c] EXCEPT !.state = "revoked"]
                                  ELSE ckpt[c]]
     /\ run' = WithRunState(r, "cancelled")
     /\ UNCHANGED <<now, grants, effects, acked>>

DueApprovals(t) ==
  {c \in JobIds : ckpt[c].state \in RevocableApprovalStates /\ ckpt[c].expires <= t}

(* One approval that is not the current one of a waiting Run, or a second     *)
(* approval of the same Run, rolls the whole transaction back.               *)
ApprovalSweepCommits(S) ==
  /\ \A c \in S : AwaitsApproval(c)
  /\ \A c, d \in S : ckpt[c].run = ckpt[d].run => c = d

(* requeue_expired, first transaction: now was read before it began. *)
ExpireDueApprovals(readAt) ==
  /\ DueApprovals(readAt) # {}
  /\ ApprovalSweepCommits(DueApprovals(readAt))
  /\ ExpireApprovals(DueApprovals(readAt))
  /\ UNCHANGED <<now, job, fence, grants, effects, acked>>

-----------------------------------------------------------------------------
Submit(t) == \E r \in Runs, j \in JobIds, m \in 1..MaxAttempts : SubmitRun(r, j, m, t)

SweepLeases(t) == \E readAt \in 1..now : \E S \in SweepBatches(readAt) : ExpireLeases(S, t)

Claim(t) ==
  \E w \in Workers, j \in JobIds, seconds \in LeaseSeconds : ClaimJob(w, j, seconds, t)

WorkerCall(g, t) ==
  \/ \E seconds \in LeaseSeconds : Heartbeat(g, seconds, t)
  \/ \E result \in Results, delivered \in BOOLEAN : CompleteJob(g, result, delivered, t)
  \/ \E result \in Results : CompletionRetry(g, result)
  \/ \E retryable \in BOOLEAN : FailJob(g, retryable, t)
  \/ \E expires \in 1..MaxTime : CreateCheckpoint(g, expires, t)

ApprovalCall(c, t) ==
  \/ \E p \in Principals, approve \in BOOLEAN : DecideApproval(p, c, approve, t)
  \/ \E j \in JobIds : ResumeCheckpoint(c, j, t)
  \/ ResumeTooLate(c, t)

Next ==
  \/ Tick
  \/ \E r \in Runs : CancelRun(r)
  \/ \E readAt \in 1..now : ExpireDueApprovals(readAt)
  \/ \E t \in ClockReadings :
       \/ Submit(t)
       \/ SweepLeases(t)
       \/ Claim(t)
       \/ \E g \in grants : WorkerCall(g, t)
       \/ \E c \in JobIds : ApprovalCall(c, t)

Spec == Init /\ [][Next]_vars

-----------------------------------------------------------------------------
(* The row triggers of the database: an update they reject raises in the     *)
(* middle of a transaction the service believed to be legal.                 *)

TriggerAdmitsRun(old, new) ==
  \/ new = old
  \/ old.state = "absent" /\ new.state = "queued"
  \/ old.state = "queued" /\ new.state \in {"queued", "running", "cancelled"}
  \/ old.state = "running" /\ new.state \in RunStates
  \/ old.state = "awaiting-approval" /\ new.state \in {"awaiting-approval", "queued", "cancelled"}

TriggerAdmitsLease(j) ==
  /\ j.max >= 1 /\ j.max <= 20 /\ j.attempts <= j.max
  /\ j.state = "leased" =>
       /\ j.owner # None /\ j.token # 0 /\ j.expires # 0 /\ j.deadline # 0 /\ j.heartbeat # 0
       /\ j.expires <= j.deadline /\ j.heartbeat <= j.deadline
       /\ j.deadline <= j.heartbeat + MaxLease
       /\ j.event <= j.heartbeat   \* an event time of 0 is NULL
  /\ j.state # "leased" => j.deadline = 0 /\ j.event = 0

TriggerAdmitsJobUpdate(old, new) ==
  /\ \/ new.state = old.state /\ old.state \in {"queued", "leased"}
     \/ old.state = "queued" /\ new.state \in {"leased", "cancelled"}
     \/ old.state = "leased" /\ new.state \in JobStates
  /\ new.attempts = IF old.state = "queued" /\ new.state = "leased"
                    THEN old.attempts + 1 ELSE old.attempts
  /\ old.state = "leased" /\ new.state = "leased" =>
       /\ new.deadline <= old.deadline
       /\ new.owner = old.owner /\ new.token = old.token
  /\ new.run = old.run /\ new.max = old.max /\ new.resumes = old.resumes

TriggerAdmitsJob(old, new) ==
  \/ new = old
  \/ /\ TriggerAdmitsLease(new)
     /\ IF old.state = "absent" THEN new.state # "leased" ELSE TriggerAdmitsJobUpdate(old, new)

-----------------------------------------------------------------------------
(* Safety. *)

(* A Run and its rows tell the same story whatever transactions interleave:  *)
(* it has at most one queued or leased Job, and none unless it is queued or  *)
(* running.  claim_job, complete_job, fail_job and the sweeps each check     *)
(* only one of the two rows before they write both.                          *)
JobMatchesRun ==
  /\ \A j, k \in JobIds : Active(j) /\ Active(k) /\ job[j].run = job[k].run => j = k
  /\ \A j \in JobIds : job[j].state = "queued" => run[job[j].run].state = "queued"
  /\ \A j \in JobIds : job[j].state = "leased" => run[job[j].run].state = "running"

(* No Run is stranded: a queued Run has a Job to claim, a running one a Job   *)
(* whose lease can expire, a waiting one an approval that can be decided.     *)
NoRunStranded ==
  \A r \in Runs :
    /\ run[r].state = "queued" => \E j \in JobsOf(r) : job[j].state = "queued"
    /\ run[r].state = "running" => \E j \in JobsOf(r) : job[j].state = "leased"
    /\ run[r].state = "awaiting-approval" =>
         \E c \in JobIds : /\ run[r].ckpt = c /\ ckpt[c].run = r
                           /\ ckpt[c].state \in RevocableApprovalStates
                           /\ ckpt[c].continuation = 0

(* An approval is open only while its Run waits on exactly that checkpoint:   *)
(* cancelling, denying, expiring or resuming leaves no approval behind that   *)
(* could authorise a continuation later.                                     *)
OpenApprovalIsCurrent ==
  \A c \in JobIds : ckpt[c].state \in RevocableApprovalStates => AwaitsApproval(c)

(* Every row names its Run, and a checkpoint the succeeded Job that made it:  *)
(* the foreign keys of the schema.                                           *)
RowsBelong ==
  /\ \A j \in JobIds : job[j].state # "absent" => job[j].run \in Runs
  /\ \A c \in JobIds : ckpt[c].state # "absent" =>
       ckpt[c].run = job[c].run /\ job[c].state = "succeeded" /\ job[c].result = "checkpoint"

(* Neither sweep ever meets the StateConflict that would roll back the whole  *)
(* batch, so that one inconsistent row can never stop all expiry.            *)
SweepsNeverConflict ==
  /\ \A S \in SUBSET ExpirableJobs(now) : SweepCommits(S)
  /\ ApprovalSweepCommits(DueApprovals(now))

(* A continuation exists only by a resume of its checkpoint, decided by       *)
(* someone other than the requester and both decided and consumed before the  *)
(* intent expired; it is the only one of that checkpoint.                     *)
ContinuationAuthorised ==
  \A j \in JobIds : job[j].resumes # 0 =>
    LET c == job[j].resumes IN
    /\ ckpt[c].state = "consumed" /\ ckpt[c].continuation = j
    /\ ckpt[c].run = job[j].run /\ job[c].result = "checkpoint"
    /\ ckpt[c].decidedBy \notin {None, ckpt[c].requestedBy}
    /\ ckpt[c].decidedAt < ckpt[c].expires /\ ckpt[c].consumedAt < ckpt[c].expires
    /\ job[j].max = job[c].max

(* A lease changes the database at most once, before its hard deadline, no    *)
(* matter how it was renewed or how often the finalization was repeated; it   *)
(* is charged to one attempt, and a queued Job has an attempt left, so that   *)
(* claim_job can take it.                                                     *)
OneTimelyEffectPerLease ==
  /\ \A e, f \in effects : e.job = f.job /\ e.token = f.token => e = f
  /\ \A e \in effects : \E g \in grants :
       g.job = e.job /\ g.token = e.token /\ e.at < g.at + MaxLease
  /\ \A j \in JobIds :
       /\ Cardinality({g \in grants : g.job = j}) = job[j].attempts
       /\ job[j].attempts <= job[j].max
       /\ job[j].state = "queued" => job[j].attempts < job[j].max

(* A completion the Worker saw succeed is in the database with that result,   *)
(* also when the answer was to a retry after a lost response.                 *)
AckedIsPersisted ==
  \A a \in acked : /\ job[a.job].state = "succeeded" /\ job[a.job].result = a.result
                   /\ run[job[a.job].run].state = "completed"

(* Only the newest lease of a Run finalizes: a delayed or repeated call under *)
(* a lease that expired and was claimed again never changes the database,     *)
(* even when the same Worker holds both.                                      *)
NoStaleEffect ==
  [][\A e \in effects' \ effects, g \in grants :
       job[g.job].run = job[e.job].run =>
         g.job < e.job \/ (g.job = e.job /\ g.token <= e.token)]_vars

(* A cancellation fences exactly the lease it cuts off.  A fence names the    *)
(* newest lease of a cancelled Job, and nothing was finalized under it; and   *)
(* the newest lease of a cancelled Job that was neither finalized nor is old  *)
(* enough to have been swept has its fence, although the cancelling           *)
(* transaction erases the lease the fence is computed from.                   *)
CutOffLeaseIsFenced ==
  /\ \A j \in JobIds : fence[j] # 0 =>
       /\ job[j].state = "cancelled" /\ fence[j] = job[j].attempts
       /\ \A e \in effects : e.job = j => e.token # fence[j]
  /\ \A g \in grants : job[g.job].state = "cancelled" /\ g.token = job[g.job].attempts =>
       \/ fence[g.job] = g.token
       \/ \E e \in effects : e.job = g.job /\ e.token = g.token
       \/ g.at < now

(* No transaction of the service writes a row the database triggers reject,   *)
(* clock skew between servers included; terminal Runs and Jobs never change.  *)
ServiceObeysTriggers ==
  [][/\ \A r \in Runs : TriggerAdmitsRun(run[r], run'[r])
     /\ \A j \in JobIds : TriggerAdmitsJob(job[j], job'[j])]_vars

-----------------------------------------------------------------------------
(* Liveness.  Clocks advance, and a Worker's claim poll sweeps with a current *)
(* clock: run_forever polls without end.  Nothing is assumed of operators,    *)
(* approvers, or the Worker that holds a lease.                               *)

PromptSweep == \E t \in ClockReadings : ExpireLeases(ExpirableJobs(now), t)

FairSpec == Spec /\ WF_vars(Tick) /\ WF_vars(PromptSweep)


=============================================================================
