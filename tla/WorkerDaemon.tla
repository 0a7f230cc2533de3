---------------------------- MODULE WorkerDaemon ----------------------------
(***************************************************************************)
(* One Worker daemon (worker.py, worker_lifecycle.py, lease_deadline.py)   *)
(* talking to the Control Plane over HTTP (client.py).                     *)
(*                                                                         *)
(* The daemon runs three tasks on one event loop: the claim cycle, the     *)
(* heartbeat loop and the executor or the finalization.  A step of the     *)
(* model is what one of them does between two awaits.  Requests and        *)
(* responses are lost, delayed and, after the daemon stopped waiting,      *)
(* served late; the daemon may be told to stop or die at any point and     *)
(* start again under the same worker_id.                                   *)
(*                                                                         *)
(* The Control Plane's part of a step is its own action of ControlPlane.   *)
(* Grace, force, retry and poll periods are configuration: they elapse at  *)
(* any time.  Only the lease deadline is compared with the clock, and      *)
(* clocks run at the same rate.                                            *)
(***************************************************************************)
EXTENDS ControlPlane

CONSTANTS
  Daemon,            \* the modelled daemon's worker_id
  DaemonLease,       \* config.lease_seconds
  FinalizeAttempts,  \* config.finalize_attempts
  MaxLate,           \* bound: forgotten requests that may still be served; more are lost
  Outcome            \* the result this daemon's executor returns

ASSUME WorkerDaemonAssumption ==
  /\ Daemon \in Workers /\ Outcome \in Results
  /\ DaemonLease \in LeaseSeconds /\ FinalizeAttempts \in Nat \ {0}
  /\ MaxLate \in Nat

VARIABLES
  d,         \* the claim cycle: its phase and the locals of _process_claim
  wire,      \* the call in flight on each channel
  late,      \* requests the daemon no longer waits for
  handled,   \* the last cycle, if _handled_jobs counted it
  observed   \* worker.stop-observed event of each Job

dvars == <<d, wire, late, handled, observed>>
systemVars == <<vars, dvars>>

NoGrant == [job |-> 0, token |-> 0, worker |-> None, at |-> 0]
NotHandled == [grant |-> NoGrant, action |-> "none"]
NoReport == [token |-> 0, cleanup |-> "none"]

Channels == {"claim", "heartbeat", "finalize", "report"}
Verdicts == {"none", "ok", "lease-lost", "run-cancelled"}
Faults == {"transient", "denied"}
Actions == {"complete", "retry", "fail", "checkpoint"}

Silent == [st |-> "none", verdict |-> "none", window |-> 0, grant |-> NoGrant]
Asked == [Silent EXCEPT !.st = "request"]

Resting == [phase |-> "idle", grant |-> NoGrant, deadline |-> 0, renewed |-> FALSE,
            action |-> "none", hb |-> "none", hbStart |-> 0, tries |-> 0, kind |-> "none",
            error |-> "none", exec |-> FALSE, cleanup |-> "none"]

DaemonInit ==
  /\ Init
  /\ d = Resting
  /\ wire = [c \in Channels |-> Silent]
  /\ late = {}
  /\ handled = NotHandled
  /\ observed = [j \in JobIds |-> NoReport]

-----------------------------------------------------------------------------
(* Calls. *)

Send(c) == wire' = [wire EXCEPT ![c] = Asked]

(* Nobody waits any more for the requests of the channels in C: each may be  *)
(* lost or served late.                                                      *)
Forget(C) ==
  LET forgotten == {[op |-> c, grant |-> d.grant, action |-> d.action, cleanup |-> d.cleanup] :
                      c \in {e \in C : wire[e].st = "request"}}
  IN \E S \in SUBSET forgotten : /\ Cardinality(late \cup S) <= MaxLate
                                 /\ late' = late \cup S

Abandon(C) ==
  /\ wire' = [c \in Channels |-> IF c \in C THEN Silent ELSE wire[c]]
  /\ Forget(C)

(* cancellation_kind *)
KindOf(error) ==
  CASE error = "run-cancelled" -> "run-cancelled"
    [] error \in {"lease-lost", "deadline"} -> "lease-lost"
    [] error = "shutdown" -> "daemon-shutdown"
    [] OTHER -> "heartbeat-unavailable"

(* What run_forever does with the exception that ended the cycle. *)
After(error) ==
  CASE error \in {"denied", "quiescence"} -> "fatal" [] error = "shutdown" -> "stopped" [] OTHER -> "idle"

FirstKind(c, kind) == IF c.kind = "none" THEN kind ELSE c.kind

Rest(c, phase) == [Resting EXCEPT !.phase = phase, !.exec = c.exec,
                                  !.grant = IF c.exec THEN c.grant ELSE NoGrant]

(* A call under way when its task is cancelled may outlast the bounded drain *)
(* (a transport that suppresses cancellation): the daemon is done for.       *)
DrainFailures == {"quiescence" : x \in {y \in Channels : wire[y].st = "request"}}

(* The finally clause of _process_claim: a Run cancellation is reported      *)
(* before the exception travels on.                                          *)
EndsWith(c, error) ==
  LET report == c.kind = "run-cancelled"
  IN /\ d' = IF report
             THEN [Resting EXCEPT !.phase = "reporting", !.error = error, !.kind = c.kind,
                            !.grant = c.grant, !.exec = c.exec,
                            !.cleanup = IF c.cleanup = "none" THEN "drained" ELSE c.cleanup]
             ELSE Rest(c, After(error))
     /\ wire' = [x \in Channels |-> IF report /\ x = "report" THEN Asked ELSE Silent]
     /\ Forget(Channels)

(* Every task is cancelled and drained first. *)
EndCycle(c, error) == \E e \in {error} \cup DrainFailures : EndsWith(c, e)

-----------------------------------------------------------------------------
(* The Control Plane's side: the verdict and the lease window it answers.    *)

LeaseAccepted(g, t) == RunOf(g).state = "running" /\ RequireActiveLease(g, t)

Refuses(g, verdict) ==
  /\ verdict = IF RunOf(g).state = "cancelled" THEN "run-cancelled" ELSE "lease-lost"
  /\ UNCHANGED vars

(* A claim is answered with a lease, or with 204 when the poll ran out. *)
ServeClaim(t) ==
  /\ wire["claim"].st = "request"
  /\ \/ /\ \E j \in JobIds : ClaimJob(Daemon, j, DaemonLease, t)
        /\ \E g \in grants' \ grants :
             wire' = [wire EXCEPT !["claim"] =
                        [st |-> "reply", verdict |-> "ok", grant |-> g,
                         window |-> job'[g.job].expires - job'[g.job].heartbeat]]
     \/ /\ wire' = [wire EXCEPT !["claim"].st = "reply"]
        /\ UNCHANGED vars
  /\ UNCHANGED <<d, late, handled, observed>>

ServeHeartbeat(g, verdict, window, t) ==
  \/ /\ Heartbeat(g, DaemonLease, t)
     /\ verdict = "ok" /\ window = job'[g.job].expires - job'[g.job].heartbeat
  \/ /\ ~LeaseAccepted(g, Greatest(t, job[g.job].heartbeat))
     /\ Refuses(g, verdict) /\ window = 0

Completed(g) == RequireLeaseIdentity(g) /\ job[g.job].state = "succeeded"
                                        /\ job[g.job].result = Outcome

(* The executor's checkpoint intent expires at the end of time. *)
ServeFinalize(g, action, verdict, t) ==
  \/ /\ verdict = "ok"
     /\ CASE action = "complete" -> CompleteJob(g, Outcome, FALSE, t) \/ CompletionRetry(g, Outcome)
          [] action = "retry" -> FailJob(g, TRUE, t)
          [] action = "fail" -> FailJob(g, FALSE, t)
          [] action = "checkpoint" -> CreateCheckpoint(g, Horizon, t)
  \/ /\ ~LeaseAccepted(g, t)
     /\ ~(action = "complete" /\ Completed(g) /\ RunOf(g).state # "cancelled")
     /\ Refuses(g, verdict)

(* StopObservationService.record: a report of the fenced lease, the first or *)
(* the same again.  A report whose clock disagrees by more than the           *)
(* tolerance is refused: any report may be.                                   *)
RecordStop(g, cleanup, verdict) ==
  LET proposed == [token |-> g.token, cleanup |-> cleanup]
  IN /\ \/ /\ fence[g.job] = g.token /\ observed[g.job] \in {NoReport, proposed}
           /\ observed' = [observed EXCEPT ![g.job] = proposed]
           /\ verdict = "ok"
        \/ verdict = "lease-lost" /\ UNCHANGED observed
     /\ UNCHANGED vars

Handle(op, g, action, cleanup, verdict, window, t) ==
  \/ op = "heartbeat" /\ ServeHeartbeat(g, verdict, window, t) /\ UNCHANGED observed
  \/ op = "finalize" /\ ServeFinalize(g, action, verdict, t) /\ window = 0 /\ UNCHANGED observed
  \/ op = "report" /\ RecordStop(g, cleanup, verdict) /\ window = 0

(* A call under a lease is served; the response is on its way. *)
Serve(c, t) ==
  /\ wire[c].st = "request"
  /\ \E verdict \in Verdicts, window \in 0..DaemonLease :
       /\ Handle(c, d.grant, d.action, d.cleanup, verdict, window, t)
       /\ wire' = [wire EXCEPT ![c] = [st |-> "reply", verdict |-> verdict,
                                       window |-> window, grant |-> d.grant]]
  /\ UNCHANGED <<d, late, handled>>

(* A request the daemon gave up on reaches the server; nobody reads the answer. *)
ServeLate(m, t) ==
  /\ m \in late
  /\ late' = late \ {m}
  /\ \E verdict \in Verdicts, window \in 0..DaemonLease :
       \/ /\ m.op = "claim" /\ UNCHANGED observed
          /\ \E j \in JobIds : ClaimJob(Daemon, j, DaemonLease, t)
       \/ m.op # "claim" /\ Handle(m.op, m.grant, m.action, m.cleanup, verdict, window, t)
  /\ UNCHANGED <<d, wire, handled>>

-----------------------------------------------------------------------------
(* The claim cycle: run_once. *)

AskClaim ==
  /\ d.phase = "idle"
  /\ d' = [d EXCEPT !.phase = "claiming"]
  /\ Send("claim")
  /\ UNCHANGED <<vars, late, handled, observed>>

(* Mutant: the local deadline of a renewal counts from the response. *)
RenewedAtReceipt(start, window) == now + Least(window, DaemonLease)

(* renew_from_server_timestamps *)
RenewedDeadline(start, window) == start + Least(window, DaemonLease)

(* The lease window is counted from the receipt of the response.  The last   *)
(* conjunct is a bound, as in ClaimJob.                                      *)
StartClaim ==
  LET m == wire["claim"]
  IN /\ d.phase = "claiming" /\ m.st = "reply" /\ m.verdict = "ok"
     /\ d' = [Resting EXCEPT !.phase = "executing", !.grant = m.grant, !.exec = TRUE,
                             !.deadline = now + Least(m.window, DaemonLease),
                             !.hb = "sent", !.hbStart = now]
     /\ handled' = NotHandled
     /\ wire' = [wire EXCEPT !["claim"] = Silent, !["heartbeat"] = Asked]
     /\ now + m.window <= Horizon
     /\ UNCHANGED <<vars, late, observed>>

(* 204 or a transport fault: back off.  A rejected credential, or a response *)
(* the client cannot validate, is fatal.                                     *)
ClaimFails(fault) ==
  /\ d.phase = "claiming"
  /\ d' = Rest(d, After(fault))
  /\ Abandon({"claim"})
  /\ UNCHANGED <<vars, handled, observed>>

-----------------------------------------------------------------------------
(* The heartbeat loop. *)

(* What the end of the heartbeat task does to the cycle: an execution is     *)
(* signalled (and forced at once after the local deadline), a finalization   *)
(* is cancelled at the local deadline and otherwise reconciled for a while.  *)
HeartbeatEnds(error) ==
  LET stopped == [Resting EXCEPT !.kind = KindOf(error), !.error = error, !.exec = TRUE,
                           !.grant = d.grant,
                           !.phase = IF error = "deadline" THEN "forcing" ELSE "stopping"]
  IN \/ /\ d.phase = "executing"
        /\ d' = stopped
        /\ Abandon({"heartbeat"})
     \/ /\ d.phase = "finalizing" /\ error = "deadline"
        /\ EndCycle([d EXCEPT !.kind = "lease-lost"], error)
     \/ /\ d.phase = "finalizing" /\ error # "deadline"
        /\ d' = [d EXCEPT !.phase = "reconciling", !.hb = "none", !.hbStart = 0, !.error = error]
        /\ Abandon({"heartbeat"})

(* The interval has passed: renew, unless the deadline came first. *)
NextHeartbeat ==
  /\ d.phase \in {"executing", "finalizing"} /\ d.hb = "asleep"
  /\ IF now >= d.deadline
     THEN HeartbeatEnds("deadline")
     ELSE /\ d' = [d EXCEPT !.hb = "sent", !.hbStart = now]
          /\ Send("heartbeat") /\ UNCHANGED late
  /\ UNCHANGED <<vars, handled, observed>>

(* A renewal may arrive so late that its own window is already over. *)
HeartbeatAnswered ==
  LET m == wire["heartbeat"]
      deadline == RenewedDeadline(d.hbStart, m.window)
  IN /\ d.phase \in {"executing", "finalizing"} /\ m.st = "reply"
     /\ IF m.verdict = "ok" /\ now < deadline
        THEN /\ d' = [d EXCEPT !.deadline = deadline, !.renewed = TRUE, !.hb = "asleep",
                               !.hbStart = 0]
             /\ Abandon({"heartbeat"})
        ELSE HeartbeatEnds(IF m.verdict = "ok" THEN "deadline" ELSE m.verdict)
     /\ UNCHANGED <<vars, handled, observed>>

(* Mutant: the call is not bounded while the executor runs. *)
HeartbeatWaitsForAnswer ==
  /\ d.phase = "finalizing" /\ d.hb = "sent"
  /\ now >= d.deadline
  /\ HeartbeatEnds("deadline")
  /\ UNCHANGED <<vars, handled, observed>>

(* asyncio.timeout_at(lease_deadline.expires_at) *)
HeartbeatTimesOut ==
  /\ d.phase \in {"executing", "finalizing"} /\ d.hb = "sent"
  /\ now >= d.deadline
  /\ HeartbeatEnds("deadline")
  /\ UNCHANGED <<vars, handled, observed>>

HeartbeatFaults(fault) ==
  /\ d.phase \in {"executing", "finalizing"} /\ d.hb = "sent"
  /\ HeartbeatEnds(fault)
  /\ UNCHANGED <<vars, handled, observed>>

-----------------------------------------------------------------------------
(* The executor and the finalization. *)

ExecutorReturns(action) ==
  LET returned == [d EXCEPT !.exec = FALSE]
  IN /\ d.phase = "executing"
     /\ IF now < d.deadline
        THEN /\ d' = [returned EXCEPT !.phase = "finalizing", !.action = action, !.tries = 1]
             /\ Send("finalize") /\ UNCHANGED late
        ELSE EndCycle([returned EXCEPT !.kind = FirstKind(d, "lease-lost")], "deadline")
     /\ UNCHANGED <<vars, handled, observed>>

(* Mutant: a rejected retry is taken for a finalization done earlier. *)
ConflictMeansDone(verdict) == verdict \in {"ok", "lease-lost"} /\ now < d.deadline

(* A validated response counts only before the local deadline, and when the  *)
(* tasks of its cycle were drained.                                          *)
FinalizationCounts(verdict) == verdict = "ok" /\ now < d.deadline

FinalizationAnswered ==
  LET m == wire["finalize"]
      error == IF m.verdict = "ok" THEN "deadline" ELSE m.verdict
  IN /\ d.phase \in {"finalizing", "reconciling"} /\ m.st = "reply"
     /\ IF FinalizationCounts(m.verdict)
        THEN /\ EndCycle(d, "none")
             /\ handled' = IF d'.phase = "idle" THEN [grant |-> d.grant, action |-> d.action]
                           ELSE handled
        ELSE /\ EndCycle([d EXCEPT !.kind = KindOf(error)], error)
             /\ UNCHANGED handled
     /\ UNCHANGED <<vars, observed>>

(* finalize_with_retry: only a transport fault is tried again. *)
FinalizationFaults(fault) ==
  /\ d.phase \in {"finalizing", "reconciling"} /\ wire["finalize"].st # "none"
  /\ IF d.tries = FinalizeAttempts \/ fault = "denied"
     THEN EndCycle(d, fault)
     ELSE Abandon({"finalize"}) /\ UNCHANGED d
  /\ UNCHANGED <<vars, handled, observed>>

FinalizationRetried ==
  /\ d.phase \in {"finalizing", "reconciling"} /\ wire["finalize"].st = "none"
  /\ d' = [d EXCEPT !.tries = d.tries + 1]
  /\ Send("finalize")
  /\ UNCHANGED <<vars, late, handled, observed>>

(* The heartbeat ended first and the finalization did not follow in time: it *)
(* is cancelled and drained before the heartbeat's error is raised.          *)
ReconciliationEnds ==
  LET error == IF now >= d.deadline THEN "deadline" ELSE d.error
  IN /\ d.phase = "reconciling"
     /\ \/ EndCycle([d EXCEPT !.kind = IF error \in {"transient", "denied"} THEN "none"
                                       ELSE KindOf(error)], error)
        \/ "quiescence" \in DrainFailures /\ EndsWith(d, "quiescence")
     /\ UNCHANGED <<vars, handled, observed>>

-----------------------------------------------------------------------------
(* stop_execution, and the report of a cancelled Run. *)

GraceElapses ==
  /\ d.phase = "stopping"
  /\ d' = [d EXCEPT !.phase = "forcing"]
  /\ UNCHANGED <<vars, wire, late, handled, observed>>

(* Mutant: what a stopped executor still returns is finalized. *)
StoppedExecutorFinalizes ==
  /\ d.phase \in {"stopping", "forcing"}
  /\ d' = [d EXCEPT !.exec = FALSE, !.phase = "finalizing", !.action = "complete", !.tries = 1]
  /\ Send("finalize")
  /\ UNCHANGED <<vars, late, handled, observed>>

ExecutorStops ==
  /\ d.phase \in {"stopping", "forcing"}
  /\ EndCycle([d EXCEPT !.exec = FALSE], d.error)
  /\ UNCHANGED <<vars, handled, observed>>

(* Mutant: an executor that was cancelled is taken to have stopped. *)
ForceAssumesDrained ==
  /\ d.phase = "forcing"
  /\ EndCycle([d EXCEPT !.cleanup = "drained"], "quiescence")
  /\ UNCHANGED <<vars, handled, observed>>

ForceElapses ==
  /\ d.phase = "forcing"
  /\ EndCycle([d EXCEPT !.cleanup = "incomplete"], "quiescence")
  /\ UNCHANGED <<vars, handled, observed>>

(* An executor that outlived the forced stop ends by itself. *)
OrphanStops ==
  /\ d.phase \in {"reporting", "fatal", "stopped"} /\ d.exec
  /\ d' = [d EXCEPT !.exec = FALSE]
  /\ UNCHANGED <<vars, wire, late, handled, observed>>

(* publish_worker_stop is tried once; its outcome changes only the status. *)
ReportEnds ==
  /\ d.phase = "reporting"
  /\ d' = Rest(d, After(d.error))
  /\ Abandon({"report"})
  /\ UNCHANGED <<vars, handled, observed>>

-----------------------------------------------------------------------------
(* SIGTERM: no new claim, and the cycle is cancelled where it stands. *)
Shutdown ==
  LET cancelled == [d EXCEPT !.kind = FirstKind(d, "daemon-shutdown"), !.error = "shutdown"]
  IN /\ d.phase \notin {"stopped", "fatal"} /\ d.error # "shutdown"
     /\ \/ /\ d.phase \in {"idle", "claiming", "reporting"}
           /\ \E e \in {"shutdown"} \cup DrainFailures : d' = Rest(d, After(e))
           /\ Abandon(Channels)
        \/ /\ d.phase = "executing"
           /\ d' = [cancelled EXCEPT !.phase = "stopping", !.hb = "none", !.hbStart = 0,
                                     !.deadline = 0, !.renewed = FALSE]
           /\ Abandon({"heartbeat"})
        \/ /\ d.phase \in {"stopping", "forcing"}
           /\ d' = cancelled
           /\ UNCHANGED <<wire, late>>
        \/ /\ d.phase \in {"finalizing", "reconciling"}
           /\ EndCycle(cancelled, "shutdown")
     /\ UNCHANGED <<vars, handled, observed>>

(* The process dies anywhere, or ended; its supervisor starts it again. *)
Restart ==
  /\ d # Resting
  /\ d' = Resting
  /\ Abandon(Channels)
  /\ UNCHANGED <<vars, handled, observed>>

-----------------------------------------------------------------------------
(* What the Control Plane does for others that a claim cycle can notice.     *)
(* Another Worker's lease here ends by expiry or cancellation.  Approvals    *)
(* are decided after the Job of a cycle ended, and cancel the Run at most.   *)
Elsewhere ==
  /\ \/ Tick
     \/ \E r \in Runs : CancelRun(r)
     \/ \E t \in ClockReadings :
          \/ Submit(t)
          \/ SweepLeases(t)
          \/ \E w \in Workers \ {Daemon}, j \in JobIds, seconds \in LeaseSeconds :
               ClaimJob(w, j, seconds, t)
  /\ UNCHANGED dvars

Call == \E t \in ClockReadings :
          \/ ServeClaim(t)
          \/ \E c \in Channels : Serve(c, t)
          \/ \E m \in late : ServeLate(m, t)

DaemonStep ==
  \/ AskClaim \/ StartClaim
  \/ \E fault \in Faults : ClaimFails(fault) \/ HeartbeatFaults(fault) \/ FinalizationFaults(fault)
  \/ NextHeartbeat \/ HeartbeatAnswered \/ HeartbeatTimesOut
  \/ \E action \in Actions : ExecutorReturns(action)
  \/ FinalizationAnswered \/ FinalizationRetried \/ ReconciliationEnds
  \/ GraceElapses \/ ExecutorStops \/ ForceElapses \/ OrphanStops \/ ReportEnds
  \/ Shutdown \/ Restart

DaemonNext == Elsewhere \/ Call \/ DaemonStep

DaemonSpec == DaemonInit /\ [][DaemonNext]_systemVars

-----------------------------------------------------------------------------
(* Safety. *)

(* Once a heartbeat renewed it, the local deadline is safe: until it is       *)
(* reached no other Worker has been given the Job, however long requests and  *)
(* responses took (renew_from_server_timestamps, _lock_expirable_jobs).       *)
LocalAuthorityIsExclusive ==
  d.phase = "executing" /\ d.renewed /\ now < d.deadline =>
    \A g \in grants : g.job = d.grant.job => g.token <= d.grant.token

(* A cycle counted as handled is in the database, also when the response the  *)
(* daemon read answered a retry or came after the heartbeat was refused       *)
(* (finalize_with_retry, await_finalization_with_heartbeat).                  *)
HandledIsCommitted ==
  handled.grant # NoGrant =>
    \E e \in effects : /\ e.job = handled.grant.job /\ e.token = handled.grant.token
                       /\ e.kind = IF handled.action = "retry" THEN "fail" ELSE handled.action

(* What an execution still returns after it was told to stop is never         *)
(* submitted: no finalization leaves the daemon once its cancellation context *)
(* is set (await_with_heartbeat, stop_execution).                             *)
CancelledExecutionSubmitsNothing ==
  [][wire["finalize"].st = "none" /\ wire'["finalize"].st = "request" => d.kind = "none"]_systemVars

(* A recorded stop observation speaks of the lease the cancellation fenced,   *)
(* and says drained only of an executor that has really ended                 *)
(* (mark_executor_drained, StopObservationService.record).                    *)
StopReportIsTrue ==
  \A j \in JobIds : observed[j] # NoReport =>
    /\ observed[j].token = fence[j] /\ fence[j] # 0
    /\ observed[j].cleanup = "drained" =>
         ~(d.exec /\ d.grant.job = j /\ d.grant.token = observed[j].token)

-----------------------------------------------------------------------------
(* Liveness.  Timers of the event loop fire, HTTP calls time out (client.py   *)
(* sets connect, read, write and pool timeouts), and a response that arrived  *)
(* is read.  Nothing is assumed of the server, the network or the executor.   *)

DaemonFairSpec ==
  /\ DaemonSpec
  /\ WF_systemVars(Tick /\ UNCHANGED dvars)
  /\ WF_systemVars(NextHeartbeat) /\ WF_systemVars(HeartbeatAnswered)
  /\ WF_systemVars(HeartbeatTimesOut)
  /\ WF_systemVars(ClaimFails("transient")) /\ WF_systemVars(FinalizationFaults("transient"))
  /\ WF_systemVars(FinalizationRetried) /\ WF_systemVars(ReconciliationEnds)
  /\ WF_systemVars(GraceElapses) /\ WF_systemVars(ForceElapses) /\ WF_systemVars(ReportEnds)

(* No claim holds the daemon for ever: an executor that never returns, a      *)
(* server that never answers or a heartbeat that always succeeds still ends   *)
(* the cycle, because renewals stop at the hard deadline of the claim.        *)
CycleEnds ==
  d.phase \notin {"idle", "stopped", "fatal"} ~> d.phase \in {"idle", "stopped", "fatal"}
=============================================================================
