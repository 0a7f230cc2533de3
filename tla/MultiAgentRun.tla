---------------------------- MODULE MultiAgentRun ----------------------------
(***************************************************************************)
(* One multi-agent Campaign run: planning, waves of parallel specialists,  *)
(* validation and reporting, which share the capability ledger and the     *)
(* Tool-call budget of the Campaign.  Source:                              *)
(* src/pajin/workflow/multi_agent_execution.py, multi_agent.py and         *)
(* multi_agent_projection.py, with providers/session.py and                *)
(* runtime/budgeted_execution.py for one call.                             *)
(*                                                                         *)
(* The run is asyncio code: a step is what happens between two awaits.  A  *)
(* specialist checks budget and grant, awaits the Gateway, and consumes    *)
(* its grant only when it resumes; its siblings run in between.  A role    *)
(* backed by a Provider consumes before it dispatches.                     *)
(*                                                                         *)
(* Every agent has exactly one grant, so a grant names its agent.  Plan    *)
(* contents, reports, findings, events and the agent-count budget are left *)
(* out.  A plan is a sequence of steps, each parallel-safe or not and of   *)
(* low risk (one retry) or not.  The duration limit, the cancellation      *)
(* context and the stop conditions are one kill switch.                    *)
(***************************************************************************)
EXTENDS CapabilityLedger, Sequences

CONSTANTS
  Plans,       \* the plans the planner may return
  MaxParallel, \* max_parallel_specialists
  Calls,       \* [Role -> calls the role's model access allows]
  Shared       \* calls a shared budget may already have charged

\* A task, with its specialist and its grant, is an index of the plan; the
\* Supervisor and the other roles have numbers below it.
Root == 0
Planner == -1
Validator == -2
Reviewer == -3
Reporter == -4
Role == {Planner, Validator, Reviewer, Reporter}
ControlRole == Role \ {Planner}
Task == Grant \ (Role \cup {Root})

PlannedStep == [parallel : BOOLEAN, low : BOOLEAN]

\* There is a grant for every role and for every step of a plan; a plan has at
\* least one step.
ASSUME RunAssumption ==
  /\ MaxParallel \in Nat \ {0} /\ Shared \subseteq 0 .. MaxToolCalls
  /\ IsFiniteSet(Grant) /\ Role \cup {Root} \subseteq Grant
  /\ Calls \in [Role -> Nat]
  /\ \A p \in Plans : p \in Seq(PlannedStep) /\ Len(p) > 0 /\ 1 .. Len(p) \subseteq Grant

VARIABLES
  phase,    \* where _execute_campaign is
  plan,     \* the validated plan
  next,     \* index of the first step of the current wave
  at,       \* [Grant -> where the agent is in its call]
  attempts, \* [Grant -> attempts begun]
  used,     \* budget.tool_calls: charged calls and reservations
  before,   \* what the budget was charged before this run
  kill,     \* the kill switch is active
  failing,  \* a task of the wave raised: the wave is being cancelled
  ran,      \* history variable: [Grant -> calls the Gateway executed]
  refused   \* history variable: a check failed after the plan was accepted

callVars == <<at, attempts, used, ran, refused>>
runVars ==
  <<rec, spent, phase, plan, next, at, attempts, used, before, kill, failing, ran, refused>>

\* Roles that may call their Provider in a phase.
RolesOf(p) ==
  CASE p = "planning"   -> {Planner}
    [] p = "validation" -> {Validator, Reviewer}
    [] p = "reporting"  -> {Reporter}
    [] OTHER            -> {}

Remaining(g) == rec[g].remaining

-----------------------------------------------------------------------------
(* Phases. *)

\* _spawn_child for several agents: every delegation must be accepted.
CanSpawn(records, G, max) == \A g \in G : CanDelegate(records, Root, Scope, max[g])

Spawned(records, G, max) ==
  [g \in Grant |-> IF g \in G THEN Delegated(records, Root, g, Scope, max[g], FALSE)[g]
                   ELSE records[g]]

\* _initialize_execution, then the planner is spawned.
RunInit ==
  /\ rec = LET root == RootIssued([g \in Grant |-> Absent], Root)
           IN  Spawned(root, {Planner}, Calls)
  /\ CanSpawn(RootIssued([g \in Grant |-> Absent], Root), {Planner}, Calls)
  /\ spent = [g \in Grant |-> 0]
  /\ phase = "planning" /\ plan = << >> /\ next = 1
  /\ at = [g \in Grant |-> IF g = Planner THEN "ready" ELSE "new"]
  /\ attempts = [g \in Grant |-> 0]
  /\ before \in Shared
  /\ used = before
  /\ kill = FALSE /\ failing = FALSE
  /\ ran = [g \in Grant |-> 0]
  /\ refused = FALSE

\* _cancel_execution and _terminalize_stopped_run: the whole tree is revoked.
End ==
  /\ phase' = "ended"
  /\ rec' = Revoked(rec, Tree(rec, Root))

\* _specialist_execution_waves: adjacent parallel-safe tasks run together.
WaveFrom(p, i) ==
  IF p[i].parallel
  THEN {j \in i .. Len(p) : \A k \in i .. j : p[k].parallel}
  ELSE {i}

ReservedControlCalls == SumOf(Calls, ControlRole)

\* The bug of giving every low-risk task a retry.
AllocateRetries(p, available) == [i \in 1 .. Len(p) |-> IF p[i].low THEN 2 ELSE 1]

\* _allocate_specialist_attempts: one call for every task, then one retry for
\* the low-risk ones in order, as long as calls are left.
Allocate(p, available) ==
  [i \in 1 .. Len(p) |->
     IF p[i].low /\ Len(p) + Cardinality({j \in 1 .. i : p[j].low}) <= available THEN 2 ELSE 1]

SpecialistCapacity == Remaining(Root) - ReservedControlCalls

\* The planner's answer is accepted: its grant is revoked, the calls are
\* allocated, and a specialist is spawned for every step.
AcceptPlan(p) ==
  LET calls == Allocate(p, SpecialistCapacity)
      idle == Revoked(rec, {Planner})
  IN  /\ plan' = p /\ next' = 1
      /\ IF Len(p) <= SpecialistCapacity /\ CanSpawn(idle, 1 .. Len(p), calls)
         THEN /\ rec' = Spawned(idle, 1 .. Len(p), calls)
              /\ phase' = "wave"
         ELSE End

-----------------------------------------------------------------------------
(* A role backed by a Provider: ProviderModelSession.chat in a retry loop. *)

\* _prepare_call, the reservation and _consume_capability, with no await
\* between them.
ProviderCall(r) ==
  /\ r \in RolesOf(phase) /\ at[r] = "ready" /\ attempts[r] < Calls[r]
  /\ \A q \in Role : at[q] # "calling"
  /\ IF used < MaxToolCalls /\ CanConsume(rec, r)
     THEN /\ used' = used + 1
          /\ rec' = Consumed(rec, r)
          /\ spent' = [spent EXCEPT ![r] = spent[r] + 1]
          /\ at' = [at EXCEPT ![r] = "calling"]
          /\ attempts' = [attempts EXCEPT ![r] = attempts[r] + 1]
          /\ UNCHANGED <<phase, refused>>
     ELSE /\ End
          /\ refused' = (refused \/ r \in ControlRole)
          /\ UNCHANGED <<used, spent, at, attempts>>
  /\ UNCHANGED <<plan, next, kill, failing, ran>>

\* _finalize_gateway_outcome: a call that was not executed gives its budget
\* back, but not the capability.  The role's loop may try again.
ProviderReturn(r, executed) ==
  /\ at[r] = "calling"
  /\ at' = [at EXCEPT ![r] = "ready"]
  /\ used' = IF executed THEN used ELSE used - 1
  /\ ran' = IF executed THEN [ran EXCEPT ![r] = ran[r] + 1] ELSE ran
  /\ UNCHANGED <<rec, spent, phase, plan, next, attempts, kill, failing, refused>>

\* The roles of the phase are through, with an answer or a fallback.
Quiet(p) == \A r \in RolesOf(p) : at[r] # "calling"

PlanReady(p) ==
  /\ phase = "planning" /\ Quiet(phase) /\ ~kill
  /\ AcceptPlan(p)
  /\ UNCHANGED <<spent, kill, failing>> /\ UNCHANGED callVars

\* The next phase spawns its roles; a refused delegation ends the run.
Enter(p) ==
  LET G == RolesOf(p)
      idle == Revoked(rec, RolesOf(phase))
  IN  IF CanSpawn(idle, G, Calls)
      THEN /\ rec' = Spawned(idle, G, Calls)
           /\ phase' = p
           /\ at' = [g \in Grant |-> IF g \in G THEN "ready" ELSE at[g]]
           /\ UNCHANGED refused
      ELSE End /\ refused' = TRUE /\ UNCHANGED at

ValidationReady ==
  /\ phase = "validation" /\ Quiet(phase)
  /\ Enter("reporting")
  /\ UNCHANGED <<spent, plan, next, attempts, used, kill, failing, ran>>

ReportReady ==
  /\ phase = "reporting" /\ Quiet(phase)
  /\ End
  /\ UNCHANGED <<spent, plan, next, kill, failing>> /\ UNCHANGED callVars

\* The Provider's role fails or is stopped by _within_budget; the call in
\* flight is drained and stays charged.
PhaseFails ==
  /\ phase \in {"planning", "validation", "reporting"}
  /\ at' = [g \in Grant |-> IF at[g] = "calling" THEN "failed" ELSE at[g]]
  /\ End
  /\ UNCHANGED <<spent, plan, next, attempts, used, kill, failing, ran, refused>>

-----------------------------------------------------------------------------
(* A specialist: _run_specialist_task under execute and _within_budget. *)

Wave == IF phase = "wave" THEN WaveFrom(plan, next) ELSE {}

Active(t) == at[t] \in {"checked", "calling", "returned", "denied"}

\* The head of the loop: one more attempt, check_tool_call and can_consume.
Attempt(records, t) ==
  LET ok == used < MaxToolCalls /\ CanConsume(records, t) IN
  /\ attempts' = [attempts EXCEPT ![t] = attempts[t] + 1]
  /\ at' = [at EXCEPT ![t] = IF ok THEN "checked" ELSE "failed"]
  /\ failing' = (failing \/ ~ok)
  /\ refused' = (refused \/ ~ok)

\* execute: the semaphore, then the control check that skips the task.
StartTask(t) ==
  /\ t \in Wave /\ at[t] = "new"
  /\ Cardinality({s \in Wave : Active(s)}) < MaxParallel
  /\ IF kill
     THEN at' = [at EXCEPT ![t] = "skipped"] /\ UNCHANGED <<attempts, failing, refused>>
     ELSE Attempt(rec, t)
  /\ UNCHANGED <<rec, spent, phase, plan, next, used, kill, ran>>

\* budgeted_tool_call reserves the call; the reservation may be refused.
EnterGateway(t) ==
  LET ok == used < MaxToolCalls IN
  /\ t \in Wave /\ at[t] = "checked"
  /\ used' = IF ok THEN used + 1 ELSE used
  /\ at' = [at EXCEPT ![t] = IF ok THEN "calling" ELSE "failed"]
  /\ failing' = (failing \/ ~ok)
  /\ refused' = (refused \/ ~ok)
  /\ UNCHANGED <<rec, spent, phase, plan, next, attempts, kill, ran>>

\* The Gateway returns: executed (the charge is kept) or proven not executed
\* (the charge is released).
GatewayReturns(t, executed) ==
  /\ t \in Wave /\ at[t] = "calling"
  /\ at' = [at EXCEPT ![t] = IF executed THEN "returned" ELSE "denied"]
  /\ used' = IF executed THEN used ELSE used - 1
  /\ ran' = IF executed THEN [ran EXCEPT ![t] = ran[t] + 1] ELSE ran
  /\ UNCHANGED <<rec, spent, phase, plan, next, attempts, kill, failing, refused>>

\* The Gateway raises: the charge is kept, the task's tree is revoked.
GatewayRaises(t) ==
  /\ t \in Wave /\ at[t] = "calling"
  /\ at' = [at EXCEPT ![t] = "failed"]
  /\ rec' = Revoked(rec, Tree(rec, t))
  /\ failing' = TRUE
  /\ UNCHANGED <<spent, phase, plan, next, attempts, used, kill, ran, refused>>

\* Stopped by the kill switch, or cancelled because a sibling raised.  A call
\* in flight stays charged; its outcome, if there is one, is dropped.
StopTask(t) ==
  /\ t \in Wave
  /\ \/ (kill \/ failing) /\ Active(t)
     \/ failing /\ at[t] = "new"
  /\ at' = [at EXCEPT ![t] = "failed"]
  /\ failing' = TRUE
  /\ UNCHANGED <<rec, spent, phase, plan, next, attempts, used, kill, ran, refused>>

\* The bug of a retry that does not ask how many attempts were made.
MayRetryAlways(t) == TRUE

MayRetry(t) == attempts[t] < rec[t].max

\* The specialist resumes with an executed call: it consumes its lineage; the
\* outcome may activate the kill switch; then it ends or tries again.
Resume(t, success, stop) ==
  /\ t \in Wave /\ at[t] = "returned"
  /\ IF ~CanConsume(rec, t)
     THEN /\ at' = [at EXCEPT ![t] = "failed"] /\ failing' = TRUE
          /\ UNCHANGED <<rec, spent, attempts, kill, refused>>
     ELSE /\ spent' = [spent EXCEPT ![t] = spent[t] + 1]
          /\ kill' = (kill \/ stop)
          /\ IF success \/ ~MayRetry(t)
             THEN /\ rec' = Revoked(Consumed(rec, t), Tree(rec, t))
                  /\ at' = [at EXCEPT ![t] = "done"]
                  /\ UNCHANGED <<attempts, failing, refused>>
             ELSE /\ rec' = Consumed(rec, t)
                  /\ Attempt(Consumed(rec, t), t)
  /\ UNCHANGED <<phase, plan, next, used, ran>>

\* The specialist resumes with a call that was not executed: the task fails,
\* its tree is revoked, the wave goes on.
ResumeDenied(t, stop) ==
  /\ t \in Wave /\ at[t] = "denied"
  /\ at' = [at EXCEPT ![t] = "done"]
  /\ kill' = (kill \/ stop)
  /\ rec' = Revoked(rec, Tree(rec, t))
  /\ UNCHANGED <<spent, phase, plan, next, attempts, used, failing, ran, refused>>

\* The bug of waiting for successes only.
WaveOverWhenDone == \A t \in Wave : at[t] = "done"

\* gather: every task of the wave has ended.
WaveOver == \A t \in Wave : at[t] \in {"done", "skipped", "failed"}

\* The wave ends: the run stops, or goes on with the next wave or validation.
EndWave ==
  LET after == next + Cardinality(Wave) IN
  /\ phase = "wave" /\ WaveOver
  /\ \/ /\ failing \/ (kill /\ after > Len(plan))
        /\ End
        /\ UNCHANGED <<next, at, refused>>
     \/ /\ ~failing /\ after <= Len(plan)
        /\ next' = after
        /\ UNCHANGED <<rec, phase, at, refused>>
     \/ /\ ~failing /\ ~kill /\ after > Len(plan)
        /\ Enter("validation")
        /\ UNCHANGED next
  /\ UNCHANGED <<spent, plan, attempts, used, kill, failing, ran>>

Kill ==
  /\ ~kill /\ phase # "ended"
  /\ kill' = TRUE
  /\ UNCHANGED <<rec, spent, phase, plan, next, failing, before>> /\ UNCHANGED callVars

TaskStep(t) ==
  \/ StartTask(t) \/ EnterGateway(t) \/ GatewayRaises(t) \/ StopTask(t)
  \/ \E b \in BOOLEAN : GatewayReturns(t, b) \/ ResumeDenied(t, b)
  \/ \E success, stop \in BOOLEAN : Resume(t, success, stop)

PhaseStep ==
  \/ \E r \in Role : ProviderCall(r) \/ \E b \in BOOLEAN : ProviderReturn(r, b)
  \/ \E p \in Plans : PlanReady(p)
  \/ EndWave \/ ValidationReady \/ ReportReady \/ PhaseFails

Progress == (PhaseStep \/ \E t \in Task : TaskStep(t)) /\ UNCHANGED before

RunNext == Progress \/ Kill

RunSpec == RunInit /\ [][RunNext]_runVars

\* The event loop runs what is ready, and _within_budget ends every await by
\* the duration limit at the latest.
FairRunSpec == RunSpec /\ WF_runVars(Progress)

-----------------------------------------------------------------------------
(* Properties. *)

\* A call that the Gateway executed can always be paid for when the specialist
\* resumes, although can_consume was asked before the await and siblings have
\* drawn on the same root since: the sum of the allocated attempts fits in what
\* the root has left (_allocate_execution_contract).  No agent executes more
\* calls than its grant was given, and all together execute no more than were
\* charged, whatever was interrupted (budgeted_tool_call keeps the charge of an
\* uncertain call).
ExecutedCallIsPayable ==
  /\ \A t \in Task : at[t] = "returned" => CanConsume(rec, t)
  /\ \A g \in Grant : ran[g] <= rec[g].max
  /\ SumOf(ran, Grant) <= used

\* A run with a budget of its own never finds the budget, the grant or a
\* delegation refused once the plan was accepted: what check_tool_call,
\* reserve_tool_usage, can_consume and delegate test was allotted up front.
NeverRefusedLate == before = 0 => ~refused

Silent ==
  /\ \A g \in Grant : at[g] # "calling" /\ ~(g \in Task /\ Active(g))
  /\ \A g \in Issued(rec) : rec[g].revoked

\* Every run ends, whatever fails or is stopped, and then nobody is in a call
\* and no grant is live: the root is revoked only after every task was gathered
\* (_terminalize_stopped_run).
RunEnds == <>(phase = "ended") /\ [](phase = "ended" => Silent)

=============================================================================
