---------------------------- MODULE BudgetLedger ----------------------------
(***************************************************************************)
(* Budget accounting of a Campaign: the in-memory BudgetController and     *)
(* DualModelUsageBudget (src/pajin/runtime/control.py) bound to the        *)
(* DurableBudgetLedger (src/pajin/runtime/budget_persistence.py).          *)
(*                                                                         *)
(* An Owner is one process: one ledger object with one pair of fresh       *)
(* controllers.  Several owners may be alive on one journal; the last one  *)
(* that bound its controllers is current, the others are superseded.       *)
(*                                                                         *)
(* Usage is abstracted to three counters.  `tools' and `calls' are         *)
(* tool_calls and model_calls; `tokens' stands for every quantity with a   *)
(* bound that is reserved and later refunded (prompt and completion tokens *)
(* and cost).  The append-only history is represented by its head: the     *)
(* table's triggers forbid any update, deletion or replacement.            *)
(***************************************************************************)
EXTENDS Integers, FiniteSets

CONSTANTS
  Owner,        \* identities a process may take (uuid4 in the code)
  Account,      \* {"campaign"} or {"campaign", "dedicated"}
  Res,          \* handles that callers may hold at one time
  Limit,        \* [Account -> usage], the pinned Budgets of each account
  Duration,     \* [Account -> Nat], duration_seconds
  Bound,        \* upper bounds that callers reserve for one model call
  MaxRevision,  \* the largest revision a checkpoint may have
  MaxTime,      \* bound: how far the clocks run
  MaxSteps,     \* bound: how often the wall clock is set back
  MaxEarlyUse   \* bound: usage up to which an unbound controller is used

NoOne == "no one"  \* the owner of an account nobody has bound yet

ASSUME BudgetAssumption ==
  /\ Owner # {} /\ NoOne \notin Owner /\ Res # {}
  /\ "campaign" \in Account /\ Account \subseteq {"campaign", "dedicated"}
  /\ Limit \in [Account -> [tools : Nat, calls : Nat, tokens : Nat]]
  /\ Duration \in [Account -> Nat]
  /\ Bound \subseteq Nat
  /\ MaxRevision \in Nat /\ MaxTime \in Nat /\ MaxSteps \in Nat
  /\ MaxEarlyUse \in Nat

VARIABLES
  ctl,    \* [Owner -> the controllers and the ledger of the process]
  head,   \* [Account -> the latest committed checkpoint]
  call,   \* [Res -> the reservation the caller holds]
  clock,  \* the monotonic clock, the wall clock, how often it was set back
  owed    \* history variable: what callers were really granted and keep

vars == <<ctl, head, call, clock, owed>>

Outcome == {"ok", "rolled back", "unacknowledged"}
Kind == {"tool", "model", "dual"}

-----------------------------------------------------------------------------
(* Usage vectors. *)

Use(t, c, k) == [tools |-> t, calls |-> c, tokens |-> k]
Nothing == Use(0, 0, 0)
Plus(u, v) == Use(u.tools + v.tools, u.calls + v.calls, u.tokens + v.tokens)
Minus(u, v) == Use(u.tools - v.tools, u.calls - v.calls, u.tokens - v.tokens)
Total(u) == u.tools + u.calls + u.tokens
Covers(u, v) == u.tools >= v.tools /\ u.calls >= v.calls /\ u.tokens >= v.tokens

\* What a reservation of each kind charges before dispatch.
Charge(kind, n) == IF kind = "tool" THEN Use(1, 0, 0) ELSE Use(1, 1, n)

AccountsOf(kind) == IF kind = "dual" THEN {"campaign", "dedicated"} ELSE {"campaign"}

-----------------------------------------------------------------------------
(* Controllers. *)

NoCheckpoint == [rev |-> 0, owner |-> NoOne, use |-> Nothing,
                 origin |-> 0, at |-> 0, elapsed |-> 0]

Controllers(started) ==
  [up      |-> TRUE,
   bound   |-> FALSE,                          \* _persistence is set
   failed  |-> FALSE,                          \* ledger.failed, _accounting_failed
   mem     |-> [a \in Account |-> Nothing],
   live    |-> [a \in Account |-> {}],         \* active reservations
   saved   |-> [a \in Account |-> NoCheckpoint],
   started |-> started,
   offset  |-> [a \in Account |-> 0]]

Down == [Controllers(0) EXCEPT !.up = FALSE]

Free == [kind |-> "none", owner |-> NoOne, bound |-> 0, done |-> FALSE]

BudgetInit ==
  /\ ctl = [o \in Owner |-> Down]
  /\ head = [a \in Account |-> NoCheckpoint]
  /\ call = [r \in Res |-> Free]
  /\ clock = [mono |-> 0, wall |-> 0, steps |-> 0]
  /\ owed = [a \in Account |-> Nothing]

Elapsed(c, a) == c.offset[a] + clock.mono - c.started

\* check_duration: remaining_seconds is positive.
InTime(c, a) == Elapsed(c, a) < Duration[a]

Fits(c, a, x) == Covers(Limit[a], Plus(c.mem[a], x))

ReserveOn(c, a, r, x) ==
  [c EXCEPT !.mem[a] = Plus(c.mem[a], x), !.live[a] = c.live[a] \cup {r}]

CommitOn(c, A, r) ==
  [c EXCEPT !.live = [a \in Account |-> IF a \in A THEN c.live[a] \ {r} ELSE c.live[a]]]

ReleaseOn(c, A, r, x) ==
  [CommitOn(c, A, r) EXCEPT
     !.mem = [a \in Account |-> IF a \in A THEN Minus(c.mem[a], x) ELSE c.mem[a]]]

Admits(c, a, x) == InTime(c, a) /\ Fits(c, a, x)

\* The bug of leaving the Campaign charged when the dedicated account refuses.
ReservedWithoutRollback(c, r, kind, x) ==
  IF ~Admits(c, "campaign", x) THEN c
  ELSE LET first == ReserveOn(c, "campaign", r, x) IN
       IF kind # "dual" THEN first
       ELSE IF Admits(first, "dedicated", x)
            THEN ReserveOn(first, "dedicated", r, x)
            ELSE first

\* The controllers after the body of a reservation: the Campaign is charged
\* first; when the dedicated account refuses, the Campaign charge is released.
Reserved(c, r, kind, x) ==
  IF ~Admits(c, "campaign", x) THEN c
  ELSE LET first == ReserveOn(c, "campaign", r, x) IN
       IF kind # "dual" THEN first
       ELSE IF Admits(first, "dedicated", x)
            THEN ReserveOn(first, "dedicated", r, x)
            ELSE ReleaseOn(first, {"campaign"}, r, x)

Active(c, r) == \A a \in AccountsOf(call[r].kind) : r \in c.live[a]

\* release_*_reservation: an inactive handle raises and changes nothing.
Released(c, r) ==
  IF Active(c, r)
  THEN ReleaseOn(c, AccountsOf(call[r].kind), r, Charge(call[r].kind, call[r].bound))
  ELSE c

\* commit_*_reservation: the charge stays at its bound.
Committed(c, r) ==
  IF Active(c, r) THEN CommitOn(c, AccountsOf(call[r].kind), r) ELSE c

\* settle_model_usage: actual usage replaces the bound; an overrun is
\* committed at the bound and raises.
Settled(c, r, actual) ==
  IF Active(c, r) /\ actual <= call[r].bound
  THEN ReleaseOn(c, {"campaign"}, r, Use(0, 0, call[r].bound - actual))
  ELSE Committed(c, r)

-----------------------------------------------------------------------------
(* The durable ledger. *)

\* The bug of looking at the process's own last checkpoint, not at the head.
CurrentByOwnCheckpoint(o, A) == \A a \in A : ctl[o].saved[a].owner = o

\* _require_current: no other owner has appended to any of these accounts.
Current(o, A) ==
  \A a \in A : head[a] = ctl[o].saved[a] /\ head[a].owner = o

\* The next checkpoint of an account and whether it may be recorded: the
\* clocks did not run backwards, the revision is within its type, the usage
\* is within the pinned limits.
NextCheckpoint(o, c, a) ==
  [rev |-> c.saved[a].rev + 1, owner |-> o, use |-> c.mem[a],
   origin |-> c.saved[a].origin, at |-> clock.wall, elapsed |-> Elapsed(c, a)]

Recordable(c, a) ==
  /\ c.saved[a].rev < MaxRevision
  /\ clock.wall >= c.saved[a].at
  /\ Elapsed(c, a) >= c.saved[a].elapsed
  /\ Covers(Limit[a], c.mem[a])

\* DurableBudgetLedger.change around a mutation that leaves the controllers
\* as `body'.  A mutation that raises leaves them unchanged and is recorded
\* all the same.  Every failure of the transaction fences the ledger, also
\* when the commit happened and only its acknowledgement was lost.
Change(o, A, body, outcome) ==
  LET new == [a \in Account |-> IF a \in A THEN NextCheckpoint(o, body, a) ELSE head[a]]
      ok == Current(o, A) /\ \A a \in A : Recordable(body, a)
  IN  /\ ctl[o].bound /\ ~ctl[o].failed
      /\ ~ok => outcome = "rolled back"
      /\ head' = IF outcome = "rolled back" THEN head ELSE new
      /\ ctl' = [ctl EXCEPT ![o] =
                   IF outcome = "ok"
                   THEN [body EXCEPT !.saved = [a \in Account |->
                           IF a \in A THEN new[a] ELSE body.saved[a]]]
                   ELSE [(IF Current(o, A) THEN body ELSE ctl[o]) EXCEPT !.failed = TRUE]]

\* budget_change without a ledger: work on an unbound controller stays in
\* memory.  No thread uses a controller while another one binds it: OPS-001
\* has deployments bind both controllers before their first use.
Unjournalled(o, body) ==
  /\ ~ctl[o].failed
  /\ ~ctl[o].bound /\ Total(ctl[o].mem["campaign"]) < MaxEarlyUse
  /\ ctl' = [ctl EXCEPT ![o] = body]
  /\ UNCHANGED head

Mutate(o, A, body, outcome) ==
  \/ Change(o, A, body, outcome)
  \/ outcome = "ok" /\ Unjournalled(o, body)

-----------------------------------------------------------------------------
(* Binding a pair of controllers to the journal. *)

\* The bug of giving a replacement process the whole duration again.
RecoveredElapsedOfOwner(a) == head[a].elapsed

\* Time since the origin also counts while no process was running.
RecoveredElapsed(a) ==
  IF head[a].elapsed >= clock.wall - head[a].origin
  THEN head[a].elapsed ELSE clock.wall - head[a].origin

\* _prepare_binding with a saved checkpoint: only an unused controller may
\* take its place, the clock did not go back, time remains.
Recoverable(c, a) ==
  /\ c.mem[a] = Nothing /\ c.offset[a] = 0
  /\ clock.wall >= head[a].at
  /\ RecoveredElapsed(a) < Duration[a]
  /\ Covers(Limit[a], head[a].use)

FirstCheckpoint(o, c, a) ==
  [rev |-> 1, owner |-> o, use |-> c.mem[a], at |-> clock.wall,
   origin |-> clock.wall - Elapsed(c, a), elapsed |-> Elapsed(c, a)]

RecoveredCheckpoint(o, a) ==
  [head[a] EXCEPT !.rev = head[a].rev + 1, !.owner = o, !.at = clock.wall,
                  !.elapsed = RecoveredElapsed(a)]

Fresh == \A a \in Account : head[a].rev = 0

Bindable(c) ==
  /\ \A a \in Account : c.live[a] = {} /\ head[a].rev < MaxRevision
  /\ IF Fresh THEN \A a \in Account : InTime(c, a)
              ELSE \A a \in Account : Recoverable(c, a)

Adopted(c, new) ==
  IF Fresh THEN [c EXCEPT !.bound = TRUE, !.saved = new]
  ELSE [c EXCEPT !.bound = TRUE, !.saved = new,
                 !.mem = [a \in Account |-> new[a].use],
                 !.offset = [a \in Account |-> new[a].elapsed],
                 !.started = clock.mono]

\* bind_pair, bind_campaign: both checkpoints are inserted in one transaction
\* and the controllers restored after it.  Any failure fences them for good.
Bind(o, outcome) ==
  LET c == ctl[o]
      new == [a \in Account |-> IF Fresh THEN FirstCheckpoint(o, c, a)
                                         ELSE RecoveredCheckpoint(o, a)]
  IN  /\ c.up /\ ~c.bound /\ ~c.failed
      /\ ~Bindable(c) => outcome = "rolled back"
      /\ head' = IF outcome = "rolled back" THEN head ELSE new
      /\ ctl' = [ctl EXCEPT ![o] =
                   IF outcome = "ok" THEN Adopted(c, new) ELSE [c EXCEPT !.failed = TRUE]]
      /\ owed' = IF Fresh /\ outcome # "rolled back" THEN c.mem ELSE owed
      /\ UNCHANGED <<call, clock>>

-----------------------------------------------------------------------------
(* Operations of the callers. *)

\* owed counts what was granted by a bound controller, and what the first
\* binding adopts.
Granted(o, A, x) ==
  owed' = IF ctl[o].bound
          THEN [a \in Account |-> IF a \in A THEN Plus(owed[a], x) ELSE owed[a]]
          ELSE owed

Refunded(o, A, x) ==
  owed' = IF ctl[o].bound
          THEN [a \in Account |-> IF a \in A THEN Minus(owed[a], x) ELSE owed[a]]
          ELSE owed

\* reserve_tool_usage, reserve_model_usage: the caller gets a handle only if
\* the body admitted the charge and the journal acknowledged it.
Reserve(o, r, kind, n, outcome) ==
  LET x == Charge(kind, n)
      body == Reserved(ctl[o], r, kind, x)
  IN  /\ ctl[o].up /\ call[r].kind = "none"
      /\ AccountsOf(kind) \subseteq Account
      /\ Mutate(o, AccountsOf(kind), body, outcome)
      /\ IF outcome = "ok" /\ \A a \in AccountsOf(kind) : r \in body.live[a]
         THEN /\ call' = [call EXCEPT ![r] =
                   [kind |-> kind, owner |-> o, bound |-> n, done |-> FALSE]]
              /\ Granted(o, AccountsOf(kind), x)
         ELSE UNCHANGED <<call, owed>>
      /\ UNCHANGED clock

Finish(o, r, body, refund, outcome) ==
  /\ ctl[o].up /\ call[r].owner = o
  /\ Mutate(o, AccountsOf(call[r].kind), body, outcome)
  /\ call' = [call EXCEPT ![r].done = TRUE]
  /\ IF call[r].done THEN UNCHANGED owed
     ELSE Refunded(o, AccountsOf(call[r].kind), refund)
  /\ UNCHANGED clock

\* The call executed, or its outcome is unknown: the charge is kept.
Commit(o, r, outcome) == Finish(o, r, Committed(ctl[o], r), Nothing, outcome)

\* The call provably did not execute.
Release(o, r, outcome) ==
  Finish(o, r, Released(ctl[o], r), Charge(call[r].kind, call[r].bound), outcome)

Settle(o, r, actual, outcome) ==
  /\ call[r].kind = "model"
  /\ Finish(o, r, Settled(ctl[o], r, actual),
            Use(0, 0, IF actual > call[r].bound THEN 0 ELSE call[r].bound - actual),
            outcome)

\* The caller drops a handle it has finished with.
Drop(r) ==
  /\ call[r].done
  /\ call' = [call EXCEPT ![r] = Free]
  /\ UNCHANGED <<ctl, head, clock, owed>>

\* record_tool_call, record_model_call, record_model_usage: a charge without
\* a reservation.  Only record_model_call looks at the duration.
Record(o, x, outcome) ==
  LET c == ctl[o]
      admits == Fits(c, "campaign", x) /\ (x.calls > 0 => InTime(c, "campaign"))
      body == IF admits THEN [c EXCEPT !.mem["campaign"] = Plus(c.mem["campaign"], x)] ELSE c
  IN  /\ c.up
      /\ Mutate(o, {"campaign"}, body, outcome)
      /\ IF outcome = "ok" /\ admits THEN Granted(o, {"campaign"}, x) ELSE UNCHANGED owed
      /\ UNCHANGED <<call, clock>>

-----------------------------------------------------------------------------
(* Processes and clocks. *)

\* A process opens the journal with two new controllers.
Start(o) ==
  /\ ~ctl[o].up
  /\ \A a \in Account : head[a].owner # o
  /\ ctl' = [ctl EXCEPT ![o] = Controllers(clock.mono)]
  /\ UNCHANGED <<head, call, clock, owed>>

\* The process dies: its memory and its handles are gone.
Crash(o) ==
  /\ ctl[o].up
  /\ ctl' = [ctl EXCEPT ![o] = Down]
  /\ call' = [r \in Res |-> IF call[r].owner = o THEN Free ELSE call[r]]
  /\ UNCHANGED <<head, clock, owed>>

Tick ==
  /\ clock.mono < MaxTime
  /\ clock' = [clock EXCEPT !.mono = clock.mono + 1, !.wall = clock.wall + 1]
  /\ UNCHANGED <<ctl, head, call, owed>>

SetBack ==
  /\ clock.steps < MaxSteps /\ clock.wall > 0
  /\ clock' = [clock EXCEPT !.wall = clock.wall - 1, !.steps = clock.steps + 1]
  /\ UNCHANGED <<ctl, head, call, owed>>

BudgetNext ==
  \/ \E o \in Owner : Start(o) \/ Crash(o)
  \/ \E o \in Owner, outcome \in Outcome : Bind(o, outcome)
  \/ \E o \in Owner, r \in Res, kind \in Kind, outcome \in Outcome :
       \E n \in (IF kind = "tool" THEN {0} ELSE Bound) : Reserve(o, r, kind, n, outcome)
  \/ \E o \in Owner, r \in Res, outcome \in Outcome :
       \/ Commit(o, r, outcome)
       \/ Release(o, r, outcome)
       \/ \E actual \in 0 .. call[r].bound + 1 : Settle(o, r, actual, outcome)
  \/ \E o \in Owner, outcome \in Outcome :
       \E x \in {Use(1, 0, 0), Use(0, 1, 0)} \cup {Use(0, 0, n) : n \in Bound} :
         Record(o, x, outcome)
  \/ \E r \in Res : Drop(r)
  \/ Tick \/ SetBack

BudgetSpec == BudgetInit /\ [][BudgetNext]_vars

-----------------------------------------------------------------------------
(* Properties. *)

InForce(o) == ctl[o].bound /\ ~ctl[o].failed

\* Whatever was granted through a bound controller, and was neither proven not
\* to have executed nor settled for less, is charged in the journal: across
\* crashes, replaced owners, lost acknowledgements and rolled-back writes.
\* A replacement process (DurableBudgetLedger._bind_accounts) therefore never
\* starts with more budget than is really left, and all owners together never
\* hold more than the pinned limits of either account
\* (BudgetController.reserve_model_usage, reserve_tool_usage).
JournalCoversSpending ==
  Fresh \/ \A a \in Account : /\ Covers(head[a].use, owed[a])
                             /\ Covers(Limit[a], head[a].use)

\* The live controllers that are still current agree with the journal, to the
\* last counter: no phantom charge after a refusal of the dedicated account
\* (DualModelUsageBudget.reserve_model_usage) and no lost one after a failed
\* transaction (DurableBudgetLedger.change).  In every process that is not
\* fenced the active reservations are exactly the handles callers still hold:
\* a dual handle is active on both accounts or on neither, and a held handle
\* can always be finished.
MemoryIsJournal ==
  \A o \in Owner, a \in Account :
    /\ InForce(o) /\ head[a].owner = o => ctl[o].mem[a] = head[a].use
    /\ ctl[o].up /\ ~ctl[o].failed =>
         ctl[o].live[a] =
           {r \in Res : call[r].owner = o /\ ~call[r].done /\ a \in AccountsOf(call[r].kind)}

\* A restart does not refill the duration: the elapsed time of the current
\* owner is at least what the journal says, and at least the time since the
\* first binding, downtime included, unless the wall clock was set back
\* (_prepare_binding, elapsed = max(saved, now - origin)).
DurationNotRefilled ==
  \A o \in Owner, a \in Account :
    InForce(o) /\ head[a].owner = o =>
      /\ Elapsed(ctl[o], a) >= head[a].elapsed
      /\ clock.steps = 0 => Elapsed(ctl[o], a) >= clock.wall - head[a].origin

=============================================================================
