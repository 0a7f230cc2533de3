------------------------ MODULE SupervisorInvocation ------------------------
(***************************************************************************)
(* One Supervisor model call per graph checkpoint                          *)
(* (src/pajin/supervision): the checkpoint scheduler, the invocation       *)
(* journal (SQLite, one write transaction per operation) and the runtime   *)
(* that dispatches the call, seals its evidence in a Run directory and     *)
(* turns the sealed receipt into a proposal.                               *)
(*                                                                         *)
(* A process runs one invocation at a time.  Between two of its steps any  *)
(* other process may use the journal or the Run, the graph may get a newer *)
(* snapshot, and the process may die; a restarted process has lost its     *)
(* scheduler.  Digests are compared, never computed: a publication is the  *)
(* record of what it binds, a final root is the number of the provider     *)
(* call its receipt reports.  The journal reads the wall clock of its host *)
(* when a dispatch begins and when it is finalized, and may read it lower  *)
(* the second time.                                                        *)
(***************************************************************************)
EXTENDS Naturals, FiniteSets

CONSTANTS
  Proc,           \* processes with a scheduler and an invocation runtime
  MaxHead,        \* bound: graph snapshots that become the head
  MaxModelCalls,  \* max_model_calls of the dedicated budget policy
  WallTimes,      \* what a journal's clock may show
  MaxPubs,        \* bound: schedules ever sealed
  MaxCrashes      \* bound: process deaths

ASSUME InvocationAssumption ==
  /\ Proc # {}
  /\ MaxHead \in Nat \ {0}
  /\ WallTimes \subseteq Nat
  /\ MaxModelCalls \in Nat /\ MaxPubs \in Nat /\ MaxCrashes \in Nat

VARIABLES
  graphHead, \* the snapshot the graph store has as its head
  pubs,      \* sealed schedule publications
  memo,      \* [Proc -> the publications its scheduler remembers]
  owner,     \* the process whose budget controllers are bound
  intent,    \* [Keys -> the journal row of the checkpoint]
  store,     \* [Keys -> the provider Run of the checkpoint]
  pc,        \* [Proc -> where its invocation stands]
  calls,     \* history: provider calls made per checkpoint
  proposals, \* history: what invocations returned
  crashes

supVars == <<graphHead, pubs, memo, owner, intent, store, pc, calls, proposals, crashes>>

\* A checkpoint is the graph snapshot it was taken at, in the order they become the head.
Keys == 1 .. MaxHead

NoProc == "no process"
NoPub == [key |-> 0, run |-> 0, index |-> 0]
NoIntent == [state |-> "none", pub |-> NoPub, begun |-> 0, startedAt |-> 0, root |-> 0]
IdleProc == [at |-> "idle", pub |-> NoPub, entry |-> NoIntent]

IntentStates == {"none", "intent-recorded", "dispatch-started-outcome-unknown", "terminal-success"}
StoreStages == {"none", "created", "requested", "answered", "evidence", "receipt", "sealed"}
Steps == {"idle", "read", "bind", "claim", "begin", "create", "send", "answer", "evidence",
          "receipt", "seal", "recover", "finalize", "load", "consume"}

SupInit ==
  /\ graphHead = 1
  /\ pubs = {}
  /\ memo = [p \in Proc |-> {}]
  /\ owner = NoProc
  /\ intent = [k \in Keys |-> NoIntent]
  /\ store = [k \in Keys |-> [stage |-> "none", pub |-> NoPub, begun |-> 0, root |-> 0]]
  /\ pc = [p \in Proc |-> IdleProc]
  /\ calls = [k \in Keys |-> 0]
  /\ proposals = {}
  /\ crashes = 0

KeyOf(p) == pc[p].pub.key
Goes(p, step) == pc' = [pc EXCEPT ![p].at = step]
GoesWith(p, step, e) == pc' = [pc EXCEPT ![p].at = step, ![p].entry = e]
FailsClosed(p) == pc' = [pc EXCEPT ![p] = IdleProc]

-----------------------------------------------------------------------------
(* The graph and the scheduler. *)

\* The graph store publishes a newer snapshot; a Supervisor holding the old one is stale.
Advance ==
  /\ graphHead + 1 \in Keys
  /\ graphHead' = graphHead + 1
  /\ UNCHANGED <<pubs, memo, owner, intent, store, pc, calls, proposals, crashes>>

\* A scheduler seals one Run per checkpoint it does not remember.  It counts its own calls only.
Schedule(p) ==
  /\ pc[p].at = "idle"
  /\ \A b \in memo[p] : b.key # graphHead
  /\ Cardinality(memo[p]) < MaxModelCalls
  /\ Cardinality(pubs) < MaxPubs
  /\ LET b == [key |-> graphHead, run |-> Cardinality(pubs) + 1, index |-> Cardinality(memo[p]) + 1]
     IN /\ pubs' = pubs \cup {b}
        /\ memo' = [memo EXCEPT ![p] = @ \cup {b}]
  /\ UNCHANGED <<graphHead, owner, intent, store, pc, calls, proposals, crashes>>

-----------------------------------------------------------------------------
(* invoke: admission. *)

\* A publication is admitted while its sealed Run holds it and its snapshot is the head.
VerifiedPublication(b) == b \in pubs /\ b.key = graphHead

\* The schedule is verified against the graph head; a stale one is refused and changes nothing.
Invoke(p, b) ==
  /\ pc[p].at = "idle"
  /\ VerifiedPublication(b)
  /\ pc' = [pc EXCEPT ![p] = [at |-> "read", pub |-> b, entry |-> NoIntent]]
  /\ UNCHANGED <<graphHead, pubs, memo, owner, intent, store, calls, proposals, crashes>>

\* A plain read decides whether the budgets are bound; the claim comes in a later transaction.
CheckpointEntry(p) ==
  /\ pc[p].at = "read"
  /\ IF intent[KeyOf(p)].state \in {"none", "intent-recorded"} THEN Goes(p, "bind")
                                                               ELSE Goes(p, "claim")
  /\ UNCHANGED <<graphHead, pubs, memo, owner, intent, store, calls, proposals, crashes>>

\* The last process to bind its controllers owns the budget journal.
BindBudgets(p) ==
  /\ pc[p].at = "bind"
  /\ owner' = p
  /\ Goes(p, "claim")
  /\ UNCHANGED <<graphHead, pubs, memo, intent, store, calls, proposals, crashes>>

AnyPublicationWillDo(row, b) == row.pub.key = b.key

RequireExactPublication(row, b) == row.pub = b

StepFor(state) ==
  CASE state = "intent-recorded" -> "begin"
    [] state = "dispatch-started-outcome-unknown" -> "recover"
    [] state = "terminal-success" -> "load"

Claim(p) ==
  LET k == KeyOf(p)
      row == intent[k]
  IN
  /\ pc[p].at = "claim"
  /\ \/ /\ row.state = "none"
        /\ LET new == [NoIntent EXCEPT !.state = "intent-recorded", !.pub = pc[p].pub]
           IN /\ intent' = [intent EXCEPT ![k] = new]
              /\ GoesWith(p, "begin", new)
     \/ /\ row.state # "none"
        /\ RequireExactPublication(row, pc[p].pub)
        /\ GoesWith(p, StepFor(row.state), row)
        /\ UNCHANGED intent
     \/ /\ row.state # "none"
        /\ ~RequireExactPublication(row, pc[p].pub)
        /\ FailsClosed(p)
        /\ UNCHANGED intent
  /\ UNCHANGED <<graphHead, pubs, memo, owner, store, calls, proposals, crashes>>

-----------------------------------------------------------------------------
(* _dispatch_once: the one provider call of the checkpoint. *)

\* The row once its dispatch began at time t; `begun' stands for the event digest.
StartedRow(row, t) ==
  [row EXCEPT !.state = "dispatch-started-outcome-unknown", !.begun = @ + 1, !.startedAt = t]

BeginDispatchAgain(p) ==
  LET k == KeyOf(p)
  IN
  /\ pc[p].at = "begin"
  /\ IF intent[k].state # "terminal-success"
       THEN \E t \in WallTimes :
              /\ intent' = [intent EXCEPT ![k] = StartedRow(@, t)]
              /\ GoesWith(p, "create", StartedRow(intent[k], t))
       ELSE FailsClosed(p) /\ UNCHANGED intent
  /\ UNCHANGED <<graphHead, pubs, memo, owner, store, calls, proposals, crashes>>

\* The transaction that consumes the dispatch authority and keeps when it did.
BeginDispatch(p) ==
  LET k == KeyOf(p)
  IN
  /\ pc[p].at = "begin"
  /\ IF intent[k].state = "intent-recorded" /\ intent[k] = pc[p].entry
       THEN \E t \in WallTimes :
              /\ intent' = [intent EXCEPT ![k] = StartedRow(@, t)]
              /\ GoesWith(p, "create", StartedRow(intent[k], t))
       ELSE FailsClosed(p) /\ UNCHANGED intent
  /\ UNCHANGED <<graphHead, pubs, memo, owner, store, calls, proposals, crashes>>

\* RunStore.create refuses a directory that exists.
CreateRun(p) ==
  /\ pc[p].at = "create"
  /\ IF store[KeyOf(p)].stage = "none"
       THEN store' = [store EXCEPT ![KeyOf(p)].stage = "created"] /\ Goes(p, "send")
       ELSE FailsClosed(p) /\ UNCHANGED store
  /\ UNCHANGED <<graphHead, pubs, memo, owner, intent, calls, proposals, crashes>>

\* chat_bound reserves in both budgets, which only their owner can, and sends the request.
SendChat(p) ==
  LET k == KeyOf(p)
  IN
  /\ pc[p].at = "send"
  /\ IF owner = p
       THEN /\ calls' = [calls EXCEPT ![k] = @ + 1]
            /\ store' = [store EXCEPT ![k].stage = "requested"]
            /\ Goes(p, "answer")
       ELSE FailsClosed(p) /\ UNCHANGED <<calls, store>>
  /\ UNCHANGED <<graphHead, pubs, memo, owner, intent, proposals, crashes>>

\* The answer is settled and kept as evidence.  It may not come, be denied, or be cancelled.
ReceiveAnswer(p) ==
  /\ pc[p].at = "answer"
  /\ \/ /\ owner = p
        /\ store' = [store EXCEPT ![KeyOf(p)].stage = "answered"]
        /\ Goes(p, "evidence")
     \/ FailsClosed(p) /\ UNCHANGED store
  /\ UNCHANGED <<graphHead, pubs, memo, owner, intent, calls, proposals, crashes>>

\* The first seal; then the draft is parsed, and an answer that is no draft ends the attempt.
SealEvidence(p) ==
  /\ pc[p].at = "evidence"
  /\ store' = [store EXCEPT ![KeyOf(p)].stage = "evidence"]
  /\ Goes(p, "receipt") \/ FailsClosed(p)
  /\ UNCHANGED <<graphHead, pubs, memo, owner, intent, calls, proposals, crashes>>

\* The receipt binds the schedule, the dispatch event and the evidence of this call.
WriteReceipt(p) ==
  LET k == KeyOf(p)
  IN
  /\ pc[p].at = "receipt"
  /\ store' = [store EXCEPT ![k] = [stage |-> "receipt", pub |-> pc[p].pub,
                                    begun |-> pc[p].entry.begun, root |-> calls[k]]]
  /\ Goes(p, "seal")
  /\ UNCHANGED <<graphHead, pubs, memo, owner, intent, calls, proposals, crashes>>

SealReceipt(p) ==
  /\ pc[p].at = "seal"
  /\ store' = [store EXCEPT ![KeyOf(p)].stage = "sealed"]
  /\ Goes(p, "finalize")
  /\ UNCHANGED <<graphHead, pubs, memo, owner, intent, calls, proposals, crashes>>

-----------------------------------------------------------------------------
(* Recovery, finalization and the proposal. *)

\* Two seals, three artifacts, and a receipt of this schedule and this dispatch.
VerifyInvocationRun(r, b, e) ==
  /\ r.stage = "sealed"
  /\ r.pub = b
  /\ r.begun = e.begun

RecoverResends(p) ==
  /\ pc[p].at = "recover"
  /\ IF VerifyInvocationRun(store[KeyOf(p)], pc[p].pub, pc[p].entry)
       THEN Goes(p, "finalize")
       ELSE Goes(p, "send")
  /\ UNCHANGED <<graphHead, pubs, memo, owner, intent, store, calls, proposals, crashes>>

\* An uncertain call is never repeated: recovery reads the sealed receipt or fails.
RecoverTerminal(p) ==
  /\ pc[p].at = "recover"
  /\ IF VerifyInvocationRun(store[KeyOf(p)], pc[p].pub, pc[p].entry)
       THEN Goes(p, "finalize")
       ELSE FailsClosed(p)
  /\ UNCHANGED <<graphHead, pubs, memo, owner, intent, store, calls, proposals, crashes>>

FinalEntryUnchanged(row, e, root) ==
  row = e /\ row.state = "terminal-success" /\ row.root = root

AlreadyFinal(row, e, root) == row.pub = e.pub /\ row.state = "terminal-success" /\ row.root = root

\* A row that would end before its dispatch began is no journal entry: the update is rolled back.
MayFinalize(row, e, t) ==
  /\ row.state = "dispatch-started-outcome-unknown"
  /\ row = e
  /\ row.startedAt <= t

\* What finalize_success at time t does with the invocation of p: it answers the same
\* receipt again, settles the row, or refuses.
FinalizationOutcome(p, t) ==
  LET k == KeyOf(p)
  IN  CASE AlreadyFinal(intent[k], pc[p].entry, store[k].root) -> "answered"
        [] ~AlreadyFinal(intent[k], pc[p].entry, store[k].root)
             /\ MayFinalize(intent[k], pc[p].entry, t) -> "settled"
        [] OTHER -> "refused"

\* A refusal changes nothing: the invocation fails and the row stays as it is.
FinalizeSuccess(p, t) ==
  LET k == KeyOf(p)
      final == [intent[k] EXCEPT !.state = "terminal-success", !.root = store[k].root]
      outcome == FinalizationOutcome(p, t)
  IN
  /\ pc[p].at = "finalize"
  /\ \/ /\ outcome = "answered"
        /\ GoesWith(p, "consume", intent[k])
        /\ UNCHANGED intent
     \/ /\ outcome = "settled"
        /\ intent' = [intent EXCEPT ![k] = final]
        /\ GoesWith(p, "consume", final)
     \/ /\ outcome = "refused"
        /\ FailsClosed(p)
        /\ UNCHANGED intent
  /\ UNCHANGED <<graphHead, pubs, memo, owner, store, calls, proposals, crashes>>

LoadTerminal(p) ==
  /\ pc[p].at = "load"
  /\ IF store[KeyOf(p)].stage = "sealed" /\ store[KeyOf(p)].root = pc[p].entry.root
       THEN Goes(p, "consume")
       ELSE FailsClosed(p)
  /\ UNCHANGED <<graphHead, pubs, memo, owner, intent, store, calls, proposals, crashes>>

\* The journal row, the head and the sealed Run are read again before the draft is admitted.
ConsumeInvocation(p) ==
  LET k == KeyOf(p)
      e == pc[p].entry
  IN
  /\ pc[p].at = "consume"
  /\ IF /\ intent[k] = e /\ e.state = "terminal-success"
        /\ VerifiedPublication(pc[p].pub)
        /\ VerifyInvocationRun(store[k], pc[p].pub, e) /\ store[k].root = e.root
       THEN proposals' = proposals \cup {[pub |-> pc[p].pub, root |-> e.root]}
       ELSE UNCHANGED proposals
  /\ FailsClosed(p)
  /\ UNCHANGED <<graphHead, pubs, memo, owner, intent, store, calls, crashes>>

-----------------------------------------------------------------------------
\* A process dies and is started again: its scheduler and its controllers are new.
CrashProcess(p) ==
  /\ crashes < MaxCrashes
  /\ crashes' = crashes + 1
  /\ pc' = [pc EXCEPT ![p] = IdleProc]
  /\ memo' = [memo EXCEPT ![p] = {}]
  /\ owner' = IF owner = p THEN NoProc ELSE owner
  /\ UNCHANGED <<graphHead, pubs, intent, store, calls, proposals>>

InvocationStep(p) ==
  \/ CheckpointEntry(p) \/ BindBudgets(p) \/ Claim(p)
  \/ BeginDispatch(p) \/ CreateRun(p) \/ SendChat(p) \/ ReceiveAnswer(p)
  \/ SealEvidence(p) \/ WriteReceipt(p) \/ SealReceipt(p)
  \/ RecoverTerminal(p) \/ LoadTerminal(p) \/ ConsumeInvocation(p)
  \/ \E t \in WallTimes : FinalizeSuccess(p, t)

SupNext ==
  \/ Advance
  \/ \E p \in Proc : \/ Schedule(p)
                     \/ \E b \in pubs : Invoke(p, b)
                     \/ InvocationStep(p)
                     \/ CrashProcess(p)

SupSpec == SupInit /\ [][SupNext]_supVars

-----------------------------------------------------------------------------
(* Properties. *)

Spent(k) == CASE intent[k].state \in {"none", "intent-recorded"} -> "free"
              [] intent[k].state = "dispatch-started-outcome-unknown" -> "spent"
              [] intent[k].state = "terminal-success" -> "settled"

Single == INSTANCE SingleUseAuthority WITH
  NoResult <- 0,
  stage <- [k \in Keys |-> Spent(k)],
  effects <- calls,
  result <- [k \in Keys |-> intent[k].root]

(* However processes race, die and retry, a checkpoint is dispatched once: the   *)
(* provider is called at most once, only after the dispatch was recorded, and    *)
(* the journal is settled for good with the receipt of that call                 *)
(* (begin_dispatch: "a retry never receives dispatch authority").                *)
ImplementsSingleUse == Single!Spec

(* A sealed provider Run is one the journal can be settled with: its receipt     *)
(* names the publication and the dispatch event of the intent, so whoever comes  *)
(* back after a crash between the second seal and finalize_success recovers the  *)
(* paid answer, and a settled intent names that receipt.                         *)
SealedResultMatchesIntent ==
  \A k \in Keys : store[k].stage = "sealed" =>
    /\ intent[k].state \in {"dispatch-started-outcome-unknown", "terminal-success"}
    /\ VerifyInvocationRun(store[k], intent[k].pub, intent[k])
    /\ intent[k].state = "terminal-success" => intent[k].root = store[k].root

(* The dispatcher and a process that recovers its Run may both reach             *)
(* finalize_success.  Whichever is second is answered with the receipt the first *)
(* one settled, whatever its clock shows; the first is refused only when its     *)
(* clock is behind the time the dispatch was recorded at, and then the row still *)
(* is the one it read, so that a later recovery settles it.                      *)
RefusedOnlyByClock ==
  \A p \in Proc, t \in WallTimes :
    pc[p].at = "finalize" /\ FinalizationOutcome(p, t) = "refused" =>
      /\ intent[KeyOf(p)] = pc[p].entry
      /\ t < intent[KeyOf(p)].startedAt

(* Every proposal of a checkpoint that invocations return, to whichever process, *)
(* is the one draft of the one settled call, under the one publication it was    *)
(* scheduled by, although restarted schedulers seal schedules of their own.      *)
OneProposalPerCheckpoint ==
  \A x \in proposals :
    /\ intent[x.pub.key].state = "terminal-success"
    /\ intent[x.pub.key].pub = x.pub
    /\ intent[x.pub.key].root = x.root

=============================================================================
