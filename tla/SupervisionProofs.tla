--------------------------- MODULE SupervisionProofs ---------------------------
(***************************************************************************)
(* The two journals behind the agents.  SupervisorInvocation: one dispatch *)
(* per checkpoint, for any number of processes, checkpoints, schedules and *)
(* crashes; it implements SingleUseAuthority.  AgenticCoordination, for    *)
(* any number of coordinators, deliverers, sessions and commands and any   *)
(* limits: the outbox holds the commands of the head, agents admit in      *)
(* order, a session works on one assignment, and events are backed by      *)
(* deliveries.                                                             *)
(***************************************************************************)
EXTENDS SupervisorInvocation, AgenticCoordination, FiniteSetTheorems, TLAPS

\* The prover of a step that names no other.
USE ZenonT(40)

-----------------------------------------------------------------------------
(* SupervisorInvocation.  The types come first, with what the small steps the
   actions share do to a process and to a provider Run. *)

Pub == [key : Nat, run : Nat, index : Nat]
Row == [state : IntentStates, pub : Pub, begun : Nat, startedAt : Nat, root : Nat]
Run == [stage : StoreStages, pub : Pub, begun : Nat, root : Nat]

\* The types, and that the sets the scheduler counts are finite.
SupTypeOK ==
  /\ graphHead \in Keys
  /\ pubs \subseteq Pub /\ IsFiniteSet(pubs)
  /\ \A b \in pubs : b.key \in Keys
  /\ memo \in [Proc -> SUBSET Pub]
  /\ \A p \in Proc : IsFiniteSet(memo[p])
  /\ intent \in [Keys -> Row]
  /\ store \in [Keys -> Run]
  /\ pc \in [Proc -> [at : Steps, pub : Pub, entry : Row]]
  /\ \A p \in Proc : pc[p].at # "idle" => KeyOf(p) \in Keys
  /\ calls \in [Keys -> Nat]

Started == "dispatch-started-outcome-unknown"

\* The constants of a journal row are well typed (invocation_journal.py).
LEMMA IdleTyped == IdleProc \in [at : Steps, pub : Pub, entry : Row] /\ NoIntent \in Row
  BY DEF IdleProc, NoIntent, NoPub, Pub, Row, Steps, IntentStates

PcType == [at : Steps, pub : Pub, entry : Row]

\* What a process that goes on to its next step keeps.
LEMMA Going ==
  ASSUME NEW p \in Proc, NEW s \in Steps, pc \in [Proc -> PcType], Goes(p, s)
  PROVE  /\ pc' \in [Proc -> PcType]
         /\ pc'[p].at = s /\ pc'[p].pub = pc[p].pub /\ pc'[p].entry = pc[p].entry
         /\ \A q \in Proc \ {p} : pc'[q] = pc[q]
  BY DEF Goes, PcType

\* What a process that goes on with a row it read, or wrote, keeps.
LEMMA GoingWith ==
  ASSUME NEW p \in Proc, NEW s \in Steps, NEW e \in Row, pc \in [Proc -> PcType], GoesWith(p, s, e)
  PROVE  /\ pc' \in [Proc -> PcType]
         /\ pc'[p].at = s /\ pc'[p].pub = pc[p].pub /\ pc'[p].entry = e
         /\ \A q \in Proc \ {p} : pc'[q] = pc[q]
  BY DEF GoesWith, PcType

\* A process that fails closed, or dies, is idle again.
LEMMA Failing ==
  ASSUME NEW p \in Proc, pc \in [Proc -> PcType], pc' = [pc EXCEPT ![p] = IdleProc]
  PROVE  /\ pc' \in [Proc -> PcType]
         /\ pc'[p].at = "idle"
         /\ \A q \in Proc \ {p} : pc'[q] = pc[q]
  BY IdleTyped DEF IdleProc, PcType

\* What writing the next file into a provider Run keeps.
LEMMA Staging ==
  ASSUME NEW k \in Keys, NEW s \in StoreStages, store \in [Keys -> Run],
         store' = [store EXCEPT ![k].stage = s]
  PROVE  /\ store' \in [Keys -> Run]
         /\ store'[k].stage = s /\ store'[k].pub = store[k].pub
         /\ store'[k].begun = store[k].begun /\ store'[k].root = store[k].root
         /\ \A j \in Keys \ {k} : store'[j] = store[j]
  BY DEF Run

\* The names of steps and stages.
LEMMA Names ==
  /\ {"idle", "read", "bind", "claim", "begin", "create", "send", "answer", "evidence",
      "receipt", "seal", "recover", "finalize", "load", "consume"} \subseteq Steps
  /\ {"created", "requested", "answered", "evidence", "receipt", "sealed"} \subseteq StoreStages
  BY DEF Steps, StoreStages

\* The row a dispatch begins with.
LEMMA StartedRowIs ==
  ASSUME NEW row \in Row, NEW t \in WallTimes
  PROVE  /\ StartedRow(row, t) \in Row
         /\ StartedRow(row, t).state = Started /\ StartedRow(row, t).begun = row.begun + 1
         /\ StartedRow(row, t).pub = row.pub /\ StartedRow(row, t).root = row.root
<1> DEFINE n == row.begun + 1
<1>1. n \in Nat /\ t \in Nat /\ Started \in IntentStates
  BY InvocationAssumption, SMT DEF Row, Started, IntentStates
<1>2. StartedRow(row, t) = [row EXCEPT !.state = Started, !.begun = n, !.startedAt = t]
  BY DEF StartedRow, Started
<1> HIDE DEF n
<1>3. /\ StartedRow(row, t) \in Row
      /\ StartedRow(row, t).state = Started /\ StartedRow(row, t).begun = n
      /\ StartedRow(row, t).pub = row.pub /\ StartedRow(row, t).root = row.root
  BY <1>1, <1>2 DEF Row
<1> QED
  BY <1>3 DEF n

\* The two outcomes of begin_dispatch.
LEMMA BeginDoes ==
  ASSUME NEW p \in Proc, BeginDispatch(p)
  PROVE  \/ FailsClosed(p) /\ UNCHANGED intent
         \/ \E t \in WallTimes :
              /\ intent[KeyOf(p)].state = "intent-recorded" /\ intent[KeyOf(p)] = pc[p].entry
              /\ intent' = [intent EXCEPT ![KeyOf(p)] = StartedRow(intent[KeyOf(p)], t)]
              /\ GoesWith(p, "create", StartedRow(intent[KeyOf(p)], t))
  BY DEF BeginDispatch

\* The three outcomes of finalize_success, whatever its clock shows.
LEMMA FinalizeDoes ==
  ASSUME NEW p \in Proc, NEW t \in WallTimes, FinalizeSuccess(p, t)
  PROVE  \/ FailsClosed(p) /\ UNCHANGED intent
         \/ /\ intent[KeyOf(p)].state = "terminal-success"
            /\ GoesWith(p, "consume", intent[KeyOf(p)]) /\ UNCHANGED intent
         \/ LET final == [intent[KeyOf(p)] EXCEPT !.state = "terminal-success",
                                                  !.root = store[KeyOf(p)].root]
            IN  /\ intent[KeyOf(p)].state = Started
                /\ intent' = [intent EXCEPT ![KeyOf(p)] = final]
                /\ GoesWith(p, "consume", final)
<1>1. /\ FinalizationOutcome(p, t) = "answered" => intent[KeyOf(p)].state = "terminal-success"
      /\ FinalizationOutcome(p, t) = "settled" => intent[KeyOf(p)].state = Started
  BY DEF FinalizationOutcome, AlreadyFinal, MayFinalize, Started
<1> QED
  BY <1>1 DEF FinalizeSuccess

\* The initial rows are well typed.
LEMMA TypeInit == SupInit => SupTypeOK
<1> SUFFICES ASSUME SupInit PROVE SupTypeOK
  OBVIOUS
<1>1. IsFiniteSet({})
  BY FS_EmptySet
<1>2. 1 \in Keys
  BY InvocationAssumption, SMT DEF Keys
<1>3. store \in [Keys -> Run]
  BY DEF SupInit, Run, StoreStages, NoPub, Pub
<1> QED
  BY <1>1, <1>2, <1>3, IdleTyped DEF SupInit, SupTypeOK, IdleProc, KeyOf

\* Every step of every process keeps the types: a scheduler's publication is
\* numbered, and an invocation only carries rows it read.
LEMMA TypeStep == SupTypeOK /\ [SupNext]_supVars => SupTypeOK'
<1> SUFFICES ASSUME SupTypeOK, [SupNext]_supVars PROVE SupTypeOK'
  OBVIOUS
<1>0. /\ pc \in [Proc -> PcType] /\ store \in [Keys -> Run] /\ intent \in [Keys -> Row]
      /\ \A p \in Proc : pc[p].at # "idle" => KeyOf(p) \in Keys
  BY DEF SupTypeOK, PcType
<1> DEFINE PcOK(p) == /\ pc' \in [Proc -> PcType]
                      /\ pc'[p].at # "idle" => pc'[p].pub = pc[p].pub
                      /\ \A q \in Proc \ {p} : pc'[q] = pc[q]
<1>1. ASSUME NEW p \in Proc, pc[p].at # "idle", PcOK(p), UNCHANGED <<graphHead, pubs, memo>>,
             store' \in [Keys -> Run], intent' \in [Keys -> Row], calls' \in [Keys -> Nat]
      PROVE  SupTypeOK'
  BY <1>1, <1>0 DEF SupTypeOK, KeyOf, PcType
<1>2. ASSUME NEW p \in Proc, NEW s \in Steps, Goes(p, s) PROVE PcOK(p)
  BY <1>2, <1>0, Going, Names
<1>3. ASSUME NEW p \in Proc, NEW s \in Steps, NEW e \in Row, GoesWith(p, s, e) PROVE PcOK(p)
  BY <1>3, <1>0, GoingWith, Names
<1>4. ASSUME NEW p \in Proc, FailsClosed(p) PROVE PcOK(p)
  BY <1>4, <1>0, Failing DEF FailsClosed
<1> HIDE DEF PcOK
<1>5. CASE UNCHANGED supVars
  BY <1>5 DEF supVars, SupTypeOK, KeyOf
<1>6. CASE Advance
  BY <1>6 DEF Advance, SupTypeOK, KeyOf
<1>7. ASSUME NEW p \in Proc, Schedule(p) PROVE SupTypeOK'
  <2> DEFINE b == [key |-> graphHead, run |-> Cardinality(pubs) + 1, index |-> Cardinality(memo[p]) + 1]
  <2>1. Cardinality(pubs) \in Nat /\ Cardinality(memo[p]) \in Nat
    BY FS_CardinalityType DEF SupTypeOK
  <2>2. graphHead \in Nat /\ graphHead \in Keys
    BY InvocationAssumption, SMT DEF SupTypeOK, Keys
  <2>3. b \in Pub /\ b.key \in Keys
    BY <2>1, <2>2, SMT DEF Pub
  <2>4. pubs' = pubs \cup {b} /\ memo' = [memo EXCEPT ![p] = memo[p] \cup {b}]
    BY <1>7 DEF Schedule
  <2> HIDE DEF b
  <2>5. IsFiniteSet(pubs') /\ IsFiniteSet(memo[p] \cup {b})
    BY <2>4, FS_AddElement DEF SupTypeOK
  <2>6. memo' \in [Proc -> SUBSET Pub] /\ \A q \in Proc : IsFiniteSet(memo'[q])
    BY <2>3, <2>4, <2>5 DEF SupTypeOK
  <2>7. pubs' \subseteq Pub /\ \A c \in pubs' : c.key \in Keys
    BY <2>3, <2>4 DEF SupTypeOK
  <2> QED
    BY <1>7, <2>5, <2>6, <2>7 DEF Schedule, SupTypeOK, KeyOf
<1>8. ASSUME NEW p \in Proc, NEW b \in pubs, Invoke(p, b) PROVE SupTypeOK'
  <2> DEFINE new == [at |-> "read", pub |-> b, entry |-> NoIntent]
  <2>1. new \in PcType /\ new.pub.key \in Keys
    BY IdleTyped, Names DEF PcType, SupTypeOK
  <2>2. pc' = [pc EXCEPT ![p] = new]
    BY <1>8 DEF Invoke
  <2> HIDE DEF new
  <2>3. pc' \in [Proc -> PcType] /\ \A q \in Proc : pc'[q].at # "idle" => pc'[q].pub.key \in Keys
    BY <1>0, <2>1, <2>2 DEF KeyOf
  <2> QED
    BY <1>8, <2>3 DEF Invoke, SupTypeOK, KeyOf, PcType
<1>9. ASSUME NEW p \in Proc, CheckpointEntry(p) PROVE SupTypeOK'
  BY <1>0, <1>1, <1>2, <1>9, Names DEF CheckpointEntry, SupTypeOK
<1>10. ASSUME NEW p \in Proc, BindBudgets(p) PROVE SupTypeOK'
  BY <1>0, <1>1, <1>2, <1>10, Names DEF BindBudgets, SupTypeOK
<1>11. ASSUME NEW p \in Proc, Claim(p) PROVE SupTypeOK'
  <2>1. KeyOf(p) \in Keys /\ pc[p].pub \in Pub
    BY <1>0, <1>11 DEF Claim, PcType
  <2>2. CASE intent[KeyOf(p)].state = "none"
    <3> DEFINE new == [NoIntent EXCEPT !.state = "intent-recorded", !.pub = pc[p].pub]
    <3>1. new \in Row
      BY <2>1 DEF NoIntent, NoPub, Row, Pub, IntentStates
    <3>2. intent' = [intent EXCEPT ![KeyOf(p)] = new] /\ GoesWith(p, "begin", new)
      BY <1>11, <2>2 DEF Claim
    <3> HIDE DEF new
    <3>3. PcOK(p) /\ intent' \in [Keys -> Row]
      BY <1>0, <1>3, <2>1, <3>1, <3>2, Names
    <3> QED
      BY <1>0, <1>1, <1>11, <3>3 DEF Claim, SupTypeOK
  <2>3. CASE intent[KeyOf(p)].state # "none"
    <3>1. StepFor(intent[KeyOf(p)].state) \in Steps /\ intent[KeyOf(p)] \in Row
      BY <1>0, <2>1, <2>3 DEF StepFor, Row, IntentStates, Steps
    <3>2. \/ GoesWith(p, StepFor(intent[KeyOf(p)].state), intent[KeyOf(p)]) /\ UNCHANGED intent
          \/ FailsClosed(p) /\ UNCHANGED intent
      BY <1>11, <2>3 DEF Claim
    <3>3. PcOK(p)
      BY <1>3, <1>4, <3>1, <3>2, Names
    <3> QED
      BY <1>0, <1>1, <1>11, <3>2, <3>3 DEF Claim, SupTypeOK
  <2> QED
    BY <2>2, <2>3
<1>12. ASSUME NEW p \in Proc, BeginDispatch(p) PROVE SupTypeOK'
  <2>1. KeyOf(p) \in Keys /\ intent[KeyOf(p)] \in Row
    BY <1>0, <1>12 DEF BeginDispatch
  <2>2. CASE FailsClosed(p) /\ UNCHANGED intent
    BY <1>0, <1>1, <1>4, <1>12, <2>2 DEF BeginDispatch, SupTypeOK
  <2>3. ASSUME NEW row \in Row, intent' = [intent EXCEPT ![KeyOf(p)] = row], GoesWith(p, "create", row)
        PROVE  SupTypeOK'
    <3>1. PcOK(p) /\ intent' \in [Keys -> Row]
      BY <1>0, <1>3, <2>1, <2>3, Names
    <3> QED
      BY <1>0, <1>1, <1>12, <3>1 DEF BeginDispatch, SupTypeOK
  <2> QED
    BY <1>12, <2>1, <2>2, <2>3, BeginDoes, StartedRowIs
<1>13. ASSUME NEW p \in Proc, CreateRun(p) PROVE SupTypeOK'
  BY <1>0, <1>1, <1>2, <1>4, <1>13, Staging, Names DEF CreateRun, SupTypeOK
<1>14. ASSUME NEW p \in Proc, SendChat(p) PROVE SupTypeOK'
  <2>1. KeyOf(p) \in Keys /\ calls[KeyOf(p)] + 1 \in Nat
    BY <1>0, <1>14, SMT DEF SendChat, SupTypeOK
  <2>2. calls' \in [Keys -> Nat]
    BY <1>14, <2>1 DEF SendChat, SupTypeOK
  <2> QED
    BY <1>0, <1>1, <1>2, <1>4, <1>14, <2>1, <2>2, Staging, Names DEF SendChat
<1>15. ASSUME NEW p \in Proc, ReceiveAnswer(p) PROVE SupTypeOK'
  BY <1>0, <1>1, <1>2, <1>4, <1>15, Staging, Names DEF ReceiveAnswer, SupTypeOK
<1>16. ASSUME NEW p \in Proc, SealEvidence(p) PROVE SupTypeOK'
  BY <1>0, <1>1, <1>2, <1>4, <1>16, Staging, Names, ZenonT(30) DEF SealEvidence, SupTypeOK
<1>17. ASSUME NEW p \in Proc, WriteReceipt(p) PROVE SupTypeOK'
  <2> DEFINE r == [stage |-> "receipt", pub |-> pc[p].pub,
                   begun |-> pc[p].entry.begun, root |-> calls[KeyOf(p)]]
  <2>1. KeyOf(p) \in Keys
    BY <1>0, <1>17 DEF WriteReceipt
  <2>2. r \in Run
    BY <1>0, <2>1, Names DEF PcType, Row, Run, SupTypeOK
  <2>3. store' = [store EXCEPT ![KeyOf(p)] = r]
    BY <1>17 DEF WriteReceipt
  <2> HIDE DEF r
  <2>4. store' \in [Keys -> Run]
    BY <1>0, <2>2, <2>3
  <2> QED
    BY <1>0, <1>1, <1>2, <1>17, <2>4, Names DEF WriteReceipt, SupTypeOK
<1>18. ASSUME NEW p \in Proc, SealReceipt(p) PROVE SupTypeOK'
  BY <1>0, <1>1, <1>2, <1>18, Staging, Names DEF SealReceipt, SupTypeOK
<1>19. ASSUME NEW p \in Proc, RecoverTerminal(p) PROVE SupTypeOK'
  BY <1>0, <1>1, <1>2, <1>4, <1>19, Names DEF RecoverTerminal, SupTypeOK
<1>20. ASSUME NEW p \in Proc, NEW t \in WallTimes, FinalizeSuccess(p, t) PROVE SupTypeOK'
  <2> DEFINE final == [intent[KeyOf(p)] EXCEPT !.state = "terminal-success",
                                               !.root = store[KeyOf(p)].root]
  <2>1. KeyOf(p) \in Keys
    BY <1>0, <1>20 DEF FinalizeSuccess
  <2>2. final \in Row /\ intent[KeyOf(p)] \in Row
    BY <1>0, <2>1 DEF Row, Run, IntentStates
  <2>3. \/ GoesWith(p, "consume", intent[KeyOf(p)]) /\ UNCHANGED intent
        \/ intent' = [intent EXCEPT ![KeyOf(p)] = final] /\ GoesWith(p, "consume", final)
        \/ FailsClosed(p) /\ UNCHANGED intent
    BY <1>20, FinalizeDoes
  <2> HIDE DEF final
  <2>4. PcOK(p) /\ intent' \in [Keys -> Row]
    BY <1>0, <1>3, <1>4, <2>1, <2>2, <2>3, Names
  <2> QED
    BY <1>0, <1>1, <1>20, <2>4 DEF FinalizeSuccess, SupTypeOK
<1>21. ASSUME NEW p \in Proc, LoadTerminal(p) PROVE SupTypeOK'
  BY <1>0, <1>1, <1>2, <1>4, <1>21, Names DEF LoadTerminal, SupTypeOK
<1>22. ASSUME NEW p \in Proc, ConsumeInvocation(p) PROVE SupTypeOK'
  BY <1>0, <1>1, <1>4, <1>22 DEF ConsumeInvocation, SupTypeOK
<1>23. ASSUME NEW p \in Proc, CrashProcess(p) PROVE SupTypeOK'
  <2>1. pc' \in [Proc -> PcType] /\ \A q \in Proc : pc'[q].at # "idle" => pc'[q] = pc[q]
    BY <1>0, <1>23, Failing DEF CrashProcess
  <2>2. memo' \in [Proc -> SUBSET Pub] /\ \A q \in Proc : IsFiniteSet(memo'[q])
    BY <1>23, FS_EmptySet DEF CrashProcess, SupTypeOK
  <2> QED
    BY <1>0, <1>23, <2>1, <2>2 DEF CrashProcess, SupTypeOK, KeyOf, PcType
<1> QED
  BY <1>5, <1>6, <1>7, <1>8, <1>9, <1>10, <1>11, <1>12, <1>13, <1>14, <1>15, <1>16, <1>17,
     <1>18, <1>19, <1>20, <1>21, <1>22, <1>23 DEF SupNext, InvocationStep

-----------------------------------------------------------------------------
(* The journal row, the provider Run and the processes. *)

\* The steps of _dispatch_once after the dispatch was recorded, and what the
\* provider Run holds before each of them.
Dispatching == {"create", "send", "answer", "evidence", "receipt", "seal"}
StageAt(at, stage) ==
  \/ at = "create" /\ stage = "none"
  \/ at = "send" /\ stage = "created"
  \/ at = "answer" /\ stage = "requested"
  \/ at = "evidence" /\ stage = "answered"
  \/ at = "receipt" /\ stage = "evidence"
  \/ at = "seal" /\ stage = "receipt"

\* The journal row of a checkpoint, its provider Run and its provider calls.
RowInv(k) ==
  /\ intent[k].state \in {"none", "intent-recorded"} =>
       /\ intent[k].begun = 0 /\ intent[k].root = 0
       /\ store[k].stage = "none"
  /\ intent[k].state # "none" => intent[k].pub.key = k
  /\ intent[k].state = Started => intent[k].begun = 1 /\ intent[k].root = 0
  /\ intent[k].state = "terminal-success" =>
       /\ intent[k].begun = 1 /\ intent[k].root = store[k].root
       /\ store[k].stage = "sealed"
  /\ calls[k] = IF store[k].stage \in {"none", "created"} THEN 0 ELSE 1
  /\ store[k].stage \in {"receipt", "sealed"} =>
       store[k].pub = intent[k].pub /\ store[k].begun = 1 /\ store[k].root = 1

\* What a process in the middle of an invocation knows of the journal.
ProcInv(p) ==
  LET k == KeyOf(p)  e == pc[p].entry
  IN  /\ pc[p].at = "begin" => e.pub = pc[p].pub
      /\ pc[p].at \in Dispatching =>
           /\ intent[k].state = Started /\ e = intent[k] /\ pc[p].pub = intent[k].pub
           /\ StageAt(pc[p].at, store[k].stage)
      /\ pc[p].at \in {"recover", "finalize"} =>
           /\ intent[k].state \in {Started, "terminal-success"}
           /\ e.begun = 1 /\ e.pub = intent[k].pub /\ pc[p].pub = intent[k].pub
           /\ intent[k].state = Started => e = intent[k]
      /\ pc[p].at = "finalize" => store[k].stage = "sealed"
      /\ pc[p].at \in {"load", "consume"} =>
           /\ intent[k].state = "terminal-success" /\ e = intent[k]
           /\ pc[p].pub = intent[k].pub

\* At most one process is in the dispatch of a checkpoint.
OneDispatcher ==
  \A p, q \in Proc :
    pc[p].at \in Dispatching /\ pc[q].at \in Dispatching /\ KeyOf(p) = KeyOf(q) => p = q

\* Proposals are of checkpoints of the graph.
ProposalInv ==
  \A x \in proposals : x.pub.key \in Keys

\* The journal, the provider Runs and the processes agree.
JournalInv ==
  /\ \A k \in Keys : RowInv(k)
  /\ \A p \in Proc : ProcInv(p)
  /\ OneDispatcher

\* What the checked invariants need to be inductive.
IInv == SupTypeOK /\ JournalInv /\ ProposalInv /\ OneProposalPerCheckpoint

-----------------------------------------------------------------------------
(* The inductive invariant. *)

\* The invariant holds before the first schedule.
LEMMA InvInit == SupInit => IInv
<1> SUFFICES ASSUME SupInit PROVE IInv
  OBVIOUS
<1>1. \A k \in Keys : RowInv(k)
  BY DEF SupInit, RowInv, NoIntent, Started
<1>2. \A p \in Proc : ProcInv(p)
  BY DEF SupInit, ProcInv, IdleProc, Dispatching
<1>3. OneDispatcher
  BY DEF SupInit, OneDispatcher, IdleProc, Dispatching
<1> QED
  BY <1>1, <1>2, <1>3, TypeInit DEF SupInit, IInv, JournalInv, ProposalInv, OneProposalPerCheckpoint

\* A step of one process that leaves the journal, the Runs and the provider alone.
LEMMA Quiet ==
  ASSUME IInv, NEW p \in Proc,
         UNCHANGED <<intent, store, calls>>,
         \A q \in Proc \ {p} : pc'[q] = pc[q],
         ProcInv(p)',
         pc'[p].at \notin Dispatching
  PROVE  JournalInv'
<1>1. \A k \in Keys : RowInv(k)'
  BY DEF IInv, JournalInv, RowInv
<1>2. ASSUME NEW q \in Proc \ {p} PROVE ProcInv(q)'
  <2>1. ProcInv(q) /\ pc'[q] = pc[q]
    BY DEF IInv, JournalInv
  <2> QED
    BY <2>1, ZenonT(30) DEF ProcInv, KeyOf
<1>3. OneDispatcher'
  BY DEF IInv, JournalInv, OneDispatcher, KeyOf
<1> QED
  BY <1>1, <1>2, <1>3 DEF JournalInv

\* A step of one process on the row, the Run or the provider call of its checkpoint.
LEMMA OnCheckpoint ==
  ASSUME IInv, NEW p \in Proc, NEW k \in Keys, KeyOf(p) = k,
         \A q \in Proc \ {p} : pc'[q] = pc[q],
         \A j \in Keys \ {k} : intent'[j] = intent[j] /\ store'[j] = store[j] /\ calls'[j] = calls[j],
         RowInv(k)',
         ProcInv(p)',
         \A q \in Proc \ {p} : KeyOf(q) = k /\ pc[q].at # "idle" => ProcInv(q)',
         pc'[p].at \in Dispatching =>
           /\ pc'[p].pub = pc[p].pub
           /\ pc[p].at \in Dispatching \/ intent[k].state # Started
  PROVE  JournalInv'
<1>1. ASSUME NEW j \in Keys PROVE RowInv(j)'
  BY <1>1, SMT DEF IInv, JournalInv, RowInv
<1>2. ASSUME NEW q \in Proc \ {p} PROVE ProcInv(q)'
  <2>1. CASE pc[q].at = "idle"
    BY <2>1 DEF ProcInv, Dispatching
  <2>2. CASE KeyOf(q) \in Keys \ {k}
    <3>1. PICK j \in Keys : j = KeyOf(q) /\ j # k
      BY <2>2
    <3>2. pc'[q] = pc[q] /\ intent'[j] = intent[j] /\ store'[j] = store[j] /\ KeyOf(q)' = j
      BY <3>1 DEF KeyOf
    <3>3. ProcInv(q)
      BY DEF IInv, JournalInv
    <3> QED
      BY <3>1, <3>2, <3>3, SMTT(30) DEF ProcInv, StageAt
  <2> QED
    BY <2>1, <2>2 DEF IInv, SupTypeOK
<1>3. ASSUME NEW q \in Proc, q # p, pc[q].at \in Dispatching, KeyOf(q) = k, pc'[p].at \in Dispatching
      PROVE  FALSE
  <2>1. intent[k].state = Started
    BY <1>3, SMT DEF IInv, JournalInv, ProcInv
  <2> QED
    BY <1>3, <2>1 DEF IInv, JournalInv, OneDispatcher
<1>4. OneDispatcher'
  BY <1>3, SMT DEF IInv, JournalInv, OneDispatcher, KeyOf
<1> QED
  BY <1>1, <1>2, <1>4 DEF JournalInv

\* A step of the one process that dispatches the call of a checkpoint.
LEMMA OfDispatcher ==
  ASSUME IInv, NEW p \in Proc, NEW k \in Keys, KeyOf(p) = k, pc[p].at \in Dispatching,
         UNCHANGED intent,
         \A q \in Proc \ {p} : pc'[q] = pc[q],
         \A j \in Keys \ {k} : store'[j] = store[j] /\ calls'[j] = calls[j],
         RowInv(k)',
         ProcInv(p)',
         pc'[p].at \in Dispatching => pc'[p].pub = pc[p].pub
  PROVE  JournalInv'
<1>1. intent[k].state = Started /\ store[k].stage # "sealed"
  BY SMTT(20) DEF IInv, JournalInv, ProcInv, StageAt
<1>2. ASSUME NEW q \in Proc \ {p}, KeyOf(q) = k PROVE ProcInv(q)'
  <2>1. pc[q].at \notin Dispatching \cup {"finalize", "load", "consume"}
    BY <1>1, <1>2, SMT DEF IInv, JournalInv, OneDispatcher, ProcInv, Started
  <2>2. ProcInv(q) /\ pc'[q] = pc[q]
    BY DEF IInv, JournalInv
  <2> QED
    BY <1>2, <2>1, <2>2 DEF ProcInv, KeyOf
<1> QED
  BY <1>2, OnCheckpoint

\* The invariant in parts.
LEMMA Parts ==
  ASSUME IInv
  PROVE  /\ pc \in [Proc -> PcType] /\ store \in [Keys -> Run] /\ intent \in [Keys -> Row]
         /\ \A p \in Proc : pc[p].at # "idle" => KeyOf(p) \in Keys
         /\ \A k \in Keys : RowInv(k)
         /\ \A p \in Proc : ProcInv(p)
  BY DEF IInv, JournalInv, SupTypeOK, PcType

\* A process that stops keeps the journal as it is.
LEMMA Ends ==
  ASSUME IInv, NEW p \in Proc, pc' = [pc EXCEPT ![p] = IdleProc], UNCHANGED <<intent, store, calls>>
  PROVE  JournalInv'
<1>1. pc'[p].at = "idle" /\ \A q \in Proc \ {p} : pc'[q] = pc[q]
  BY Parts, Failing
<1>2. ProcInv(p)' /\ pc'[p].at \notin Dispatching
  BY <1>1 DEF ProcInv, Dispatching
<1> QED
  BY <1>1, <1>2, Quiet

\* A process that fails closed and writes nothing keeps the journal as it is.
LEMMA FailsOnly ==
  ASSUME IInv, NEW p \in Proc, FailsClosed(p), UNCHANGED <<intent, store, calls>>
  PROVE  JournalInv'
  BY Ends DEF FailsClosed

\* Steps of the graph and the schedulers.
LEMMA Untouched ==
  ASSUME IInv, UNCHANGED <<pc, intent, store, calls>>
  PROVE  JournalInv'
<1>1. \A k \in Keys : RowInv(k)'
  BY Parts, SMTT(20) DEF RowInv
<1>2. ASSUME NEW p \in Proc PROVE ProcInv(p)'
  <2>1. ProcInv(p)
    BY Parts
  <2> QED
    BY <2>1 DEF ProcInv, KeyOf
<1>3. OneDispatcher'
  BY DEF IInv, JournalInv, OneDispatcher, KeyOf
<1> QED
  BY <1>1, <1>2, <1>3 DEF JournalInv

\* Steps before the claim.
LEMMA GoesOn ==
  ASSUME IInv, NEW p \in Proc, NEW s \in {"bind", "claim"}, Goes(p, s), UNCHANGED <<intent, store, calls>>
  PROVE  JournalInv'
<1>1. pc'[p].at = s /\ \A q \in Proc \ {p} : pc'[q] = pc[q]
  BY Parts, Going, Names
<1>2. ProcInv(p)' /\ pc'[p].at \notin Dispatching
  BY <1>1 DEF ProcInv, Dispatching
<1> QED
  BY <1>1, <1>2, Quiet

\* What the dispatcher of a checkpoint knows.
LEMMA Dispatcher ==
  ASSUME IInv, NEW p \in Proc, pc[p].at \in Dispatching
  PROVE  \E k \in Keys :
           /\ k = KeyOf(p) /\ pc[p].pub.key = k /\ RowInv(k)
           /\ intent[k].state = Started /\ intent[k].begun = 1 /\ intent[k].root = 0
           /\ intent[k] = pc[p].entry /\ pc[p].pub = intent[k].pub
           /\ StageAt(pc[p].at, store[k].stage)
  BY Parts, SMTT(20) DEF ProcInv, RowInv, Dispatching, KeyOf

\* The dispatcher goes on to its next step.
LEMMA DispatcherGoes ==
  ASSUME IInv, NEW p \in Proc, NEW s \in Dispatching, Goes(p, s), UNCHANGED intent,
         pc[p].at \in Dispatching, StageAt(s, store'[KeyOf(p)].stage)
  PROVE  /\ ProcInv(p)' /\ pc'[p].pub = pc[p].pub /\ pc'[p].entry = pc[p].entry
         /\ \A q \in Proc \ {p} : pc'[q] = pc[q]
<1>1. /\ pc'[p].at = s /\ pc'[p].pub = pc[p].pub /\ pc'[p].entry = pc[p].entry
      /\ \A q \in Proc \ {p} : pc'[q] = pc[q]
  BY Parts, Going, Names DEF Dispatching
<1> QED
  BY Dispatcher, <1>1, ZenonT(30) DEF ProcInv, Dispatching, KeyOf

\* A process that fails closed.
LEMMA FailingProc ==
  ASSUME IInv, NEW p \in Proc, FailsClosed(p)
  PROVE  /\ ProcInv(p)' /\ pc'[p].at \notin Dispatching
         /\ \A q \in Proc \ {p} : pc'[q] = pc[q]
<1>1. pc'[p].at = "idle" /\ \A q \in Proc \ {p} : pc'[q] = pc[q]
  BY Parts, Failing DEF FailsClosed
<1> QED
  BY <1>1 DEF ProcInv, Dispatching

\* One lemma per action: who holds which row, and which Run, afterwards.
LEMMA InvokeKeeps ==
  ASSUME IInv, NEW p \in Proc, NEW b \in pubs, Invoke(p, b)
  PROVE  JournalInv'
<1>1. pc'[p].at = "read" /\ \A q \in Proc \ {p} : pc'[q] = pc[q]
  BY Parts DEF Invoke
<1>2. ProcInv(p)' /\ pc'[p].at \notin Dispatching
  BY <1>1 DEF ProcInv, Dispatching
<1> QED
  BY <1>1, <1>2, Quiet DEF Invoke

\* checkpoint_entry is a plain read.
LEMMA CheckpointEntryKeeps ==
  ASSUME IInv, NEW p \in Proc, CheckpointEntry(p)
  PROVE  JournalInv'
  BY GoesOn DEF CheckpointEntry

\* Binding the budgets does not touch the journal.
LEMMA BindBudgetsKeeps ==
  ASSUME IInv, NEW p \in Proc, BindBudgets(p)
  PROVE  JournalInv'
  BY GoesOn DEF BindBudgets

\* claim: a new row is the claimant's; an old one sends it where the row stands.
LEMMA ClaimIntentKeeps ==
  ASSUME IInv, NEW p \in Proc, Claim(p)
  PROVE  JournalInv'
<1>0. PICK k \in Keys : k = KeyOf(p)
  BY Parts DEF Claim
<1>1. k \in Keys /\ pc[p].pub \in Pub /\ RowInv(k)
  BY Parts DEF PcType
<1>2. CASE intent[k].state = "none"
  <2> DEFINE new == [NoIntent EXCEPT !.state = "intent-recorded", !.pub = pc[p].pub]
  <2>1. new \in Row /\ new.state = "intent-recorded" /\ new.pub = pc[p].pub /\ new.begun = 0 /\ new.root = 0
    BY <1>1, ZenonT(30) DEF NoIntent, NoPub, Row, Pub, IntentStates
  <2>2. intent' = [intent EXCEPT ![k] = new] /\ GoesWith(p, "begin", new)
    BY <1>0, <1>2 DEF Claim
  <2>3. UNCHANGED <<store, calls>>
    BY DEF Claim
  <2> HIDE DEF new
  <2>4. /\ pc'[p].at = "begin" /\ pc'[p].pub = pc[p].pub /\ pc'[p].entry = new
        /\ \A q \in Proc \ {p} : pc'[q] = pc[q]
    BY Parts, <2>1, <2>2, GoingWith, Names, SMT
  <2>5. intent'[k] = new /\ \A j \in Keys \ {k} : intent'[j] = intent[j]
    BY Parts, <1>1, <2>2
  <2>6. new.pub.key = k
    BY <1>0, <2>1 DEF KeyOf
  <2>7. RowInv(k)'
    BY <1>1, <1>2, <2>1, <2>3, <2>5, <2>6 DEF RowInv, Started
  <2>8. ProcInv(p)' /\ pc'[p].at \notin Dispatching
    BY <2>1, <2>4 DEF ProcInv, Dispatching
  <2>9. ASSUME NEW q \in Proc \ {p}, KeyOf(q) = k PROVE ProcInv(q)'
    <3>1. pc[q].at \notin Dispatching \cup {"recover", "finalize", "load", "consume"}
      BY Parts, <1>2, <2>9 DEF ProcInv, Started
    <3>2. pc[q].at = "begin" => pc[q].entry.pub = pc[q].pub
      BY Parts, <2>9 DEF ProcInv
    <3> QED
      BY <2>4, <3>1, <3>2 DEF ProcInv
  <2> QED
    BY <1>0, <1>1, <2>3, <2>4, <2>5, <2>7, <2>8, <2>9, OnCheckpoint
<1>3. CASE intent[k].state # "none"
  <2>1. CASE FailsClosed(p)
    BY FailsOnly, <1>0, <1>3, <2>1 DEF Claim
  <2>2. CASE GoesWith(p, StepFor(intent[k].state), intent[k]) /\ intent[k].pub = pc[p].pub
    <3>1. /\ intent[k].state \in {"intent-recorded", Started, "terminal-success"}
          /\ intent[k] \in Row
      BY Parts, <1>1, <1>3 DEF Row, IntentStates, Started
    <3>2. UNCHANGED <<intent, store, calls>>
      BY <1>0, <1>3 DEF Claim
    <3> DEFINE s == StepFor(intent[k].state)
    <3>3. /\ s \in Steps \ Dispatching
          /\ intent[k].state = "intent-recorded" => s = "begin"
          /\ intent[k].state = Started => s = "recover"
          /\ intent[k].state = "terminal-success" => s = "load"
      BY <3>1 DEF StepFor, Started, Steps, Dispatching
    <3> HIDE DEF s
    <3>4. /\ pc'[p].at = s /\ pc'[p].pub = pc[p].pub /\ pc'[p].entry = intent[k]
          /\ \A q \in Proc \ {p} : pc'[q] = pc[q]
      BY Parts, <2>2, <3>1, <3>3, GoingWith, Names DEF s
    <3>5. pc'[p].pub.key = k
      BY <1>0, <3>4 DEF KeyOf
    <3>6. ProcInv(p)'
      BY <1>1, <2>2, <3>1, <3>2, <3>3, <3>4, <3>5 DEF ProcInv, KeyOf, RowInv, Started, Dispatching
    <3> QED
      BY <3>2, <3>3, <3>4, <3>6, Quiet
  <2> QED
    BY <1>0, <1>3, <2>1, <2>2 DEF Claim, RequireExactPublication
<1> QED
  BY <1>2, <1>3

\* begin_dispatch: only one process finds the row it claimed unchanged.
LEMMA BeginDispatchKeeps ==
  ASSUME IInv, NEW p \in Proc, BeginDispatch(p)
  PROVE  JournalInv'
<1>0. PICK k \in Keys : k = KeyOf(p)
  BY Parts DEF BeginDispatch
<1>1. RowInv(k) /\ intent[k] \in Row /\ UNCHANGED <<store, calls>>
  BY Parts DEF BeginDispatch
<1>2. CASE FailsClosed(p) /\ UNCHANGED intent
  BY FailsOnly, <1>1, <1>2
<1>3. ASSUME NEW t \in WallTimes,
             intent[k].state = "intent-recorded", intent[k] = pc[p].entry,
             intent' = [intent EXCEPT ![k] = StartedRow(intent[k], t)],
             GoesWith(p, "create", StartedRow(intent[k], t))
      PROVE  JournalInv'
  <2> DEFINE started == StartedRow(intent[k], t)
  <2>1. intent[k].begun = 0
    BY <1>1, <1>3 DEF RowInv
  <2>a. started.begun = intent[k].begun + 1
    BY <1>1, <1>3, StartedRowIs
  <2>2. started.begun = 1
    <3> HIDE DEF started
    <3> QED
      BY <2>1, <2>a, SMT
  <2>3. /\ started \in Row /\ started.state = Started /\ started.begun = 1
        /\ started.pub = intent[k].pub /\ started.root = intent[k].root
    BY <1>1, <1>3, <2>2, StartedRowIs
  <2>b. intent' = [intent EXCEPT ![k] = started] /\ GoesWith(p, "create", started)
    BY <1>3
  <2> HIDE DEF started
  <2>4. /\ pc'[p].at = "create" /\ pc'[p].pub = pc[p].pub /\ pc'[p].entry = started
        /\ \A q \in Proc \ {p} : pc'[q] = pc[q]
    BY Parts, <2>b, <2>3, GoingWith, Names, SMT
  <2>5. intent'[k] = started /\ \A j \in Keys \ {k} : intent'[j] = intent[j]
    BY Parts, <1>1, <2>b
  <2>6. pc[p].pub = intent[k].pub
    BY Parts, <1>0, <1>3 DEF BeginDispatch, ProcInv
  <2>7. pc'[p].pub.key = k
    BY <1>0, <2>4 DEF KeyOf
  <2>8. RowInv(k)'
    BY <1>1, <1>3, <2>3, <2>5, SMTT(20) DEF RowInv, Started
  <2>9. ProcInv(p)'
    BY <1>1, <1>3, <2>3, <2>4, <2>5, <2>6, <2>7, ZenonT(30) DEF ProcInv, KeyOf, RowInv, Dispatching, StageAt
  <2>10. ASSUME NEW q \in Proc \ {p}, KeyOf(q) = k PROVE ProcInv(q)'
    <3>1. pc[q].at \notin Dispatching \cup {"recover", "finalize", "load", "consume"}
      BY Parts, <1>3, <2>10 DEF ProcInv, Started
    <3>2. pc[q].at = "begin" => pc[q].entry.pub = pc[q].pub
      BY Parts, <2>10 DEF ProcInv
    <3> QED
      BY <2>4, <3>1, <3>2, SMTT(20) DEF ProcInv
  <2>11. KeyOf(p) = k /\ intent[k].state # Started
    BY <1>0, <1>3 DEF Started
  <2> QED
    BY <1>1, <2>4, <2>5, <2>8, <2>9, <2>10, <2>11, OnCheckpoint
<1> QED
  BY <1>0, <1>2, <1>3, BeginDoes

\* The dispatcher creates the provider Run.
LEMMA CreateRunKeeps ==
  ASSUME IInv, NEW p \in Proc, CreateRun(p)
  PROVE  JournalInv'
<1>a. pc[p].at = "create" /\ pc[p].at \in Dispatching
  BY DEF CreateRun, Dispatching
<1>0. PICK k \in Keys :
        /\ k = KeyOf(p) /\ pc[p].pub.key = k /\ RowInv(k)
        /\ intent[k].state = Started /\ intent[k].begun = 1 /\ intent[k].root = 0
        /\ intent[k] = pc[p].entry /\ pc[p].pub = intent[k].pub
        /\ StageAt(pc[p].at, store[k].stage)
  BY Dispatcher, <1>a
<1>1. pc[p].at = "create" /\ pc[p].at \in Dispatching /\ UNCHANGED <<intent, calls>>
  BY <1>0 DEF CreateRun, Dispatching
<1>2. CASE FailsClosed(p) /\ UNCHANGED store
  BY FailsOnly, <1>1, <1>2
<1>3. CASE store' = [store EXCEPT ![k].stage = "created"] /\ Goes(p, "send")
  <2>1. /\ store'[k].stage = "created"
        /\ \A j \in Keys \ {k} : store'[j] = store[j]
    BY Parts, <1>0, <1>1, <1>3, Staging, Names
  <2>2. RowInv(k)'
    BY <1>0, <1>1, <2>1 DEF RowInv, StageAt, Started
  <2>3. ProcInv(p)' /\ pc'[p].pub = pc[p].pub /\ \A q \in Proc \ {p} : pc'[q] = pc[q]
    BY DispatcherGoes, <1>0, <1>1, <1>3, <2>1 DEF StageAt, Dispatching
  <2> QED
    BY <1>0, <1>1, <2>1, <2>2, <2>3, OfDispatcher
<1> QED
  BY <1>0, <1>2, <1>3 DEF CreateRun

\* The provider is called while the Run says it was not.
LEMMA SendChatKeeps ==
  ASSUME IInv, NEW p \in Proc, SendChat(p)
  PROVE  JournalInv'
<1>a. pc[p].at = "send" /\ pc[p].at \in Dispatching
  BY DEF SendChat, Dispatching
<1>0. PICK k \in Keys :
        /\ k = KeyOf(p) /\ pc[p].pub.key = k /\ RowInv(k)
        /\ intent[k].state = Started /\ intent[k].begun = 1 /\ intent[k].root = 0
        /\ intent[k] = pc[p].entry /\ pc[p].pub = intent[k].pub
        /\ StageAt(pc[p].at, store[k].stage)
  BY Dispatcher, <1>a
<1>1. pc[p].at = "send" /\ pc[p].at \in Dispatching /\ UNCHANGED intent
  BY <1>0 DEF SendChat, Dispatching
<1>2. CASE FailsClosed(p) /\ UNCHANGED <<calls, store>>
  BY FailsOnly, <1>1, <1>2
<1>3. CASE /\ calls' = [calls EXCEPT ![k] = @ + 1]
           /\ store' = [store EXCEPT ![k].stage = "requested"] /\ Goes(p, "answer")
  <2>1. /\ store'[k].stage = "requested"
        /\ \A j \in Keys \ {k} : store'[j] = store[j]
    BY Parts, <1>0, <1>1, <1>3, Staging, Names
  <2>2. calls[k] = 0 /\ k \in Keys
    BY <1>0, <1>1 DEF RowInv, StageAt
  <2>3. calls'[k] = 1 /\ \A j \in Keys \ {k} : calls'[j] = calls[j]
    BY <1>3, <2>2, SMT DEF IInv, SupTypeOK
  <2>4. RowInv(k)'
    BY <1>0, <1>1, <2>1, <2>3 DEF RowInv, StageAt, Started
  <2>5. ProcInv(p)' /\ pc'[p].pub = pc[p].pub /\ \A q \in Proc \ {p} : pc'[q] = pc[q]
    BY DispatcherGoes, <1>0, <1>1, <1>3, <2>1 DEF StageAt, Dispatching
  <2> QED
    BY <1>0, <1>1, <2>1, <2>3, <2>4, <2>5, OfDispatcher
<1> QED
  BY <1>0, <1>2, <1>3 DEF SendChat

\* The answer is kept in the Run.
LEMMA ReceiveAnswerKeeps ==
  ASSUME IInv, NEW p \in Proc, ReceiveAnswer(p)
  PROVE  JournalInv'
<1>a. pc[p].at = "answer" /\ pc[p].at \in Dispatching
  BY DEF ReceiveAnswer, Dispatching
<1>0. PICK k \in Keys :
        /\ k = KeyOf(p) /\ pc[p].pub.key = k /\ RowInv(k)
        /\ intent[k].state = Started /\ intent[k].begun = 1 /\ intent[k].root = 0
        /\ intent[k] = pc[p].entry /\ pc[p].pub = intent[k].pub
        /\ StageAt(pc[p].at, store[k].stage)
  BY Dispatcher, <1>a
<1>1. pc[p].at = "answer" /\ pc[p].at \in Dispatching /\ UNCHANGED <<intent, calls>>
  BY <1>0 DEF ReceiveAnswer, Dispatching
<1>2. CASE FailsClosed(p) /\ UNCHANGED store
  BY FailsOnly, <1>1, <1>2
<1>3. CASE store' = [store EXCEPT ![k].stage = "answered"] /\ Goes(p, "evidence")
  <2>1. /\ store'[k].stage = "answered"
        /\ \A j \in Keys \ {k} : store'[j] = store[j]
    BY Parts, <1>0, <1>1, <1>3, Staging, Names
  <2>2. RowInv(k)'
    BY <1>0, <1>1, <2>1 DEF RowInv, StageAt, Started
  <2>3. ProcInv(p)' /\ pc'[p].pub = pc[p].pub /\ \A q \in Proc \ {p} : pc'[q] = pc[q]
    BY DispatcherGoes, <1>0, <1>1, <1>3, <2>1 DEF StageAt, Dispatching
  <2> QED
    BY <1>0, <1>1, <2>1, <2>2, <2>3, OfDispatcher
<1> QED
  BY <1>0, <1>2, <1>3 DEF ReceiveAnswer

\* The first seal.
LEMMA SealEvidenceKeeps ==
  ASSUME IInv, NEW p \in Proc, SealEvidence(p)
  PROVE  JournalInv'
<1>a. pc[p].at = "evidence" /\ pc[p].at \in Dispatching
  BY DEF SealEvidence, Dispatching
<1>0. PICK k \in Keys :
        /\ k = KeyOf(p) /\ pc[p].pub.key = k /\ RowInv(k)
        /\ intent[k].state = Started /\ intent[k].begun = 1 /\ intent[k].root = 0
        /\ intent[k] = pc[p].entry /\ pc[p].pub = intent[k].pub
        /\ StageAt(pc[p].at, store[k].stage)
  BY Dispatcher, <1>a
<1>1. /\ pc[p].at = "evidence" /\ pc[p].at \in Dispatching /\ UNCHANGED <<intent, calls>>
      /\ store' = [store EXCEPT ![k].stage = "evidence"]
  BY <1>0 DEF SealEvidence, Dispatching
<1>2. /\ store'[k].stage = "evidence"
      /\ \A j \in Keys \ {k} : store'[j] = store[j]
  BY Parts, <1>0, <1>1, Staging, Names
<1>3. RowInv(k)'
  BY <1>0, <1>1, <1>2 DEF RowInv, StageAt, Started
<1>4. CASE FailsClosed(p)
  BY FailingProc, <1>0, <1>1, <1>2, <1>3, <1>4, OfDispatcher
<1>5. CASE Goes(p, "receipt")
  <2>1. ProcInv(p)' /\ pc'[p].pub = pc[p].pub /\ \A q \in Proc \ {p} : pc'[q] = pc[q]
    BY DispatcherGoes, <1>0, <1>1, <1>2, <1>5 DEF StageAt, Dispatching
  <2> QED
    BY <1>0, <1>1, <1>2, <1>3, <2>1, OfDispatcher
<1> QED
  BY <1>4, <1>5 DEF SealEvidence

\* The receipt names the row, the dispatch and the one call.
LEMMA WriteReceiptKeeps ==
  ASSUME IInv, NEW p \in Proc, WriteReceipt(p)
  PROVE  JournalInv'
<1>a. pc[p].at = "receipt" /\ pc[p].at \in Dispatching
  BY DEF WriteReceipt, Dispatching
<1>0. PICK k \in Keys :
        /\ k = KeyOf(p) /\ pc[p].pub.key = k /\ RowInv(k)
        /\ intent[k].state = Started /\ intent[k].begun = 1 /\ intent[k].root = 0
        /\ intent[k] = pc[p].entry /\ pc[p].pub = intent[k].pub
        /\ StageAt(pc[p].at, store[k].stage)
  BY Dispatcher, <1>a, SMTT(20)
<1> DEFINE r == [stage |-> "receipt", pub |-> pc[p].pub,
                 begun |-> pc[p].entry.begun, root |-> calls[k]]
<1>1. /\ pc[p].at = "receipt" /\ pc[p].at \in Dispatching /\ UNCHANGED <<intent, calls>>
      /\ store' = [store EXCEPT ![k] = r] /\ Goes(p, "seal")
  BY <1>0 DEF WriteReceipt, Dispatching
<1>2. store'[k] = r /\ \A j \in Keys \ {k} : store'[j] = store[j]
  BY Parts, <1>0, <1>1
<1>3. calls[k] = 1
  BY <1>0, <1>1, SMTT(20) DEF RowInv, StageAt
<1>4. RowInv(k)'
  BY <1>0, <1>1, <1>2, <1>3, SMTT(20) DEF RowInv, StageAt, Started
<1>5. ProcInv(p)' /\ pc'[p].pub = pc[p].pub /\ \A q \in Proc \ {p} : pc'[q] = pc[q]
  BY DispatcherGoes, <1>0, <1>1, <1>2, SMTT(20) DEF StageAt, Dispatching
<1> QED
  BY <1>0, <1>1, <1>2, <1>4, <1>5, OfDispatcher

\* The second seal.
LEMMA SealReceiptKeeps ==
  ASSUME IInv, NEW p \in Proc, SealReceipt(p)
  PROVE  JournalInv'
<1>a. pc[p].at = "seal" /\ pc[p].at \in Dispatching
  BY DEF SealReceipt, Dispatching
<1>0. PICK k \in Keys :
        /\ k = KeyOf(p) /\ pc[p].pub.key = k /\ RowInv(k)
        /\ intent[k].state = Started /\ intent[k].begun = 1 /\ intent[k].root = 0
        /\ intent[k] = pc[p].entry /\ pc[p].pub = intent[k].pub
        /\ StageAt(pc[p].at, store[k].stage)
  BY Dispatcher, <1>a
<1>1. /\ pc[p].at = "seal" /\ pc[p].at \in Dispatching /\ UNCHANGED <<intent, calls>>
      /\ store' = [store EXCEPT ![k].stage = "sealed"] /\ Goes(p, "finalize")
  BY <1>0 DEF SealReceipt, Dispatching
<1>2. /\ store'[k].stage = "sealed" /\ store'[k].pub = store[k].pub
      /\ store'[k].begun = store[k].begun /\ store'[k].root = store[k].root
      /\ \A j \in Keys \ {k} : store'[j] = store[j]
  BY Parts, <1>0, <1>1, Staging, Names
<1>3. RowInv(k)'
  BY <1>0, <1>1, <1>2 DEF RowInv, StageAt, Started
<1>4. /\ pc'[p].at = "finalize" /\ pc'[p].pub = pc[p].pub /\ pc'[p].entry = pc[p].entry
      /\ \A q \in Proc \ {p} : pc'[q] = pc[q]
  BY Parts, <1>1, Going, Names
<1>5. ProcInv(p)' /\ pc'[p].at \notin Dispatching
  BY <1>0, <1>1, <1>2, <1>4, ZenonT(30) DEF ProcInv, Dispatching, KeyOf
<1> QED
  BY <1>0, <1>1, <1>2, <1>3, <1>4, <1>5, OfDispatcher

\* Recovery finds a Run that matches the row, or fails.
LEMMA RecoverTerminalKeeps ==
  ASSUME IInv, NEW p \in Proc, RecoverTerminal(p)
  PROVE  JournalInv'
<1>1. pc[p].at = "recover" /\ UNCHANGED <<intent, store, calls>>
  BY DEF RecoverTerminal
<1>2. CASE FailsClosed(p)
  BY FailsOnly, <1>1, <1>2
<1>3. CASE store[KeyOf(p)].stage = "sealed" /\ Goes(p, "finalize")
  <2>1. /\ pc'[p].at = "finalize" /\ pc'[p].pub = pc[p].pub /\ pc'[p].entry = pc[p].entry
        /\ \A q \in Proc \ {p} : pc'[q] = pc[q]
    BY Parts, <1>3, Going, Names
  <2>2. ProcInv(p)' /\ pc'[p].at \notin Dispatching
    BY Parts, <1>1, <1>3, <2>1, ZenonT(30) DEF ProcInv, Dispatching, KeyOf
  <2> QED
    BY <1>1, <2>1, <2>2, Quiet
<1> QED
  BY <1>2, <1>3 DEF RecoverTerminal, VerifyInvocationRun

\* finalize_success: no dispatcher is left when the Run is sealed.
LEMMA FinalizeSuccessKeeps ==
  ASSUME IInv, NEW p \in Proc, NEW t \in WallTimes, FinalizeSuccess(p, t)
  PROVE  JournalInv'
<1>0. PICK k \in Keys : k = KeyOf(p)
  BY Parts DEF FinalizeSuccess
<1> DEFINE final == [intent[k] EXCEPT !.state = "terminal-success", !.root = store[k].root]
<1>1. /\ pc[p].at = "finalize" /\ UNCHANGED <<store, calls>>
      /\ k \in Keys /\ RowInv(k) /\ ProcInv(p) /\ intent[k] \in Row
  BY Parts, <1>0 DEF FinalizeSuccess
<1>2. CASE FailsClosed(p) /\ UNCHANGED intent
  BY FailsOnly, <1>1, <1>2
<1>3. CASE /\ intent[k].state = "terminal-success"
           /\ GoesWith(p, "consume", intent[k]) /\ UNCHANGED intent
  <2>1. /\ pc'[p].at = "consume" /\ pc'[p].pub = pc[p].pub /\ pc'[p].entry = intent[k]
        /\ \A q \in Proc \ {p} : pc'[q] = pc[q]
    BY Parts, <1>1, <1>3, GoingWith, Names, SMT
  <2>2. ProcInv(p)' /\ pc'[p].at \notin Dispatching
    BY <1>0, <1>1, <1>3, <2>1, ZenonT(30) DEF ProcInv, Dispatching, KeyOf
  <2> QED
    BY <1>1, <1>3, <2>1, <2>2, Quiet
<1>4. CASE /\ intent[k].state = Started
           /\ intent' = [intent EXCEPT ![k] = final] /\ GoesWith(p, "consume", final)
  <2>1. /\ final \in Row /\ final.state = "terminal-success" /\ final.root = store[k].root
        /\ final.pub = intent[k].pub /\ final.begun = intent[k].begun
    BY Parts, <1>1, ZenonT(30) DEF Row, Run, IntentStates
  <2> HIDE DEF final
  <2>2. /\ pc'[p].at = "consume" /\ pc'[p].pub = pc[p].pub /\ pc'[p].entry = final
        /\ \A q \in Proc \ {p} : pc'[q] = pc[q]
    <3>1. pc \in [Proc -> PcType] /\ GoesWith(p, "consume", final) /\ "consume" \in Steps
      BY Parts, <1>4, Names
    <3> QED
      BY <2>1, <3>1, GoingWith, SMT
  <2>3. intent'[k] = final /\ \A j \in Keys \ {k} : intent'[j] = intent[j]
    BY Parts, <1>1, <1>4
  <2>4. store[k].stage = "sealed" /\ pc[p].pub = intent[k].pub
    BY <1>0, <1>1 DEF ProcInv
  <2>5. pc'[p].pub.key = k /\ KeyOf(p) = k
    BY <1>0, <2>2 DEF KeyOf
  <2>6. RowInv(k)'
    BY <1>1, <1>4, <2>1, <2>3, <2>4, SMTT(20) DEF RowInv, Started
  <2>7. ProcInv(p)' /\ pc'[p].at \notin Dispatching
    BY <2>1, <2>2, <2>3, <2>4, <2>5, SMTT(20) DEF ProcInv, Dispatching, KeyOf
  <2>8. ASSUME NEW q \in Proc \ {p}, KeyOf(q) = k PROVE ProcInv(q)'
    <3>1. ProcInv(q) /\ pc'[q] = pc[q]
      BY Parts, <2>2
    <3>2. pc[q].at \notin Dispatching \cup {"load", "consume"}
      BY <1>4, <2>4, <2>8, <3>1 DEF ProcInv, StageAt, Started
    <3> QED
      <4>1. KeyOf(q)' = k /\ intent'[k].state = "terminal-success" /\ intent'[k].pub = intent[k].pub
        BY <2>1, <2>3, <2>8, <3>1 DEF KeyOf
      <4>2. pc[q].at = "finalize" => store'[k].stage = "sealed"
        BY <1>1, <2>4
      <4>3. pc[q].at \in {"recover", "finalize"} =>
              pc[q].entry.begun = 1 /\ pc[q].entry.pub = intent[k].pub /\ pc[q].pub = intent[k].pub
        BY <2>8, <3>1 DEF ProcInv
      <4>4. pc[q].at = "begin" => pc[q].entry.pub = pc[q].pub
        BY <3>1 DEF ProcInv
      <4> QED
        BY <3>1, <3>2, <4>1, <4>2, <4>3, <4>4, ZenonT(30) DEF ProcInv, Started
  <2> QED
    BY <1>1, <2>2, <2>3, <2>5, <2>6, <2>7, <2>8, OnCheckpoint
<1> QED
  BY <1>0, <1>2, <1>3, <1>4, FinalizeDoes

\* A settled row is loaded.
LEMMA LoadTerminalKeeps ==
  ASSUME IInv, NEW p \in Proc, LoadTerminal(p)
  PROVE  JournalInv'
<1>1. pc[p].at = "load" /\ UNCHANGED <<intent, store, calls>>
  BY DEF LoadTerminal
<1>2. CASE FailsClosed(p)
  BY FailsOnly, <1>1, <1>2
<1>3. CASE Goes(p, "consume")
  <2>1. /\ pc'[p].at = "consume" /\ pc'[p].pub = pc[p].pub /\ pc'[p].entry = pc[p].entry
        /\ \A q \in Proc \ {p} : pc'[q] = pc[q]
    BY Parts, <1>3, Going, Names
  <2>2. ProcInv(p)' /\ pc'[p].at \notin Dispatching
    BY Parts, <1>1, <2>1, ZenonT(30) DEF ProcInv, Dispatching, KeyOf
  <2> QED
    BY <1>1, <2>1, <2>2, Quiet
<1> QED
  BY <1>2, <1>3 DEF LoadTerminal

\* Every step keeps the journal, the Runs and the processes consistent.
LEMMA JournalStep == IInv /\ [SupNext]_supVars => JournalInv'
<1> SUFFICES ASSUME IInv, [SupNext]_supVars PROVE JournalInv'
  OBVIOUS
<1>1. CASE UNCHANGED supVars
  BY <1>1, Untouched DEF supVars
<1>2. CASE Advance
  BY <1>2, Untouched DEF Advance
<1>3. ASSUME NEW p \in Proc, Schedule(p) PROVE JournalInv'
  BY <1>3, Untouched DEF Schedule
<1>4. ASSUME NEW p \in Proc, NEW b \in pubs, Invoke(p, b) PROVE JournalInv'
  BY <1>4, InvokeKeeps
<1>5. ASSUME NEW p \in Proc, ConsumeInvocation(p) PROVE JournalInv'
  BY <1>5, FailsOnly DEF ConsumeInvocation
<1>6. ASSUME NEW p \in Proc, CrashProcess(p) PROVE JournalInv'
  BY <1>6, Ends, ZenonT(30) DEF CrashProcess
<1>7. ASSUME NEW p \in Proc, InvocationStep(p) PROVE JournalInv'
  BY <1>5, <1>7, CheckpointEntryKeeps, BindBudgetsKeeps, ClaimIntentKeeps, BeginDispatchKeeps, CreateRunKeeps,
     SendChatKeeps, ReceiveAnswerKeeps, SealEvidenceKeeps, WriteReceiptKeeps, SealReceiptKeeps,
     RecoverTerminalKeeps, FinalizeSuccessKeeps, LoadTerminalKeeps DEF InvocationStep
<1> QED
  BY <1>1, <1>2, <1>3, <1>4, <1>6, <1>7 DEF SupNext

\* A settled row never changes, so what was proposed from it stays what it says.
LEMMA ProposalStep == IInv /\ [SupNext]_supVars => (ProposalInv /\ OneProposalPerCheckpoint)'
<1> SUFFICES ASSUME IInv, [SupNext]_supVars PROVE (ProposalInv /\ OneProposalPerCheckpoint)'
  OBVIOUS
<1>0. /\ pc \in [Proc -> PcType] /\ intent \in [Keys -> Row]
      /\ \A p \in Proc : pc[p].at # "idle" => KeyOf(p) \in Keys
      /\ \A x \in proposals : x.pub.key \in Keys
  BY DEF IInv, SupTypeOK, PcType, ProposalInv
<1>1. ASSUME \A k \in Keys : intent[k].state = "terminal-success" => intent'[k] = intent[k],
             UNCHANGED proposals
      PROVE  (ProposalInv /\ OneProposalPerCheckpoint)'
  BY <1>0, <1>1 DEF IInv, ProposalInv, OneProposalPerCheckpoint
<1>2. ASSUME UNCHANGED <<intent, proposals>> PROVE (ProposalInv /\ OneProposalPerCheckpoint)'
  BY <1>1, <1>2
<1>3. ASSUME NEW p \in Proc, Claim(p) PROVE (ProposalInv /\ OneProposalPerCheckpoint)'
  <2>1. \A k \in Keys : intent[k].state = "terminal-success" => intent'[k] = intent[k]
    BY <1>0, <1>3 DEF Claim
  <2> QED
    BY <1>1, <1>3, <2>1 DEF Claim
<1>4. ASSUME NEW p \in Proc, BeginDispatch(p) PROVE (ProposalInv /\ OneProposalPerCheckpoint)'
  <2>1. \A k \in Keys : intent[k].state = "terminal-success" => intent'[k] = intent[k]
    BY <1>0, <1>4, BeginDoes
  <2> QED
    BY <1>1, <1>4, <2>1 DEF BeginDispatch
<1>5. ASSUME NEW p \in Proc, NEW t \in WallTimes, FinalizeSuccess(p, t)
      PROVE  (ProposalInv /\ OneProposalPerCheckpoint)'
  <2>1. \A k \in Keys : intent[k].state = "terminal-success" => intent'[k] = intent[k]
    BY <1>0, <1>5, FinalizeDoes DEF Started
  <2> QED
    BY <1>1, <1>5, <2>1 DEF FinalizeSuccess
<1>6. ASSUME NEW p \in Proc, ConsumeInvocation(p) PROVE (ProposalInv /\ OneProposalPerCheckpoint)'
  <2>1. CASE UNCHANGED proposals
    BY <1>2, <1>6, <2>1 DEF ConsumeInvocation
  <2>2. CASE proposals' # proposals
    <3>0. PICK k \in Keys : k = KeyOf(p)
      BY <1>0, <1>6 DEF ConsumeInvocation
    <3> DEFINE new == [pub |-> pc[p].pub, root |-> pc[p].entry.root]
    <3>1. /\ intent[k] = pc[p].entry /\ intent[k].state = "terminal-success"
          /\ proposals' = proposals \cup {new} /\ UNCHANGED intent
      BY <1>6, <2>2, <3>0 DEF ConsumeInvocation
    <3>2. pc[p].pub = intent[k].pub /\ pc[p].pub.key = k
      BY <1>6, <3>0, ZenonT(30) DEF IInv, JournalInv, ProcInv, ConsumeInvocation, KeyOf
    <3>3. new.pub = intent[k].pub /\ new.pub.key = k /\ new.root = intent[k].root
      BY <3>1, <3>2
    <3> HIDE DEF new
    <3> QED
      BY <1>0, <3>1, <3>3 DEF IInv, ProposalInv, OneProposalPerCheckpoint
  <2> QED
    BY <2>1, <2>2
<1>7. CASE UNCHANGED supVars
  BY <1>2, <1>7 DEF supVars
<1>8. CASE Advance
  BY <1>2, <1>8 DEF Advance
<1>9. ASSUME NEW p \in Proc, Schedule(p) \/ CrashProcess(p) \/ \E b \in pubs : Invoke(p, b)
      PROVE  (ProposalInv /\ OneProposalPerCheckpoint)'
  BY <1>2, <1>9 DEF Schedule, CrashProcess, Invoke
<1>10. ASSUME NEW p \in Proc, CheckpointEntry(p) \/ BindBudgets(p) \/ RecoverTerminal(p) \/ LoadTerminal(p)
       PROVE  (ProposalInv /\ OneProposalPerCheckpoint)'
  BY <1>2, <1>10 DEF CheckpointEntry, BindBudgets, RecoverTerminal, LoadTerminal
<1>11. ASSUME NEW p \in Proc, CreateRun(p) \/ SendChat(p) \/ ReceiveAnswer(p) \/ SealEvidence(p)
                                \/ WriteReceipt(p) \/ SealReceipt(p)
       PROVE  (ProposalInv /\ OneProposalPerCheckpoint)'
  BY <1>2, <1>11 DEF CreateRun, SendChat, ReceiveAnswer, SealEvidence, WriteReceipt, SealReceipt
<1> QED
  BY <1>3, <1>4, <1>5, <1>6, <1>7, <1>8, <1>9, <1>10, <1>11 DEF SupNext, InvocationStep

(* The invariant holds in every state of every invocation history.              *)
THEOREM InvocationInvariant == SupSpec => []IInv
<1>1. IInv /\ [SupNext]_supVars => IInv'
  <2>1. IInv => SupTypeOK
    BY DEF IInv
  <2> QED
    BY <2>1, TypeStep, JournalStep, ProposalStep DEF IInv
<1> QED
  BY <1>1, InvInit, PTL DEF SupSpec

(* A sealed provider Run matches the journal row of its checkpoint, for any      *)
(* number of processes and crashes (recover_terminal, finalize_success).         *)
THEOREM SealedResultAlwaysMatches == SupSpec => []SealedResultMatchesIntent
<1>1. IInv => SealedResultMatchesIntent
  <2> SUFFICES ASSUME IInv, NEW k \in Keys, store[k].stage = "sealed"
               PROVE  /\ intent[k].state \in {Started, "terminal-success"}
                      /\ VerifyInvocationRun(store[k], intent[k].pub, intent[k])
                      /\ intent[k].state = "terminal-success" => intent[k].root = store[k].root
    BY SMTT(20) DEF SealedResultMatchesIntent, Started
  <2>1. RowInv(k) /\ intent[k].state \in IntentStates
    BY SMTT(20) DEF IInv, JournalInv, SupTypeOK, Row
  <2>2. intent[k].state \in {Started, "terminal-success"}
    BY <2>1, SMTT(20) DEF RowInv, IntentStates, Started
  <2> QED
    BY <2>1, <2>2 DEF RowInv, VerifyInvocationRun
<1> QED
  BY <1>1, InvocationInvariant, PTL

(* A process that holds a verified receipt is refused by finalize_success only   *)
(* while its clock is behind the recorded dispatch and nobody has settled the    *)
(* row, which it leaves for the next recovery; a process that comes second is    *)
(* answered at any time.                                                         *)
THEOREM OnlyTheClockRefuses == SupSpec => []RefusedOnlyByClock
<1>1. IInv => RefusedOnlyByClock
  <2> SUFFICES ASSUME IInv, NEW p \in Proc, NEW t \in WallTimes, pc[p].at = "finalize",
                      FinalizationOutcome(p, t) = "refused"
               PROVE  intent[KeyOf(p)] = pc[p].entry /\ t < intent[KeyOf(p)].startedAt
    BY DEF RefusedOnlyByClock
  <2>1. KeyOf(p) \in Keys /\ RowInv(KeyOf(p)) /\ ProcInv(p) /\ intent[KeyOf(p)] \in Row
    BY DEF IInv, JournalInv, SupTypeOK
  <2>2. /\ ~AlreadyFinal(intent[KeyOf(p)], pc[p].entry, store[KeyOf(p)].root)
        /\ ~MayFinalize(intent[KeyOf(p)], pc[p].entry, t)
    BY DEF FinalizationOutcome
  <2>3. intent[KeyOf(p)].state = Started /\ intent[KeyOf(p)] = pc[p].entry
    BY <2>1, <2>2 DEF RowInv, ProcInv, AlreadyFinal
  <2>4. ~(intent[KeyOf(p)].startedAt <= t)
    BY <2>2, <2>3 DEF MayFinalize, Started
  <2>5. intent[KeyOf(p)].startedAt \in Nat /\ t \in Nat
    BY <2>1, InvocationAssumption DEF Row
  <2> QED
    BY <2>3, <2>4, <2>5, SMT
<1> QED
  BY <1>1, InvocationInvariant, PTL

(* All proposals of a checkpoint come from its one settled row, although         *)
(* restarted schedulers seal schedules of their own.                             *)
THEOREM OneProposal == SupSpec => []OneProposalPerCheckpoint
<1>1. IInv => OneProposalPerCheckpoint
  BY DEF IInv
<1> QED
  BY <1>1, InvocationInvariant, PTL

-----------------------------------------------------------------------------
(* The refinement. *)

\* What the journal states stand for in SingleUseAuthority.
LEMMA SpentIs ==
  ASSUME NEW k \in Keys
  PROVE  /\ intent[k].state \in {"none", "intent-recorded"} => Spent(k) = "free"
         /\ intent[k].state = Started => Spent(k) = "spent"
         /\ intent[k].state = "terminal-success" => Spent(k) = "settled"
  BY DEF Spent, Started

\* The same after a step.
LEMMA SpentWillBe ==
  ASSUME NEW k \in Keys
  PROVE  /\ intent'[k].state \in {"none", "intent-recorded"} => Spent(k)' = "free"
         /\ intent'[k].state = Started => Spent(k)' = "spent"
         /\ intent'[k].state = "terminal-success" => Spent(k)' = "settled"
  BY DEF Spent, Started

\* No authority is spent before the first claim.
LEMMA RefinesInit == SupInit => Single!Init
  BY SMT DEF SupInit, Single!Init, Spent, NoIntent

\* Recording an intent, creating the Run, sealing and recovering are invisible;
\* begin_dispatch spends, the provider call acts, finalize_success settles.
LEMMA RefinesStep == IInv /\ IInv' /\ [SupNext]_supVars => [Single!Next]_(Single!authority)
<1> SUFFICES ASSUME IInv, IInv', [SupNext]_supVars PROVE [Single!Next]_(Single!authority)
  OBVIOUS
<1>0. /\ pc \in [Proc -> PcType] /\ intent \in [Keys -> Row] /\ calls \in [Keys -> Nat]
      /\ \A p \in Proc : pc[p].at # "idle" => KeyOf(p) \in Keys
      /\ \A k \in Keys : RowInv(k)
      /\ \A p \in Proc : ProcInv(p)
  BY DEF IInv, JournalInv, SupTypeOK, PcType
<1>1. ASSUME UNCHANGED <<intent, calls>> PROVE [Single!Next]_(Single!authority)
  BY <1>1, SMT DEF Single!authority, Spent
<1>2. ASSUME NEW p \in Proc, Claim(p) PROVE [Single!Next]_(Single!authority)
  <2>1. CASE UNCHANGED intent
    BY <1>1, <1>2, <2>1 DEF Claim
  <2>2. CASE intent' # intent
    <3>0. PICK k \in Keys : k = KeyOf(p)
      BY <1>0, <1>2 DEF Claim
    <3>1. /\ intent[k].state = "none" /\ UNCHANGED calls
          /\ intent' = [intent EXCEPT ![k] = [NoIntent EXCEPT !.state = "intent-recorded",
                                                              !.pub = pc[p].pub]]
      BY <1>2, <2>2, <3>0 DEF Claim
    <3>2. intent'[k].state = "intent-recorded" /\ intent'[k].root = 0
      BY <1>0, <3>1 DEF NoIntent
    <3>3. intent[k].root = 0
      BY <1>0, <3>1 DEF RowInv
    <3>4. \A j \in Keys \ {k} : intent'[j] = intent[j]
      BY <1>0, <3>1
    <3>5. ASSUME NEW j \in Keys PROVE Spent(j)' = Spent(j) /\ intent'[j].root = intent[j].root
      BY <3>1, <3>2, <3>3, <3>4 DEF Spent
    <3> QED
      BY <3>1, <3>5 DEF Single!authority
  <2> QED
    BY <2>1, <2>2
<1>3. ASSUME NEW p \in Proc, BeginDispatch(p) PROVE [Single!Next]_(Single!authority)
  <2>1. CASE UNCHANGED intent
    BY <1>1, <1>3, <2>1 DEF BeginDispatch
  <2>2. CASE intent' # intent
    <3>0. PICK k \in Keys : k = KeyOf(p)
      BY <1>0, <1>3 DEF BeginDispatch
    <3>a. UNCHANGED calls /\ intent[k] \in Row
      BY <1>0, <1>3 DEF BeginDispatch
    <3>1. PICK t \in WallTimes : /\ intent[k].state = "intent-recorded"
                                 /\ intent' = [intent EXCEPT ![k] = StartedRow(intent[k], t)]
      BY <1>3, <2>2, <3>0, BeginDoes
    <3>2. intent'[k].state = Started /\ intent'[k].root = intent[k].root
      BY <1>0, <3>a, <3>1, StartedRowIs
    <3>3. \A j \in Keys \ {k} : intent'[j] = intent[j]
      BY <1>0, <3>1
    <3>4. Spent(k) = "free" /\ Spent(k)' = "spent"
      BY <3>1, <3>2, SpentIs, SpentWillBe
    <3>5. \A j \in Keys \ {k} : Spent(j)' = Spent(j)
      BY <3>3 DEF Spent
    <3>6. \A j \in Keys : intent'[j].root = intent[j].root
      BY <3>2, <3>3
    <3>7. Single!Spend(k)
      BY <3>a, <3>1, <3>4, <3>5, <3>6, ZenonT(30) DEF Single!Spend
    <3> QED
      BY <3>7 DEF Single!Next
  <2> QED
    BY <2>1, <2>2
<1>4. ASSUME NEW p \in Proc, SendChat(p) PROVE [Single!Next]_(Single!authority)
  <2>1. CASE UNCHANGED calls
    BY <1>1, <1>4, <2>1 DEF SendChat
  <2>2. CASE calls' # calls
    <3>0. PICK k \in Keys : k = KeyOf(p)
      BY <1>0, <1>4 DEF SendChat
    <3>1. pc[p].at = "send" /\ UNCHANGED intent /\ calls' = [calls EXCEPT ![k] = calls[k] + 1]
      BY <1>4, <2>2, <3>0, SMTT(20) DEF SendChat
    <3>2. intent[k].state = Started /\ calls[k] = 0
      BY <1>0, <3>0, <3>1, ZenonT(30) DEF ProcInv, RowInv, Dispatching, StageAt
    <3>3. calls' = [calls EXCEPT ![k] = 1]
      BY <3>1, <3>2, SMT
    <3>4. Spent(k) = "spent"
      BY <3>2, SpentIs
    <3>5. \A j \in Keys : Spent(j)' = Spent(j) /\ intent'[j].root = intent[j].root
      BY <3>1 DEF Spent
    <3>6. Single!Act(k)
      BY <3>2, <3>3, <3>4, <3>5 DEF Single!Act
    <3> QED
      BY <3>6 DEF Single!Next
  <2> QED
    BY <2>1, <2>2
<1>5. ASSUME NEW p \in Proc, NEW t \in WallTimes, FinalizeSuccess(p, t)
      PROVE  [Single!Next]_(Single!authority)
  <2>1. CASE UNCHANGED intent
    BY <1>1, <1>5, <2>1 DEF FinalizeSuccess
  <2>2. CASE intent' # intent
    <3>0. PICK k \in Keys : k = KeyOf(p)
      BY <1>0, <1>5 DEF FinalizeSuccess
    <3>1. /\ intent[k].state = Started /\ UNCHANGED calls /\ pc[p].at = "finalize"
          /\ intent' = [intent EXCEPT ![k] = [intent[k] EXCEPT !.state = "terminal-success", !.root = store[k].root]]
      BY <1>5, <2>2, <3>0, FinalizeDoes DEF FinalizeSuccess
    <3>2. store[k].stage = "sealed"
      BY <1>0, <3>0, <3>1 DEF ProcInv
    <3>3. store[k].root = 1 /\ calls[k] = 1
      BY <1>0, <3>2 DEF RowInv
    <3>4. intent'[k].state = "terminal-success" /\ intent'[k].root = 1
      BY <1>0, <3>1, <3>3 DEF Row
    <3>5. \A j \in Keys \ {k} : intent'[j] = intent[j]
      BY <1>0, <3>1
    <3>6. Spent(k) = "spent" /\ Spent(k)' = "settled"
      BY <3>1, <3>4, SpentIs, SpentWillBe
    <3>7. \A j \in Keys \ {k} : Spent(j)' = Spent(j) /\ intent'[j].root = intent[j].root
      BY <3>5 DEF Spent
    <3>8. Single!Settle(k)
      <4> DEFINE stage == [j \in Keys |-> Spent(j)]
                 roots == [j \in Keys |-> intent[j].root]
      <4>1. stage' = [stage EXCEPT ![k] = "settled"]
        BY <3>6, <3>7
      <4>2. roots'[k] = 1
        BY <3>4
      <4>3. roots' = [roots EXCEPT ![k] = 1]
        BY <3>4, <3>7, ZenonT(30)
      <4>4. stage[k] = "spent"
        BY <3>6
      <4>5. roots' = [roots EXCEPT ![k] = roots'[k]] /\ roots'[k] # 0
        <5> HIDE DEF roots
        <5> QED
          BY <4>2, <4>3, SMT
      <4> QED
        BY <3>1, <3>3, <4>1, <4>4, <4>5 DEF Single!Settle
    <3> QED
      BY <3>8 DEF Single!Next
  <2> QED
    BY <2>1, <2>2
<1>6. CASE UNCHANGED supVars
  BY <1>1, <1>6 DEF supVars
<1>7. CASE Advance
  BY <1>1, <1>7 DEF Advance
<1>8. ASSUME NEW p \in Proc, Schedule(p) \/ CrashProcess(p) \/ \E b \in pubs : Invoke(p, b)
      PROVE  [Single!Next]_(Single!authority)
  BY <1>1, <1>8 DEF Schedule, CrashProcess, Invoke
<1>9. ASSUME NEW p \in Proc, CheckpointEntry(p) \/ BindBudgets(p) \/ RecoverTerminal(p) \/ LoadTerminal(p)
                               \/ ConsumeInvocation(p)
       PROVE  [Single!Next]_(Single!authority)
  BY <1>1, <1>9, ZenonT(30) DEF CheckpointEntry, BindBudgets, RecoverTerminal, LoadTerminal, ConsumeInvocation
<1>10. ASSUME NEW p \in Proc, CreateRun(p) \/ ReceiveAnswer(p) \/ SealEvidence(p)
                                \/ WriteReceipt(p) \/ SealReceipt(p)
       PROVE  [Single!Next]_(Single!authority)
  BY <1>1, <1>10 DEF CreateRun, ReceiveAnswer, SealEvidence, WriteReceipt, SealReceipt
<1> QED
  BY <1>2, <1>3, <1>4, <1>5, <1>6, <1>7, <1>8, <1>9, <1>10 DEF SupNext, InvocationStep

(* However many processes race, die and retry, a checkpoint's dispatch authority *)
(* is spent once, its provider call happens at most once and only then, and the  *)
(* journal is settled for good with that call's receipt (invocation_journal.py). *)
THEOREM DispatchIsSingleUse == SupSpec => ImplementsSingleUse
<1>1. SupInit => Single!Init
  BY RefinesInit
<1>2. IInv /\ IInv' /\ [SupNext]_supVars => [Single!Next]_(Single!authority)
  BY RefinesStep
<1> QED
  BY <1>1, <1>2, InvocationInvariant, PTL DEF SupSpec, ImplementsSingleUse, Single!Spec

-----------------------------------------------------------------------------
(* AgenticCoordination. *)

(* Induction, with the induction hypothesis as a set. *)

\* A set of numbers that is not empty has a least one.
LEMMA LeastElement ==
  ASSUME NEW T, T \subseteq Nat, T # {}
  PROVE  \E m \in T : \A k \in T : m <= k
<1>1. PICK x \in T : \A y \in T : ~(<<y, x>> \in OpToRel(<, Nat))
  BY WFMin, NatLessThanWellFounded
<1>2. \A i, j \in Nat : <<i, j>> \in OpToRel(<, Nat) <=> i < j BY DEF OpToRel
<1>3. x \in Nat /\ \A y \in T : y \in Nat /\ ~(y < x) BY <1>1, <1>2
<1>4. \A y \in T : x <= y BY <1>3, SMT
<1> QED BY <1>4

\* A set that holds 0 and the successor of its members holds every number.
LEMMA SetInduction ==
  ASSUME NEW T, 0 \in T, \A n \in Nat : n \in T => n + 1 \in T
  PROVE  Nat \subseteq T
<1> SUFFICES ASSUME ~(Nat \subseteq T) PROVE FALSE
  OBVIOUS
<1>1. PICK m \in Nat \ T : \A k \in Nat \ T : m <= k BY LeastElement
<1>2. m # 0 /\ m - 1 \in Nat /\ ~(m <= m - 1) BY <1>1, SMT
<1>3. m - 1 \in T BY <1>1, <1>2
<1> QED BY <1>1, <1>2, <1>3, SMT

\* min() of what a query selected is one of it.
LEMMA MinIsMember ==
  ASSUME NEW T, T \subseteq Nat, T # {}
  PROVE  Min(T) \in T
BY LeastElement DEF Min

-----------------------------------------------------------------------------
(* Sequences. *)

\* The rows of a table are numbered from one and all of its type.
LEMMA SeqParts ==
  ASSUME NEW S, NEW s \in Seq(S)
  PROVE  /\ Len(s) \in Nat /\ DOMAIN s = 1 .. Len(s)
         /\ \A i \in 1 .. Len(s) : s[i] \in S
BY SMT

\* A function on the first numbers is a sequence.
LEMMA SeqOfFunction ==
  ASSUME NEW S, NEW n \in Nat, NEW f, f \in [1 .. n -> S]
  PROVE  f \in Seq(S) /\ Len(f) = n
BY SMT

\* What appending rows to a table leaves and adds.
LEMMA SeqConcat ==
  ASSUME NEW S, NEW s \in Seq(S), NEW t \in Seq(S)
  PROVE  /\ s \o t \in Seq(S) /\ Len(s \o t) = Len(s) + Len(t)
         /\ \A i \in 1 .. Len(s) + Len(t) :
              (s \o t)[i] = IF i <= Len(s) THEN s[i] ELSE t[i - Len(s)]
BY SMT

\* What updating a row of a table leaves and changes.
LEMMA SeqUpdate ==
  ASSUME NEW S, NEW s \in Seq(S), NEW i \in 1 .. Len(s), NEW e \in S
  PROVE  /\ [s EXCEPT ![i] = e] \in Seq(S) /\ Len([s EXCEPT ![i] = e]) = Len(s)
         /\ \A j \in 1 .. Len(s) : [s EXCEPT ![i] = e][j] = IF j = i THEN e ELSE s[j]
BY SMT

-----------------------------------------------------------------------------
(* Types. *)

CommandRecord == [kind : {"spawn", "assign", "follow_up"}, agent : Session, last : Nat, terminal : BOOLEAN]

SessionState == {"none", "idle", "assigned", "blocked", "failed"}

Checkpoint == [rev : Nat, state : [Session -> SessionState], task : [Session -> Nat],
               cmds : Seq(CommandRecord), assigned : Nat]

Publication == [step : {"publish"}, source : Checkpoint, event : Nat \cup {None}, result : Checkpoint]

Delivery == [step : {"admit", "acknowledge"}, cmd : Nat]

DeliveryState == {"pending", "started", "acknowledged"}

TypeOK ==
  /\ head \in Checkpoint
  /\ outbox \in Seq(DeliveryState)
  /\ inbox \subseteq DOMAIN outbox
  /\ coord \in [Coordinator -> {Idle} \cup Publication]
  /\ carrier \in [Deliverer -> {Idle} \cup Delivery]

(* The types of a checkpoint's columns. *)
LEMMA CheckpointParts ==
  ASSUME NEW ck \in Checkpoint
  PROVE  /\ ck.rev \in Nat /\ ck.assigned \in Nat /\ ck.state \in [Session -> SessionState]
         /\ ck.task \in [Session -> Nat] /\ ck.cmds \in Seq(CommandRecord)
         /\ Len(ck.cmds) \in Nat /\ DOMAIN ck.cmds = 1 .. Len(ck.cmds)
         /\ \A c \in 1 .. Len(ck.cmds) : ck.cmds[c] \in CommandRecord
<1>1. ck.cmds \in Seq(CommandRecord) BY DEF Checkpoint
<1>2. /\ Len(ck.cmds) \in Nat /\ DOMAIN ck.cmds = 1 .. Len(ck.cmds)
      /\ \A c \in 1 .. Len(ck.cmds) : ck.cmds[c] \in CommandRecord
  BY <1>1, SeqParts
<1> QED BY <1>1, <1>2 DEF Checkpoint

-----------------------------------------------------------------------------
(* The Supervisor: what planning and an event do to a checkpoint. *)

Open(cmd, s) == cmd.agent = s /\ Assignment(cmd) /\ ~cmd.terminal

\* OneOpenAssignment of any checkpoint, command by command.
OneOpen(ck) ==
  \A s \in Session :
    /\ ck.state[s] = "assigned" => ck.task[s] \in 1 .. Len(ck.cmds)
    /\ \A c \in 1 .. Len(ck.cmds) :
         Open(ck.cmds[c], s) <=> ck.state[s] = "assigned" /\ ck.task[s] = c

\* What a cycle may make of the checkpoint it was planned on: it appends
\* commands no event has been reported for.
Grown(a, b) ==
  /\ b \in Checkpoint /\ Len(b.cmds) >= Len(a.cmds)
  /\ \A c \in 1 .. Len(a.cmds) : b.cmds[c] = a.cmds[c]
  /\ \A c \in (Len(a.cmds) + 1) .. Len(b.cmds) : b.cmds[c].last = 0
  /\ OneOpen(a) => OneOpen(b)

(* A checkpoint is grown from itself. *)
LEMMA GrownReflexive ==
  ASSUME NEW a \in Checkpoint
  PROVE  Grown(a, a)
BY CheckpointParts, SMT DEF Grown

(* Growth composes: a cycle that plans several commands only ever appends. *)
LEMMA GrownTransitive ==
  ASSUME NEW a \in Checkpoint, NEW b, NEW c, Grown(a, b), Grown(b, c)
  PROVE  Grown(a, c)
<1>1. b \in Checkpoint /\ c \in Checkpoint BY DEF Grown
<1>2. Len(a.cmds) \in Nat /\ Len(b.cmds) \in Nat /\ Len(c.cmds) \in Nat BY <1>1, CheckpointParts
<1>3. ASSUME NEW k \in 1 .. Len(a.cmds) PROVE c.cmds[k] = a.cmds[k]
  <2>1. k \in 1 .. Len(b.cmds) BY <1>2, SMT DEF Grown
  <2> QED BY <2>1 DEF Grown
<1>4. ASSUME NEW k \in (Len(a.cmds) + 1) .. Len(c.cmds) PROVE c.cmds[k].last = 0
  <2>1. CASE k \in (Len(b.cmds) + 1) .. Len(c.cmds) BY <2>1 DEF Grown
  <2>2. CASE k \in (Len(a.cmds) + 1) .. Len(b.cmds)
    <3>1. k \in 1 .. Len(b.cmds) BY <1>2, <2>2, SMT
    <3> QED BY <2>2, <3>1 DEF Grown
  <2>3. k \in (Len(b.cmds) + 1) .. Len(c.cmds) \/ k \in (Len(a.cmds) + 1) .. Len(b.cmds) BY <1>2, SMT
  <2> QED BY <2>1, <2>2, <2>3
<1>5. Len(c.cmds) >= Len(a.cmds) BY <1>2, SMT DEF Grown
<1>6. OneOpen(a) => OneOpen(c) BY DEF Grown
<1> QED BY <1>1, <1>3, <1>4, <1>5, <1>6 DEF Grown

\* _issue_command and the assignment of a session without an open one.
LEMMA AssignGrows ==
  ASSUME NEW ck \in Checkpoint, NEW s \in Session, NEW cmds \in Seq(CommandRecord),
         ck.state[s] # "assigned", Len(cmds) > 0,
         \A i \in 1 .. Len(cmds) :
           /\ cmds[i].agent = s /\ cmds[i].last = 0 /\ ~cmds[i].terminal
           /\ Assignment(cmds[i]) <=> i = Len(cmds)
  PROVE  Grown(ck, Assign(ck, s, cmds))
<1> DEFINE n == Len(ck.cmds)
           k == Len(cmds)
           all == ck.cmds \o cmds
           b == Assign(ck, s, cmds)
<1>1. /\ n \in Nat /\ k \in Nat /\ k > 0 /\ ck.state \in [Session -> SessionState]
      /\ ck.task \in [Session -> Nat] /\ ck.assigned \in Nat /\ ck.rev \in Nat
      /\ ck.cmds \in Seq(CommandRecord)
  BY CheckpointParts, SeqParts
<1>2. /\ all \in Seq(CommandRecord) /\ Len(all) = n + k
      /\ \A i \in 1 .. n + k : all[i] = IF i <= n THEN ck.cmds[i] ELSE cmds[i - n]
  BY <1>1, SeqConcat
<1>3. b = [ck EXCEPT !.state = [ck.state EXCEPT ![s] = "assigned"],
                     !.task = [ck.task EXCEPT ![s] = n + k], !.cmds = all, !.assigned = ck.assigned + 1]
  BY DEF Assign, Checkpoint
<1>4. /\ [ck.state EXCEPT ![s] = "assigned"] \in [Session -> SessionState]
      /\ [ck.task EXCEPT ![s] = n + k] \in [Session -> Nat]
      /\ ck.assigned + 1 \in Nat
  BY <1>1, SMT DEF SessionState
<1> HIDE DEF n, k, all, b
<1>0. n \in Nat /\ k \in Nat /\ k > 0 BY <1>1
<1>5. b \in Checkpoint BY <1>2, <1>3, <1>4 DEF Checkpoint
<1>6. /\ b.cmds = all /\ b.state = [ck.state EXCEPT ![s] = "assigned"]
      /\ b.task = [ck.task EXCEPT ![s] = n + k]
  BY <1>3 DEF Checkpoint
<1>7. ASSUME NEW i \in 1 .. n PROVE all[i] = ck.cmds[i]
  <2>1. i \in 1 .. n + k /\ i <= n BY <1>0, SMT
  <2> QED BY <1>2, <2>1
<1>8. ASSUME NEW i \in (n + 1) .. (n + k)
      PROVE  /\ all[i].agent = s /\ all[i].last = 0 /\ ~all[i].terminal
             /\ Assignment(all[i]) <=> i = n + k
  <2>1. i \in 1 .. n + k /\ ~(i <= n) /\ i - n \in 1 .. k /\ (i - n = k <=> i = n + k) BY <1>0, SMT
  <2>2. all[i] = cmds[i - n] BY <1>2, <2>1
  <2> QED BY <2>1, <2>2 DEF k
<1>9. ASSUME OneOpen(ck) PROVE OneOpen(b)
  <2> SUFFICES ASSUME NEW t \in Session
               PROVE  /\ b.state[t] = "assigned" => b.task[t] \in 1 .. n + k
                      /\ \A c \in 1 .. n + k :
                           Open(all[c], t) <=> b.state[t] = "assigned" /\ b.task[t] = c
    BY <1>2, <1>6 DEF OneOpen
  <2>1. /\ ck.state[t] = "assigned" => ck.task[t] \in 1 .. n
        /\ \A c \in 1 .. n : Open(ck.cmds[c], t) <=> ck.state[t] = "assigned" /\ ck.task[t] = c
    BY <1>9 DEF OneOpen, n
  <2>2. CASE t = s
    <3>1. b.state[t] = "assigned" /\ b.task[t] = n + k BY <1>1, <1>6, <2>2
    <3>2. ASSUME NEW c \in 1 .. n PROVE ~Open(all[c], t) /\ c # n + k
      <4>1. c # n + k BY <1>0, SMT
      <4> QED BY <1>7, <2>1, <2>2, <4>1
    <3>3. ASSUME NEW c \in (n + 1) .. (n + k) PROVE Open(all[c], t) <=> c = n + k
      BY <1>8, <2>2 DEF Open
    <3>4. \A c \in 1 .. n + k : c \in 1 .. n \/ c \in (n + 1) .. (n + k) BY <1>0, SMT
    <3>5. n + k \in 1 .. n + k BY <1>0, SMT
    <3> QED BY <3>1, <3>2, <3>3, <3>4, <3>5
  <2>3. CASE t # s
    <3>1. b.state[t] = ck.state[t] /\ b.task[t] = ck.task[t] BY <1>1, <1>6, <2>3
    <3>2. ASSUME NEW c \in 1 .. n PROVE Open(all[c], t) <=> b.state[t] = "assigned" /\ b.task[t] = c
      BY <1>7, <2>1, <3>1
    <3>3. ASSUME NEW c \in (n + 1) .. (n + k) PROVE ~Open(all[c], t)
      BY <1>8, <2>3 DEF Open
    <3>4. \A c \in 1 .. n + k : c \in 1 .. n \/ c \in (n + 1) .. (n + k) BY <1>0, SMT
    <3>5. ASSUME b.state[t] = "assigned" PROVE b.task[t] \in 1 .. n /\ b.task[t] \in 1 .. n + k
      <4>1. b.task[t] \in 1 .. n BY <2>1, <3>1, <3>5
      <4> QED BY <1>0, <4>1, SMT
    <3>6. \A c \in (n + 1) .. (n + k) : c \notin 1 .. n BY <1>0, SMT
    <3> QED BY <3>2, <3>3, <3>4, <3>5, <3>6
  <2> QED BY <2>2, <2>3
<1>10. n <= n + k BY <1>0, SMT
<1> QED BY <1>1, <1>2, <1>5, <1>6, <1>7, <1>8, <1>9, <1>10 DEF Grown, n, b

(* A fresh command is well formed, names its agent and has no event yet. *)
LEMMA CommandType ==
  ASSUME NEW s \in Session, NEW kind \in {"spawn", "assign", "follow_up"}
  PROVE  /\ Command(kind, s) \in CommandRecord /\ Command(kind, s).agent = s
         /\ Command(kind, s).last = 0 /\ ~Command(kind, s).terminal
         /\ Assignment(Command(kind, s)) <=> kind # "spawn"
BY DEF Command, CommandRecord, Assignment

\* _allocate, in each of its branches.
LEMMA AllocateGrows ==
  ASSUME NEW ck \in Checkpoint
  PROVE  Grown(ck, Allocate(ck))
<1> DEFINE fresh == In(ck, {"none"})
           r == Min(Reusable(ck))
           f == Min(fresh)
<1>1. Session \subseteq Nat BY SMT DEF Session
<1>2. CASE Reusable(ck) # {}
  <2>1. r \in Reusable(ck) BY <1>1, <1>2, MinIsMember DEF Reusable, In
  <2>2. r \in Session /\ ck.state[r] # "assigned" BY <2>1 DEF Reusable, In
  <2> HIDE DEF r
  <2>3. /\ Command("follow_up", r) \in CommandRecord /\ Command("follow_up", r).agent = r
        /\ Command("follow_up", r).last = 0 /\ ~Command("follow_up", r).terminal
        /\ Assignment(Command("follow_up", r))
    BY <2>2, CommandType
  <2> DEFINE q == <<Command("follow_up", r)>>
  <2>4. q \in Seq(CommandRecord) /\ Len(q) = 1 /\ q[1] = Command("follow_up", r) BY <2>3, SMT
  <2> HIDE DEF q
  <2>5. \A i \in 1 .. Len(q) : i = 1 BY <2>4, SMT
  <2>6. \A i \in 1 .. Len(q) :
           /\ q[i].agent = r /\ q[i].last = 0 /\ ~q[i].terminal
           /\ Assignment(q[i]) <=> i = Len(q)
    BY <2>3, <2>4, <2>5
  <2>7. Len(q) > 0 BY <2>4, SMT
  <2>8. Grown(ck, Assign(ck, r, q)) BY <2>2, <2>4, <2>6, <2>7, AssignGrows
  <2> QED BY <1>2, <2>8, GrownReflexive DEF Allocate, r, q
<1>3. CASE Reusable(ck) = {} /\ fresh # {}
  <2>1. f \in fresh BY <1>1, <1>3, MinIsMember DEF In
  <2>2. f \in Session /\ ck.state[f] # "assigned" BY <2>1 DEF In
  <2> DEFINE q == <<Command("spawn", f), Command("assign", f)>>
  <2> HIDE DEF f
  <2>3. /\ Command("spawn", f) \in CommandRecord /\ Command("spawn", f).agent = f
        /\ Command("spawn", f).last = 0 /\ ~Command("spawn", f).terminal
        /\ ~Assignment(Command("spawn", f))
        /\ Command("assign", f) \in CommandRecord /\ Command("assign", f).agent = f
        /\ Command("assign", f).last = 0 /\ ~Command("assign", f).terminal
        /\ Assignment(Command("assign", f))
    BY <2>2, CommandType
  <2>4. /\ q \in Seq(CommandRecord) /\ Len(q) = 2
        /\ q[1] = Command("spawn", f) /\ q[2] = Command("assign", f)
    BY <2>3, SMT
  <2> HIDE DEF q
  <2>5. \A i \in 1 .. Len(q) : i = 1 \/ i = 2 BY <2>4, SMT
  <2>6. \A i \in 1 .. Len(q) :
           /\ q[i].agent = f /\ q[i].last = 0 /\ ~q[i].terminal
           /\ Assignment(q[i]) <=> i = Len(q)
    BY <2>3, <2>4, <2>5
  <2>7. Len(q) > 0 BY <2>4, SMT
  <2>8. Grown(ck, Assign(ck, f, q)) BY <2>2, <2>4, <2>6, <2>7, AssignGrows
  <2> QED BY <1>3, <2>8, GrownReflexive DEF Allocate, f, q
<1>4. CASE Reusable(ck) = {} /\ fresh = {} BY <1>4, GrownReflexive DEF Allocate
<1> QED BY <1>2, <1>3, <1>4

\* The selections of plan_cycle one after the other: LET after of PlanCycle.
IsPlanning(g, ck, n) == g = [i \in 0 .. n |-> IF i = 0 THEN ck ELSE Allocate(g[i - 1])]
Planning(ck, n) == CHOOSE g : IsPlanning(g, ck, n)

(* The recursion of a planning cycle has a solution. *)
LEMMA PlanningExists ==
  ASSUME NEW ck, NEW n \in Nat
  PROVE  IsPlanning(Planning(ck, n), ck, n)
<1> DEFINE T == {m \in Nat : \E g : IsPlanning(g, ck, m)}
<1>1. 0 \in T
  <2> DEFINE g == [i \in 0 .. 0 |-> ck]
             k == [i \in 0 .. 0 |-> IF i = 0 THEN ck ELSE Allocate(g[i - 1])]
  <2>0. \A i \in 0 .. 0 : g[i] = k[i] BY SMT
  <2>1. IsPlanning(g, ck, 0) BY <2>0 DEF IsPlanning
  <2> QED BY <2>1
<1>2. ASSUME NEW m \in Nat, m \in T PROVE m + 1 \in T
  <2>1. PICK g : IsPlanning(g, ck, m) BY <1>2
  <2> DEFINE h == [i \in 0 .. m + 1 |-> IF i = m + 1 THEN Allocate(g[m]) ELSE g[i]]
             k == [i \in 0 .. m + 1 |-> IF i = 0 THEN ck ELSE Allocate(h[i - 1])]
  <2>2. ASSUME NEW i \in 0 .. m + 1
        PROVE  h[i] = IF i = 0 THEN ck ELSE Allocate(h[i - 1])
    <3>1. CASE i = m + 1
      <4>1. i - 1 = m /\ m \in 0 .. m + 1 /\ i # 0 /\ m # m + 1 BY <3>1, SMT
      <4>2. h[m] = g[m] /\ h[i] = Allocate(g[m]) BY <3>1, <4>1
      <4> QED BY <4>1, <4>2
    <3>2. CASE i # m + 1 /\ i # 0
      <4>1. i \in 0 .. m /\ i - 1 \in 0 .. m + 1 /\ i - 1 # m + 1 BY <3>2, SMT
      <4>2. h[i] = g[i] /\ h[i - 1] = g[i - 1] BY <3>2, <4>1
      <4>3. g[i] = Allocate(g[i - 1]) BY <2>1, <3>2, <4>1 DEF IsPlanning
      <4> QED BY <3>2, <4>2, <4>3
    <3>3. CASE i = 0
      <4>1. 0 \in 0 .. m /\ 0 # m + 1 BY SMT
      <4>2. g[0] = ck BY <2>1, <4>1 DEF IsPlanning
      <4> QED BY <3>3, <4>1, <4>2
    <3> QED BY <3>1, <3>2, <3>3
  <2>3. h = k
    <3>1. \A i \in 0 .. m + 1 : h[i] = k[i] BY <2>2
    <3> QED BY <3>1
  <2>4. IsPlanning(h, ck, m + 1) BY <2>3 DEF IsPlanning
  <2> QED BY <2>4, SMT
<1>3. Nat \subseteq T BY <1>1, <1>2, SetInduction
<1> QED BY <1>3 DEF Planning

(* Planning any number of commands grows the checkpoint. *)
LEMMA PlanningGrows ==
  ASSUME NEW ck \in Checkpoint, NEW n \in Nat
  PROVE  Grown(ck, Planning(ck, n)[n])
<1> DEFINE g == Planning(ck, n)
           T == {i \in Nat : i <= n => Grown(ck, g[i])}
<1>1. ASSUME NEW i \in 0 .. n PROVE g[i] = IF i = 0 THEN ck ELSE Allocate(g[i - 1])
  <2>1. g = [j \in 0 .. n |-> IF j = 0 THEN ck ELSE Allocate(g[j - 1])]
    BY PlanningExists DEF IsPlanning
  <2> QED BY <2>1
<1> HIDE DEF g
<1>2. 0 \in T BY <1>1, GrownReflexive, SMT
<1>3. ASSUME NEW i \in Nat, i \in T PROVE i + 1 \in T
  <2> SUFFICES ASSUME i + 1 <= n PROVE Grown(ck, g[i + 1])
    BY SMT
  <2>1. Grown(ck, g[i]) BY <1>3, SMT
  <2>2. g[i + 1] = Allocate(g[i])
    <3>1. i + 1 \in 0 .. n /\ i + 1 # 0 /\ (i + 1) - 1 = i BY SMT
    <3> QED BY <1>1, <3>1
  <2>3. Grown(g[i], Allocate(g[i])) BY <2>1, AllocateGrows DEF Grown
  <2> QED BY <2>1, <2>2, <2>3, GrownTransitive
<1>4. n \in T BY <1>2, <1>3, SetInduction
<1> QED BY <1>4, SMT DEF g

\* plan_cycle.
LEMMA PlanCycleGrows ==
  ASSUME NEW ck \in Checkpoint, NEW n \in Nat
  PROVE  Grown(ck, PlanCycle(ck, n))
<1> DEFINE b == Planning(ck, n)[n]
<1>1. PlanCycle(ck, n) = [b EXCEPT !.rev = b.rev + 1] BY DEF PlanCycle, Planning, IsPlanning
<1>2. Grown(ck, b) BY PlanningGrows
<1> HIDE DEF b
<1>3. b \in Checkpoint /\ b.rev \in Nat BY <1>2 DEF Grown, Checkpoint
<1>4. b.rev + 1 \in Nat BY <1>3, SMT
<1>5. PlanCycle(ck, n) \in Checkpoint BY <1>1, <1>3, <1>4 DEF Checkpoint
<1>6. /\ PlanCycle(ck, n).cmds = b.cmds /\ PlanCycle(ck, n).state = b.state
      /\ PlanCycle(ck, n).task = b.task
  BY <1>1, <1>3 DEF Checkpoint
<1> QED BY <1>2, <1>5, <1>6, SMT DEF Grown, OneOpen

\* What an event may make of the checkpoint: it is noted with its command.
Reported(a, c, b) ==
  /\ b \in Checkpoint /\ Len(b.cmds) = Len(a.cmds)
  /\ \A k \in 1 .. Len(a.cmds) : b.cmds[k].agent = a.cmds[k].agent /\ (k # c => b.cmds[k] = a.cmds[k])
  /\ OneOpen(a) => OneOpen(b)

\* accept_event.
LEMMA AcceptEventReports ==
  ASSUME NEW ck \in Checkpoint, NEW c \in 1 .. Len(ck.cmds), NEW kind \in EventKinds,
         EventFits(ck, c, kind)
  PROVE  Reported(ck, c, AcceptEvent(ck, c, kind))
<1> DEFINE cmd == ck.cmds[c]
           s == cmd.agent
           ends == Assignment(cmd) /\ kind \in TerminalEvents
           last == cmd.last + 1
           over == ~Assignment(cmd) \/ ends
           done == [cmd EXCEPT !.last = last, !.terminal = over]
           task == IF ends THEN 0 ELSE ck.task[s]
           state == IF ~ends THEN ck.state[s] ELSE IF kind = "final" THEN "idle" ELSE kind
           b == AcceptEvent(ck, c, kind)
<1>1. /\ ck.state \in [Session -> SessionState] /\ ck.task \in [Session -> Nat] /\ ck.rev \in Nat
      /\ ck.cmds \in Seq(CommandRecord) /\ Len(ck.cmds) \in Nat /\ cmd \in CommandRecord
      /\ \A k \in 1 .. Len(ck.cmds) : ck.cmds[k] \in CommandRecord
  BY CheckpointParts
<1>2. s \in Session /\ last \in Nat /\ over \in BOOLEAN /\ task \in Nat /\ state \in SessionState
  <2>0. s \in Session /\ cmd.last \in Nat BY <1>1 DEF CommandRecord
  <2>1. s \in Session /\ last \in Nat
    <3> HIDE DEF cmd, s
    <3> QED BY <2>0, SMT
  <2>2. task \in Nat /\ ck.state[s] \in SessionState BY <1>1, <2>1
  <2>3. kind \in TerminalEvents => kind \in SessionState \/ kind = "final"
    BY DEF TerminalEvents, SessionState
  <2>4. state \in SessionState BY <2>2, <2>3 DEF SessionState
  <2> QED BY <2>1, <2>2, <2>4
<1>3. /\ done \in CommandRecord /\ done.agent = s /\ done.terminal = over
      /\ Assignment(done) <=> Assignment(cmd)
  <2> HIDE DEF cmd, over, last
  <2>2. done \in CommandRecord BY <1>1, <1>2 DEF CommandRecord
  <2>3. done.agent = cmd.agent /\ done.kind = cmd.kind /\ done.terminal = over
    BY <1>1 DEF CommandRecord
  <2> QED BY <2>2, <2>3 DEF Assignment
<1>4. b = [ck EXCEPT !.rev = ck.rev + 1, !.cmds = [ck.cmds EXCEPT ![c] = done],
                     !.task = [ck.task EXCEPT ![s] = task], !.state = [ck.state EXCEPT ![s] = state]]
  BY DEF AcceptEvent
<1>5. /\ [ck.cmds EXCEPT ![c] = done] \in Seq(CommandRecord)
      /\ Len([ck.cmds EXCEPT ![c] = done]) = Len(ck.cmds)
      /\ \A j \in 1 .. Len(ck.cmds) : [ck.cmds EXCEPT ![c] = done][j] = IF j = c THEN done ELSE ck.cmds[j]
  BY <1>1, <1>3, SeqUpdate, SMT
<1>6. ck.rev + 1 \in Nat BY <1>1, SMT
<1>7. /\ [ck.task EXCEPT ![s] = task] \in [Session -> Nat]
      /\ [ck.state EXCEPT ![s] = state] \in [Session -> SessionState]
  BY <1>1, <1>2
<1>8. ends => Assignment(cmd) /\ ck.state[s] = "assigned" /\ ck.task[s] = c /\ state # "assigned"
  BY DEF EventFits, EventKinds
<1>9. ~cmd.terminal BY DEF EventFits
<1> HIDE DEF b, done, task, state, last
<1>10. b \in Checkpoint BY <1>4, <1>5, <1>6, <1>7 DEF Checkpoint
<1>11. /\ b.cmds = [ck.cmds EXCEPT ![c] = done] /\ b.task = [ck.task EXCEPT ![s] = task]
       /\ b.state = [ck.state EXCEPT ![s] = state]
  BY <1>4 DEF Checkpoint
<1>12. \A k \in 1 .. Len(ck.cmds) : b.cmds[k] = IF k = c THEN done ELSE ck.cmds[k]
  BY <1>5, <1>11
<1>13. Len(b.cmds) = Len(ck.cmds) BY <1>5, <1>11
<1>14. ASSUME OneOpen(ck) PROVE OneOpen(b)
  <2> SUFFICES ASSUME NEW t \in Session
               PROVE  /\ b.state[t] = "assigned" => b.task[t] \in 1 .. Len(ck.cmds)
                      /\ \A k \in 1 .. Len(ck.cmds) :
                           Open(b.cmds[k], t) <=> b.state[t] = "assigned" /\ b.task[t] = k
    BY <1>13 DEF OneOpen
  <2>1. /\ ck.state[t] = "assigned" => ck.task[t] \in 1 .. Len(ck.cmds)
        /\ \A k \in 1 .. Len(ck.cmds) : Open(ck.cmds[k], t) <=> ck.state[t] = "assigned" /\ ck.task[t] = k
    BY <1>14 DEF OneOpen
  <2>2. /\ t # s => b.state[t] = ck.state[t] /\ b.task[t] = ck.task[t]
        /\ t = s => b.state[t] = state /\ b.task[t] = task
    BY <1>1, <1>2, <1>11
  <2>3. CASE ends /\ t = s
    <3>1. b.state[t] # "assigned" BY <1>8, <2>2, <2>3
    <3>2. ASSUME NEW k \in 1 .. Len(ck.cmds) PROVE ~Open(b.cmds[k], t)
      <4>1. CASE k = c BY <1>3, <1>12, <2>3, <4>1 DEF Open
      <4>2. CASE k # c BY <1>8, <1>12, <2>1, <2>3, <4>2
      <4> QED BY <4>1, <4>2
    <3> QED BY <3>1, <3>2
  <2>4. CASE ~(ends /\ t = s)
    <3>1. b.state[t] = ck.state[t] /\ b.task[t] = ck.task[t] BY <2>2, <2>4 DEF state, task
    <3>2. ASSUME NEW k \in 1 .. Len(ck.cmds) PROVE Open(b.cmds[k], t) <=> Open(ck.cmds[k], t)
      <4>1. CASE k = c BY <1>3, <1>9, <1>12, <2>4, <4>1 DEF Open
      <4>2. CASE k # c BY <1>12, <4>2
      <4> QED BY <4>1, <4>2
    <3> QED BY <2>1, <3>1, <3>2
  <2> QED BY <2>3, <2>4
<1> QED BY <1>3, <1>10, <1>12, <1>13, <1>14 DEF Reported, b

-----------------------------------------------------------------------------
(* The inductive invariant. *)

\* A delivery begins when all earlier ones to the agent are acknowledged.
DeliveredInOrder ==
  \A c \in 1 .. Len(outbox) : outbox[c] # "pending" =>
    \A e \in 1 .. (c - 1) : head.cmds[e].agent = head.cmds[c].agent => outbox[e] = "acknowledged"

\* What is admitted was claimed, what is acknowledged was admitted, and what
\* has an event was acknowledged.
Receipts ==
  \A c \in 1 .. Len(outbox) :
    /\ c \in inbox => outbox[c] # "pending"
    /\ outbox[c] = "acknowledged" => c \in inbox
    /\ head.cmds[c].last > 0 => outbox[c] = "acknowledged"

\* What a coordinator is about to publish follows from the head it read.
Prepared(x) ==
  x.step = "publish" =>
    IF x.event = None THEN Grown(x.source, x.result)
    ELSE x.event \in 1 .. Len(x.source.cmds) /\ Reported(x.source, x.event, x.result)

Publications == \A p \in Coordinator : Prepared(coord[p])

Deliveries == \A d \in Deliverer : carrier[d].step # "idle" => carrier[d].cmd \in 1 .. Len(outbox)

CoordinationInv ==
  /\ TypeOK /\ OutboxIsHeads /\ OneOpen(head)
  /\ DeliveredInOrder /\ Receipts /\ Publications /\ Deliveries

(* The outbox as a sequence of delivery states. *)
LEMMA OutboxLength ==
  ASSUME TypeOK
  PROVE  /\ Len(outbox) \in Nat /\ DOMAIN outbox = 1 .. Len(outbox)
         /\ \A c \in 1 .. Len(outbox) : outbox[c] \in DeliveryState
BY SeqParts DEF TypeOK

-----------------------------------------------------------------------------
(* Publications. *)

(* A coordinator that prepares a publication, or drops one, keeps the *)
(* invariant.                                                         *)
LEMMA PreparesKeeps ==
  ASSUME CoordinationInv, NEW p \in Coordinator, NEW x \in {Idle} \cup Publication, Prepared(x),
         coord' = [coord EXCEPT ![p] = x], UNCHANGED <<head, outbox, inbox, carrier>>
  PROVE  CoordinationInv'
<1>1. TypeOK' BY DEF CoordinationInv, TypeOK
<1>2. OutboxIsHeads' /\ OneOpen(head)' /\ DeliveredInOrder' /\ Receipts' /\ Deliveries'
  BY DEF CoordinationInv, OutboxIsHeads, OneOpen, DeliveredInOrder, Receipts, Deliveries
<1>3. Publications'
  <2> SUFFICES ASSUME NEW q \in Coordinator PROVE Prepared(coord'[q])
    BY DEF Publications, Prepared, Grown, Reported, OneOpen
  <2>1. coord'[q] = IF q = p THEN x ELSE coord[q] BY DEF CoordinationInv, TypeOK
  <2> QED BY <2>1 DEF CoordinationInv, Publications
<1> QED BY <1>1, <1>2, <1>3 DEF CoordinationInv

(* A coordinator with nothing to publish is prepared. *)
LEMMA IdlePrepared == Idle \in {Idle} \cup Publication /\ Prepared(Idle)
BY DEF Idle, Prepared

(* Reading the head and planning a cycle keeps the invariant. *)
LEMMA ReadAndPlanKeeps ==
  ASSUME CoordinationInv, NEW p \in Coordinator, NEW n \in 0 .. BeamWidth, ReadAndPlan(p, n)
  PROVE  CoordinationInv'
<1> DEFINE x == [step |-> "publish", source |-> head, event |-> None, result |-> PlanCycle(head, n)]
<1>1. head \in Checkpoint /\ n \in Nat BY CoordinationAssumption, SMT DEF CoordinationInv, TypeOK
<1>2. Grown(head, PlanCycle(head, n)) /\ PlanCycle(head, n) \in Checkpoint
  BY <1>1, PlanCycleGrows DEF Grown
<1>3. x \in Publication BY <1>1, <1>2 DEF Publication
<1>4. Prepared(x) BY <1>2 DEF Prepared
<1>5. coord' = [coord EXCEPT ![p] = x] /\ UNCHANGED <<head, outbox, inbox, carrier>> BY DEF ReadAndPlan
<1> QED BY <1>3, <1>4, <1>5, PreparesKeeps

(* Reading the head and accepting an event keeps the invariant. *)
LEMMA ReadAndAcceptKeeps ==
  ASSUME CoordinationInv, NEW p \in Coordinator, NEW c \in DOMAIN outbox, NEW kind \in EventKinds,
         ReadAndAccept(p, c, kind)
  PROVE  CoordinationInv'
<1> DEFINE x == [step |-> "publish", source |-> head, event |-> c, result |-> AcceptEvent(head, c, kind)]
<1>1. head \in Checkpoint /\ c \in 1 .. Len(head.cmds) /\ c \in Nat /\ EventFits(head, c, kind)
  BY OutboxLength, SMT DEF CoordinationInv, TypeOK, OutboxIsHeads, ReadAndAccept
<1>2. Reported(head, c, AcceptEvent(head, c, kind)) /\ AcceptEvent(head, c, kind) \in Checkpoint
  BY <1>1, AcceptEventReports DEF Reported
<1>3. x \in Publication BY <1>1, <1>2 DEF Publication
<1>4. Prepared(x) BY <1>1, <1>2, CoordinationAssumption DEF Prepared
<1>5. coord' = [coord EXCEPT ![p] = x] /\ UNCHANGED <<head, outbox, inbox, carrier>> BY DEF ReadAndAccept
<1> QED BY <1>3, <1>4, <1>5, PreparesKeeps

\* Whatever a publication does, coordinators hold what they held or nothing.
LEMMA StillPrepared ==
  ASSUME CoordinationInv, NEW p \in Coordinator, Answered(p) \/ AnswerLost(p)
  PROVE  /\ coord' \in [Coordinator -> {Idle} \cup Publication]
         /\ \A q \in Coordinator : Prepared(coord'[q])
<1>1. coord \in [Coordinator -> {Idle} \cup Publication] /\ \A q \in Coordinator : Prepared(coord[q])
  BY DEF CoordinationInv, TypeOK, Publications
<1>2. CASE Answered(p)
  <2>1. coord' = [coord EXCEPT ![p] = Idle] BY <1>2 DEF Answered
  <2>2. \A q \in Coordinator : coord'[q] = IF q = p THEN Idle ELSE coord[q] BY <1>1, <2>1
  <2> QED BY <1>1, <2>1, <2>2, IdlePrepared
<1>3. CASE AnswerLost(p) BY <1>1, <1>3 DEF AnswerLost
<1> QED BY <1>2, <1>3

(* An answer that writes nothing keeps the invariant. *)
LEMMA NoChange ==
  ASSUME CoordinationInv, NEW p \in Coordinator, Answered(p), UNCHANGED <<head, outbox, inbox, carrier>>
  PROVE  CoordinationInv'
BY IdlePrepared, PreparesKeeps DEF Answered

\* The rows publish_cycle inserts.
LEMMA PendingRows ==
  ASSUME NEW k \in Nat
  PROVE  LET rows == [i \in 1 .. k |-> "pending"]
         IN rows \in Seq(DeliveryState) /\ Len(rows) = k /\ \A i \in 1 .. k : rows[i] = "pending"
<1> DEFINE rows == [i \in 1 .. k |-> "pending"]
<1>1. rows \in [1 .. k -> DeliveryState] BY DEF DeliveryState
<1>2. rows \in Seq(DeliveryState) BY <1>1, SeqOfFunction
<1>3. DOMAIN rows = 1 .. k /\ \A i \in 1 .. k : rows[i] = "pending" OBVIOUS
<1> HIDE DEF rows
<1>4. Len(rows) \in Nat /\ DOMAIN rows = 1 .. Len(rows) BY <1>2, SeqParts
<1>5. Len(rows) = k BY <1>3, <1>4, SMT
<1> QED BY <1>2, <1>3, <1>5 DEF rows

(* Publishing a planned cycle, or losing the race for the head, keeps the *)
(* invariant.                                                             *)
LEMMA PublishCycleKeeps ==
  ASSUME CoordinationInv, NEW p \in Coordinator, PublishCycle(p)
  PROVE  CoordinationInv'
<1> DEFINE a == coord[p].source
           b == coord[p].result
           n == Len(a.cmds)
           m == Len(b.cmds)
           rows == [i \in 1 .. (m - n) |-> "pending"]
<1>1. CASE ~HeadIs(a, b)
  <2>1. Answered(p) /\ UNCHANGED <<head, outbox, inbox, carrier>> BY <1>1 DEF PublishCycle
  <2> QED BY <2>1, NoChange
<1>2. CASE HeadIs(a, b)
  <2>1. /\ head = a /\ head' = b /\ outbox' = outbox \o rows /\ UNCHANGED <<inbox, carrier>>
        /\ (Answered(p) \/ AnswerLost(p)) /\ coord[p].step = "publish" /\ coord[p].event = None
    BY <1>2 DEF PublishCycle, HeadIs
  <2>2. a \in Checkpoint /\ Grown(a, b) /\ OneOpen(b)
    BY <1>2, <2>1 DEF CoordinationInv, TypeOK, Publications, Prepared, PublishCycle, Grown
  <2>3. b \in Checkpoint /\ n \in Nat /\ m \in Nat /\ m >= n /\ m - n \in Nat
    BY <2>2, CheckpointParts, SMT DEF Grown
  <2> HIDE DEF n, m
  <2>4. rows \in Seq(DeliveryState) /\ Len(rows) = m - n /\ \A i \in 1 .. (m - n) : rows[i] = "pending"
    BY <2>3, PendingRows
  <2> HIDE DEF rows
  <2>5. outbox \in Seq(DeliveryState) /\ Len(outbox) = n
    BY <2>1 DEF CoordinationInv, TypeOK, OutboxIsHeads, n
  <2>6. /\ outbox' \in Seq(DeliveryState) /\ Len(outbox') = n + (m - n)
        /\ \A i \in 1 .. n + (m - n) : outbox'[i] = IF i <= n THEN outbox[i] ELSE rows[i - n]
    <3>1. /\ outbox \o rows \in Seq(DeliveryState) /\ Len(outbox \o rows) = Len(outbox) + Len(rows)
          /\ \A i \in 1 .. Len(outbox) + Len(rows) :
               (outbox \o rows)[i] = IF i <= Len(outbox) THEN outbox[i] ELSE rows[i - Len(outbox)]
      BY <2>4, <2>5, SeqConcat
    <3> QED BY <2>1, <2>4, <2>5, <3>1
  <2>7. Len(outbox') = m /\ n + (m - n) = m BY <2>3, <2>6, SMT
  <2>8. ASSUME NEW i \in 1 .. n PROVE outbox'[i] = outbox[i] /\ i \in 1 .. m /\ head'.cmds[i] = head.cmds[i]
    <3>1. i \in 1 .. n + (m - n) /\ i <= n /\ i \in 1 .. m BY <2>3, <2>7, SMT
    <3>2. outbox'[i] = outbox[i] BY <2>6, <3>1
    <3>3. b.cmds[i] = a.cmds[i] BY <2>2 DEF Grown, n
    <3> QED BY <2>1, <3>1, <3>2, <3>3
  <2>9. ASSUME NEW i \in (n + 1) .. m
        PROVE  outbox'[i] = "pending" /\ i \notin inbox /\ head'.cmds[i].last = 0
    <3>1. i \in 1 .. n + (m - n) /\ ~(i <= n) /\ i - n \in 1 .. (m - n) /\ i \notin 1 .. n BY <2>3, SMT
    <3>2. inbox \subseteq 1 .. n BY <2>5, OutboxLength DEF CoordinationInv, TypeOK
    <3>3. b.cmds[i].last = 0 BY <2>2 DEF Grown, n, m
    <3> QED BY <2>1, <2>4, <2>6, <3>1, <3>2, <3>3
  <2>10. \A i \in 1 .. m : i \in 1 .. n \/ i \in (n + 1) .. m BY <2>3, SMT
  <2>11. TypeOK'
    <3>1. inbox \subseteq 1 .. n BY <2>5, OutboxLength DEF CoordinationInv, TypeOK
    <3>2. DOMAIN outbox' = 1 .. m BY <2>6, <2>7, SeqParts
    <3>3. inbox' \subseteq DOMAIN outbox' BY <2>1, <2>8, <3>1, <3>2
    <3> QED BY <2>1, <2>3, <2>6, <3>3, StillPrepared DEF TypeOK, CoordinationInv
  <2>12. OutboxIsHeads' BY <2>1, <2>7 DEF OutboxIsHeads, m
  <2>13. OneOpen(head)' BY <2>1, <2>2 DEF OneOpen
  <2>14. DeliveredInOrder'
    <3> SUFFICES ASSUME NEW c \in 1 .. m, outbox'[c] # "pending", NEW e \in 1 .. (c - 1),
                        head'.cmds[e].agent = head'.cmds[c].agent
                 PROVE  outbox'[e] = "acknowledged"
      BY <2>7 DEF DeliveredInOrder
    <3>1. c \in 1 .. n BY <2>9, <2>10
    <3>2. e \in 1 .. n BY <2>3, <3>1, SMT
    <3> QED BY <2>5, <2>8, <3>1, <3>2 DEF CoordinationInv, DeliveredInOrder
  <2>15. Receipts'
    <3> SUFFICES ASSUME NEW c \in 1 .. m
                 PROVE  /\ c \in inbox => outbox'[c] # "pending"
                        /\ outbox'[c] = "acknowledged" => c \in inbox
                        /\ head'.cmds[c].last > 0 => outbox'[c] = "acknowledged"
      BY <2>1, <2>7 DEF Receipts
    <3>1. CASE c \in 1 .. n BY <2>5, <2>8, <3>1 DEF CoordinationInv, Receipts
    <3>2. CASE c \in (n + 1) .. m BY <2>9, <3>2, SMT
    <3> QED BY <2>10, <3>1, <3>2
  <2>16. Publications'
    BY <2>1, StillPrepared DEF Publications, Prepared, Grown, Reported, OneOpen
  <2>17. Deliveries' BY <2>1, <2>5, <2>7, <2>8 DEF CoordinationInv, Deliveries
  <2> QED BY <2>11, <2>12, <2>13, <2>14, <2>15, <2>16, <2>17 DEF CoordinationInv
<1> QED BY <1>1, <1>2

(* Publishing an accepted event, or losing the race for the head, keeps the *)
(* invariant.                                                               *)
LEMMA PublishEventKeeps ==
  ASSUME CoordinationInv, NEW p \in Coordinator, PublishEvent(p)
  PROVE  CoordinationInv'
<1> DEFINE a == coord[p].source
           b == coord[p].result
           v == coord[p].event
<1>1. CASE ~(HeadIs(a, b) /\ CommandAcknowledged(v))
  <2>1. Answered(p) /\ UNCHANGED <<head, outbox, inbox, carrier>> BY <1>1 DEF PublishEvent
  <2> QED BY <2>1, NoChange
<1>2. CASE HeadIs(a, b) /\ CommandAcknowledged(v)
  <2>1. /\ head = a /\ head' = b /\ UNCHANGED <<outbox, inbox, carrier>> /\ outbox[v] = "acknowledged"
        /\ (Answered(p) \/ AnswerLost(p)) /\ coord[p].step = "publish" /\ coord[p].event # None
    BY <1>2 DEF PublishEvent, HeadIs, CommandAcknowledged
  <2>2. Reported(a, v, b) /\ OneOpen(b) /\ b \in Checkpoint
    BY <1>2, <2>1 DEF CoordinationInv, Publications, Prepared, PublishEvent, Reported
  <2>3. Len(outbox) = Len(a.cmds) /\ Len(b.cmds) = Len(a.cmds) /\ Len(outbox) \in Nat
    BY <2>1, <2>2, OutboxLength DEF CoordinationInv, OutboxIsHeads, Reported
  <2>4. ASSUME NEW k \in 1 .. Len(outbox)
        PROVE  head'.cmds[k].agent = head.cmds[k].agent /\ (k # v => head'.cmds[k] = head.cmds[k])
    BY <2>1, <2>2, <2>3 DEF Reported
  <2>5. TypeOK'
    BY <2>1, <2>2, StillPrepared DEF TypeOK, CoordinationInv
  <2>6. OutboxIsHeads' BY <2>1, <2>3 DEF OutboxIsHeads
  <2>7. OneOpen(head)' BY <2>1, <2>2 DEF OneOpen
  <2>8. DeliveredInOrder'
    <3> SUFFICES ASSUME NEW c \in 1 .. Len(outbox), outbox[c] # "pending", NEW e \in 1 .. (c - 1),
                        head'.cmds[e].agent = head'.cmds[c].agent
                 PROVE  outbox[e] = "acknowledged"
      BY <2>1 DEF DeliveredInOrder
    <3>1. e \in 1 .. Len(outbox) BY <2>3, SMT
    <3> QED BY <2>4, <3>1 DEF CoordinationInv, DeliveredInOrder
  <2>9. Receipts'
    <3> SUFFICES ASSUME NEW c \in 1 .. Len(outbox)
                 PROVE  /\ c \in inbox => outbox[c] # "pending"
                        /\ outbox[c] = "acknowledged" => c \in inbox
                        /\ head'.cmds[c].last > 0 => outbox[c] = "acknowledged"
      BY <2>1 DEF Receipts
    <3>1. CASE c = v BY <2>1, <3>1 DEF CoordinationInv, Receipts
    <3>2. CASE c # v BY <2>4, <3>2 DEF CoordinationInv, Receipts
    <3> QED BY <3>1, <3>2
  <2>10. Publications'
    BY <2>1, StillPrepared DEF Publications, Prepared, Grown, Reported, OneOpen
  <2>11. Deliveries' BY <2>1 DEF CoordinationInv, Deliveries
  <2> QED BY <2>5, <2>6, <2>7, <2>8, <2>9, <2>10, <2>11 DEF CoordinationInv
<1> QED BY <1>1, <1>2

-----------------------------------------------------------------------------
(* Deliveries. *)

(* Publications stay prepared while no coordinator moves. *)
LEMMA PublicationsKept ==
  ASSUME CoordinationInv, UNCHANGED coord
  PROVE  Publications'
<1> SUFFICES ASSUME NEW q \in Coordinator PROVE Prepared(coord'[q])
  BY DEF Publications, Prepared, Grown, Reported, OneOpen
<1> QED BY DEF CoordinationInv, Publications

(* A deliverer starts idle. *)
LEMMA IdleCarrier == Idle.step = "idle"
BY DEF Idle

\* A step that moves one deliverer, within the outbox.
LEMMA CarrierMoves ==
  ASSUME CoordinationInv, NEW d \in Deliverer, NEW x \in {Idle} \cup Delivery,
         x.step # "idle" => x.cmd \in 1 .. Len(outbox),
         carrier' = [carrier EXCEPT ![d] = x] \/ carrier' = carrier
  PROVE  /\ carrier' \in [Deliverer -> {Idle} \cup Delivery]
         /\ \A q \in Deliverer : carrier'[q].step # "idle" => carrier'[q].cmd \in 1 .. Len(outbox)
<1>1. carrier \in [Deliverer -> {Idle} \cup Delivery] BY DEF CoordinationInv, TypeOK
<1>2. \A q \in Deliverer : carrier'[q] = carrier[q] \/ carrier'[q] = x BY <1>1
<1>3. \A q \in Deliverer : carrier[q].step # "idle" => carrier[q].cmd \in 1 .. Len(outbox)
  BY DEF CoordinationInv, Deliveries
<1>4. carrier' \in [Deliverer -> {Idle} \cup Delivery] BY <1>1
<1> QED BY <1>2, <1>3, <1>4

\* A command moves on in the outbox: pending, started, acknowledged.
LEMMA RowMoves ==
  ASSUME CoordinationInv, NEW c \in 1 .. Len(outbox), NEW to \in {"started", "acknowledged"},
         outbox' = [outbox EXCEPT ![c] = to], UNCHANGED <<head, inbox, coord>>,
         carrier' \in [Deliverer -> {Idle} \cup Delivery],
         \A q \in Deliverer : carrier'[q].step # "idle" => carrier'[q].cmd \in 1 .. Len(outbox),
         outbox[c] = "pending" =>
           \A e \in 1 .. (c - 1) : head.cmds[e].agent = head.cmds[c].agent => outbox[e] = "acknowledged",
         outbox[c] = "acknowledged" => to = "acknowledged",
         to = "acknowledged" => c \in inbox
  PROVE  CoordinationInv'
<1> DEFINE n == Len(outbox)
<1>1. to \in DeliveryState /\ outbox \in Seq(DeliveryState)
  BY DEF DeliveryState, CoordinationInv, TypeOK
<1>2. /\ outbox' \in Seq(DeliveryState) /\ Len(outbox') = n
      /\ \A j \in 1 .. n : outbox'[j] = IF j = c THEN to ELSE outbox[j]
  <2>1. /\ [outbox EXCEPT ![c] = to] \in Seq(DeliveryState)
        /\ Len([outbox EXCEPT ![c] = to]) = Len(outbox)
        /\ \A j \in 1 .. Len(outbox) : [outbox EXCEPT ![c] = to][j] = IF j = c THEN to ELSE outbox[j]
    BY <1>1, SeqUpdate, SMT
  <2> QED BY <2>1
<1>3. n \in Nat /\ DOMAIN outbox = 1 .. n /\ DOMAIN outbox' = 1 .. n
  BY <1>1, <1>2, SeqParts
<1> HIDE DEF n
<1>4. TypeOK' BY <1>2, <1>3 DEF CoordinationInv, TypeOK
<1>5. OutboxIsHeads' BY <1>2 DEF CoordinationInv, OutboxIsHeads, n
<1>6. DeliveredInOrder'
  <2> SUFFICES ASSUME NEW k \in 1 .. n, outbox'[k] # "pending", NEW e \in 1 .. (k - 1),
                      head.cmds[e].agent = head.cmds[k].agent
               PROVE  outbox'[e] = "acknowledged"
    BY <1>2 DEF DeliveredInOrder
  <2>1. e \in 1 .. n BY <1>3, SMT
  <2>2. outbox[e] = "acknowledged"
    <3>1. CASE outbox[k] # "pending" BY <3>1 DEF CoordinationInv, DeliveredInOrder, n
    <3>2. CASE outbox[k] = "pending"
      <4>1. k = c BY <1>2, <3>2
      <4> QED BY <3>2, <4>1
    <3> QED BY <3>1, <3>2
  <2> QED BY <1>2, <2>1, <2>2
<1>7. Receipts'
  <2> SUFFICES ASSUME NEW k \in 1 .. n
               PROVE  /\ k \in inbox => outbox'[k] # "pending"
                      /\ outbox'[k] = "acknowledged" => k \in inbox
                      /\ head.cmds[k].last > 0 => outbox'[k] = "acknowledged"
    BY <1>2 DEF Receipts
  <2>1. /\ k \in inbox => outbox[k] # "pending"
        /\ outbox[k] = "acknowledged" => k \in inbox
        /\ head.cmds[k].last > 0 => outbox[k] = "acknowledged"
    BY DEF CoordinationInv, Receipts, n
  <2> QED BY <1>2, <2>1
<1>8. OneOpen(head)' /\ Publications'
  BY PublicationsKept DEF CoordinationInv, OneOpen
<1>9. Deliveries' BY <1>2 DEF Deliveries, n
<1> QED BY <1>4, <1>5, <1>6, <1>7, <1>8, <1>9 DEF CoordinationInv

(* Claiming the next delivery keeps the invariant. *)
LEMMA ClaimKeeps ==
  ASSUME CoordinationInv, NEW d \in Deliverer, ClaimNextDelivery(d)
  PROVE  CoordinationInv'
<1> DEFINE c == Min(Claimable)
           x == [step |-> "admit", cmd |-> c]
<1>1. /\ Claimable # {} /\ outbox' = [outbox EXCEPT ![c] = "started"]
      /\ carrier' = [carrier EXCEPT ![d] = x] \/ carrier' = carrier
      /\ UNCHANGED <<head, inbox, coord>>
  BY DEF ClaimNextDelivery
<1>2. DOMAIN outbox = 1 .. Len(outbox) /\ Len(outbox) \in Nat BY OutboxLength DEF CoordinationInv
<1>3. Claimable \subseteq Nat BY <1>2, SMT DEF Claimable
<1>4. c \in Claimable BY <1>1, <1>3, MinIsMember
<1> HIDE DEF c
<1>5. /\ c \in 1 .. Len(outbox) /\ outbox[c] = "pending"
      /\ \A e \in 1 .. (c - 1) : head.cmds[e].agent = head.cmds[c].agent => outbox[e] = "acknowledged"
  BY <1>2, <1>4 DEF Claimable
<1>6. c \in Nat BY <1>3, <1>4
<1>7. x \in {Idle} \cup Delivery /\ x.cmd = c BY <1>6 DEF Delivery
<1>8. /\ carrier' \in [Deliverer -> {Idle} \cup Delivery]
      /\ \A q \in Deliverer : carrier'[q].step # "idle" => carrier'[q].cmd \in 1 .. Len(outbox)
  BY <1>1, <1>5, <1>7, CarrierMoves
<1> QED BY <1>1, <1>5, <1>8, RowMoves

(* Acknowledging a delivery keeps the invariant. *)
LEMMA AcknowledgeKeeps ==
  ASSUME CoordinationInv, NEW d \in Deliverer, AcknowledgeDelivery(d)
  PROVE  CoordinationInv'
<1> DEFINE c == carrier[d].cmd
<1>1. /\ carrier[d].step = "acknowledge" /\ c \in inbox /\ outbox[c] \in {"started", "acknowledged"}
      /\ outbox' = [outbox EXCEPT ![c] = "acknowledged"]
      /\ carrier' = [carrier EXCEPT ![d] = Idle] \/ carrier' = carrier
      /\ UNCHANGED <<head, inbox, coord>>
  BY DEF AcknowledgeDelivery
<1>2. c \in 1 .. Len(outbox) BY <1>1 DEF CoordinationInv, Deliveries
<1>3. /\ carrier' \in [Deliverer -> {Idle} \cup Delivery]
      /\ \A q \in Deliverer : carrier'[q].step # "idle" => carrier'[q].cmd \in 1 .. Len(outbox)
  BY <1>1, IdleCarrier, CarrierMoves
<1>4. outbox[c] # "pending" BY <1>1
<1> HIDE DEF c
<1> QED BY <1>1, <1>2, <1>3, <1>4, RowMoves

(* Admitting a delivery into an agent's inbox keeps the invariant. *)
LEMMA AdmitKeeps ==
  ASSUME CoordinationInv, NEW d \in Deliverer, AdmitDelivery(d)
  PROVE  CoordinationInv'
<1> DEFINE c == carrier[d].cmd
           x == [carrier[d] EXCEPT !.step = "acknowledge"]
<1>1. /\ carrier[d].step = "admit" /\ UNCHANGED <<head, outbox, coord>>
      /\ \/ /\ outbox[c] = "started" /\ inbox' = inbox \cup {c}
            /\ carrier' = [carrier EXCEPT ![d] = x] \/ carrier' = carrier
         \/ carrier' = [carrier EXCEPT ![d] = Idle] /\ inbox' = inbox
  BY DEF AdmitDelivery
<1>2. c \in 1 .. Len(outbox) BY <1>1 DEF CoordinationInv, Deliveries
<1>3. carrier[d] \in Delivery BY <1>1, IdleCarrier DEF CoordinationInv, TypeOK
<1>4. x \in {Idle} \cup Delivery BY <1>3 DEF Delivery
<1>5. x.cmd = c BY <1>3 DEF Delivery
<1>6. /\ carrier' \in [Deliverer -> {Idle} \cup Delivery]
      /\ \A q \in Deliverer : carrier'[q].step # "idle" => carrier'[q].cmd \in 1 .. Len(outbox)
  <2> HIDE DEF c, x
  <2>1. CASE carrier' = [carrier EXCEPT ![d] = x] \/ carrier' = carrier
    BY <1>2, <1>4, <1>5, <2>1, CarrierMoves
  <2>2. CASE carrier' = [carrier EXCEPT ![d] = Idle] BY <2>2, IdleCarrier, CarrierMoves
  <2> QED BY <1>1, <2>1, <2>2
<1>7. DOMAIN outbox = 1 .. Len(outbox) BY OutboxLength DEF CoordinationInv
<1> HIDE DEF c
<1>8. inbox' = inbox \/ (inbox' = inbox \cup {c} /\ outbox[c] # "pending") BY <1>1 DEF c
<1>9. TypeOK' BY <1>1, <1>2, <1>6, <1>7, <1>8 DEF CoordinationInv, TypeOK
<1>10. Receipts'
  <2> SUFFICES ASSUME NEW k \in 1 .. Len(outbox)
               PROVE  /\ k \in inbox' => outbox[k] # "pending"
                      /\ outbox[k] = "acknowledged" => k \in inbox'
                      /\ head.cmds[k].last > 0 => outbox[k] = "acknowledged"
    BY <1>1 DEF Receipts
  <2> QED BY <1>8 DEF CoordinationInv, Receipts
<1>11. Deliveries' BY <1>1, <1>6 DEF Deliveries
<1>12. OutboxIsHeads' /\ OneOpen(head)' /\ DeliveredInOrder' /\ Publications'
  BY <1>1, PublicationsKept DEF CoordinationInv, OutboxIsHeads, OneOpen, DeliveredInOrder
<1> QED BY <1>9, <1>10, <1>11, <1>12 DEF CoordinationInv

(* A crash of a coordinator or a deliverer keeps the invariant. *)
LEMMA CrashKeeps == CoordinationInv /\ Crash => CoordinationInv'
<1> SUFFICES ASSUME CoordinationInv, Crash PROVE CoordinationInv'
  OBVIOUS
<1>1. ASSUME NEW p \in Coordinator, coord' = [coord EXCEPT ![p] = Idle], UNCHANGED carrier
      PROVE  CoordinationInv'
  BY <1>1, IdlePrepared, PreparesKeeps DEF Crash
<1>2. ASSUME NEW d \in Deliverer, carrier' = [carrier EXCEPT ![d] = Idle], UNCHANGED coord
      PROVE  CoordinationInv'
  <2>1. UNCHANGED <<head, outbox, inbox, coord>> BY <1>2 DEF Crash
  <2>2. /\ carrier' \in [Deliverer -> {Idle} \cup Delivery]
        /\ \A q \in Deliverer : carrier'[q].step # "idle" => carrier'[q].cmd \in 1 .. Len(outbox)
    BY <1>2, IdleCarrier, CarrierMoves
  <2>3. TypeOK' BY <2>1, <2>2 DEF CoordinationInv, TypeOK
  <2>4. Deliveries' BY <2>1, <2>2 DEF Deliveries
  <2>5. OutboxIsHeads' /\ OneOpen(head)' /\ DeliveredInOrder' /\ Publications' /\ Receipts'
    BY <2>1, PublicationsKept DEF CoordinationInv, OutboxIsHeads, OneOpen, DeliveredInOrder, Receipts
  <2> QED BY <2>3, <2>4, <2>5 DEF CoordinationInv
<1> QED BY <1>1, <1>2 DEF Crash

-----------------------------------------------------------------------------

(* It holds initially. *)
LEMMA InitCoordination == Init => CoordinationInv
<1> SUFFICES ASSUME Init PROVE CoordinationInv
  OBVIOUS
<1>1. /\ <<>> \in Seq(CommandRecord) /\ <<>> \in Seq(DeliveryState) /\ Len(<<>>) = 0
  BY SMT
<1>2. head \in Checkpoint BY <1>1 DEF Init, Checkpoint, SessionState
<1>3. head.cmds = <<>> /\ outbox = <<>> /\ inbox = {} BY DEF Init
<1>4. \A s \in Session : head.state[s] # "assigned" BY DEF Init
<1>5. TypeOK BY <1>1, <1>2, <1>3 DEF Init, TypeOK
<1>6. 1 .. Len(head.cmds) = {} /\ 1 .. Len(outbox) = {} BY <1>1, <1>3, SMT
<1>7. OutboxIsHeads /\ OneOpen(head) /\ DeliveredInOrder /\ Receipts
  BY <1>3, <1>4, <1>6 DEF OutboxIsHeads, OneOpen, DeliveredInOrder, Receipts
<1>8. Publications /\ Deliveries BY IdlePrepared, IdleCarrier DEF Init, Publications, Deliveries
<1> QED BY <1>5, <1>7, <1>8 DEF CoordinationInv

(* Every step keeps it. *)
LEMMA StepCoordination == CoordinationInv /\ [Next]_vars => CoordinationInv'
<1> SUFFICES ASSUME CoordinationInv, [Next]_vars PROVE CoordinationInv'
  OBVIOUS
<1>1. CASE UNCHANGED vars
  BY <1>1, PublicationsKept
     DEF vars, CoordinationInv, TypeOK, OutboxIsHeads, OneOpen, DeliveredInOrder, Receipts, Deliveries
<1>2. ASSUME NEW p \in Coordinator, NEW n \in 0 .. BeamWidth, ReadAndPlan(p, n) PROVE CoordinationInv'
  BY <1>2, ReadAndPlanKeeps
<1>3. ASSUME NEW p \in Coordinator, NEW c \in DOMAIN outbox, NEW kind \in EventKinds,
             ReadAndAccept(p, c, kind)
      PROVE  CoordinationInv'
  BY <1>3, ReadAndAcceptKeeps
<1>4. ASSUME NEW p \in Coordinator, PublishCycle(p) PROVE CoordinationInv' BY <1>4, PublishCycleKeeps
<1>5. ASSUME NEW p \in Coordinator, PublishEvent(p) PROVE CoordinationInv' BY <1>5, PublishEventKeeps
<1>6. ASSUME NEW d \in Deliverer, ClaimNextDelivery(d) PROVE CoordinationInv' BY <1>6, ClaimKeeps
<1>7. ASSUME NEW d \in Deliverer, AdmitDelivery(d) PROVE CoordinationInv' BY <1>7, AdmitKeeps
<1>8. ASSUME NEW d \in Deliverer, AcknowledgeDelivery(d) PROVE CoordinationInv'
  BY <1>8, AcknowledgeKeeps
<1>9. CASE Crash BY <1>9, CrashKeeps
<1> QED BY <1>1, <1>2, <1>3, <1>4, <1>5, <1>6, <1>7, <1>8, <1>9 DEF Next

(* So it always holds. *)
LEMMA CoordinationAlways == CoordinationSpec => []CoordinationInv
BY InitCoordination, StepCoordination, PTL DEF CoordinationSpec

\* publish_cycle neither loses nor repeats a command, whoever plans on which
\* head and however often an answer is lost: the outbox is the head's commands.
THEOREM NoCommandLostOrRepeated == CoordinationSpec => []OutboxIsHeads
<1>1. CoordinationInv => OutboxIsHeads BY DEF CoordinationInv
<1> QED BY <1>1, CoordinationAlways, PTL

\* claim_next_delivery keeps each agent's commands in the order of their
\* issue: none is admitted before all earlier ones are acknowledged.
THEOREM AgentsAdmitInOrder == CoordinationSpec => []AdmittedInOrder
<1>1. CoordinationInv => AdmittedInOrder
  <2> SUFFICES ASSUME CoordinationInv, NEW c \in inbox, NEW e \in 1 .. (c - 1),
                      head.cmds[e].agent = head.cmds[c].agent
               PROVE  outbox[e] = "acknowledged" /\ e \in inbox
    BY DEF AdmittedInOrder
  <2>1. Len(outbox) \in Nat /\ c \in 1 .. Len(outbox) BY OutboxLength DEF CoordinationInv, TypeOK
  <2>2. e \in 1 .. Len(outbox) BY <2>1, SMT
  <2>3. outbox[e] = "acknowledged" BY <2>1 DEF CoordinationInv, DeliveredInOrder, Receipts
  <2> QED BY <2>2, <2>3 DEF CoordinationInv, Receipts
<1> QED BY <1>1, CoordinationAlways, PTL

\* _allocate and accept_event together: a session works on one assignment, the
\* one its events must name.
THEOREM OneAssignmentAtATime == CoordinationSpec => []OneOpenAssignment
<1>1. CoordinationInv => OneOpenAssignment
  <2> SUFFICES ASSUME CoordinationInv, NEW s \in Session
               PROVE  {c \in DOMAIN head.cmds : /\ head.cmds[c].agent = s
                                                /\ Assignment(head.cmds[c])
                                                /\ ~head.cmds[c].terminal}
                        = IF head.state[s] = "assigned" THEN {head.task[s]} ELSE {}
    BY DEF OneOpenAssignment
  <2>1. DOMAIN head.cmds = 1 .. Len(head.cmds) BY CheckpointParts DEF CoordinationInv, TypeOK
  <2>2. /\ head.state[s] = "assigned" => head.task[s] \in 1 .. Len(head.cmds)
        /\ \A c \in 1 .. Len(head.cmds) :
             (/\ head.cmds[c].agent = s /\ Assignment(head.cmds[c]) /\ ~head.cmds[c].terminal)
               <=> head.state[s] = "assigned" /\ head.task[s] = c
    BY DEF CoordinationInv, OneOpen, Open
  <2> QED BY <2>1, <2>2
<1> QED BY <1>1, CoordinationAlways, PTL

\* publish_event requires durable receiver admission: a command with an event
\* was admitted and acknowledged, and so was all the agent got before it.
THEOREM EventsAreBacked == CoordinationSpec => []EventIsBacked
<1>1. CoordinationInv => EventIsBacked
  <2> SUFFICES ASSUME CoordinationInv, NEW c \in DOMAIN head.cmds, head.cmds[c].last > 0,
                      NEW e \in 1 .. c, head.cmds[e].agent = head.cmds[c].agent
               PROVE  outbox[e] = "acknowledged" /\ e \in inbox
    BY DEF EventIsBacked
  <2>1. Len(outbox) \in Nat /\ c \in 1 .. Len(outbox)
    BY OutboxLength, CheckpointParts DEF CoordinationInv, TypeOK, OutboxIsHeads
  <2>2. e \in 1 .. Len(outbox) /\ (e = c \/ e \in 1 .. (c - 1)) BY <2>1, SMT
  <2>3. outbox[c] = "acknowledged" BY <2>1 DEF CoordinationInv, Receipts
  <2>4. outbox[e] = "acknowledged" BY <2>1, <2>2, <2>3 DEF CoordinationInv, DeliveredInOrder
  <2> QED BY <2>2, <2>4 DEF CoordinationInv, Receipts
<1> QED BY <1>1, CoordinationAlways, PTL

=============================================================================
