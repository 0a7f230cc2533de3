------------------------- MODULE AgenticCoordination -------------------------
(***************************************************************************)
(* AgenticCoordinationStore (agentic/durable.py) and the DynamicSupervisor *)
(* whose checkpoints it keeps (agentic/supervisor.py): a chain of          *)
(* checkpoints advanced by compare-and-swap, the outbox of the commands    *)
(* that cycles issue to specialist agents, the inbox of those an agent     *)
(* admitted, and the agents' events.                                       *)
(*                                                                         *)
(* Coordinators read the head, run the Supervisor on it in memory, and     *)
(* publish what it made of it; the answer of a publication may be lost, so *)
(* a coordinator repeats it.  Deliverers claim, admit and acknowledge      *)
(* commands.  Every store operation is one write transaction.              *)
(*                                                                         *)
(* A checkpoint holds the state of each agent session, the command it is   *)
(* working on, and the commands issued so far, in sequence order.  Candidates are all alike:    *)
(* scoring only decides how many of them a cycle selects.                  *)
(***************************************************************************)
EXTENDS Naturals, Sequences, FiniteSets, FiniteSetsExt

CONSTANTS
  Coordinator, Deliverer,   \* processes that publish, processes that deliver
  MaxActiveAgents,          \* max_active_agents, sessions are 1 .. MaxSessions
  MaxSessions,              \* bound on sessions ever spawned
  BeamWidth,                \* beam_width
  MaxTotalAssignments,      \* max_total_assignments
  MaxRevision,              \* bound on the checkpoint chain
  None

ASSUME CoordinationAssumption ==
  /\ {MaxActiveAgents, MaxSessions, BeamWidth, MaxTotalAssignments, MaxRevision}
       \subseteq Nat
  /\ MaxActiveAgents <= MaxSessions
  /\ None \notin Nat

VARIABLES
  head,     \* the checkpoint the durable head names
  outbox,   \* state of each command, by command sequence
  inbox,    \* command sequences an agent has admitted
  coord,    \* the publication each coordinator is at, with the head it read
  carrier   \* the delivery each deliverer is at

vars == <<head, outbox, inbox, coord, carrier>>

Session == 1 .. MaxSessions

Idle == [step |-> "idle"]

Init ==
  /\ head = [rev |-> 0, state |-> [s \in Session |-> "none"],
             task |-> [s \in Session |-> 0], cmds |-> <<>>, assigned |-> 0]
  /\ outbox = <<>>
  /\ inbox = {}
  /\ coord = [p \in Coordinator |-> Idle]
  /\ carrier = [d \in Deliverer |-> Idle]

-----------------------------------------------------------------------------
(* The Supervisor, a function of the checkpoint it was restored from. *)

Assignment(c) == c.kind \in {"assign", "follow_up"}

\* _issue_command.
Command(kind, s) == [kind |-> kind, agent |-> s, last |-> 0, terminal |-> FALSE]

In(ck, states) == {s \in Session : ck.state[s] \in states}

Active(ck) == In(ck, {"idle", "assigned", "blocked"})

\* The session s gets a task, by the last of the commands.
Assign(ck, s, cmds) ==
  [ck EXCEPT !.state[s] = "assigned", !.task[s] = Len(ck.cmds) + Len(cmds),
             !.cmds = @ \o cmds, !.assigned = @ + 1]

\* The sessions _allocate reuses, with the defect that one whose work has not
\* ended is taken over.
ReusableIfKnown(ck) == In(ck, {"idle", "assigned"})

Reusable(ck) == In(ck, {"idle"})

\* _allocate: an idle session is reused, else one is spawned while there is
\* room, else nothing is selected.
Allocate(ck) ==
  LET fresh == In(ck, {"none"})
  IN IF ck.assigned >= MaxTotalAssignments THEN ck
     ELSE IF Reusable(ck) # {}
       THEN Assign(ck, Min(Reusable(ck)), <<Command("follow_up", Min(Reusable(ck)))>>)
     ELSE IF Cardinality(Active(ck)) < MaxActiveAgents /\ fresh # {}
       THEN Assign(ck, Min(fresh), <<Command("spawn", Min(fresh)),
                                     Command("assign", Min(fresh))>>)
     ELSE ck

\* plan_cycle when n candidates pass the score, one after the other.
PlanCycle(ck, n) ==
  LET after[i \in 0 .. n] == IF i = 0 THEN ck ELSE Allocate(after[i - 1])
  IN [after[n] EXCEPT !.rev = @ + 1]

\* "acknowledged" stands for progress as well, "blocked" for the three kinds
\* that ask for help.
EventKinds == {"acknowledged", "final", "failed", "blocked"}
TerminalEvents == {"final", "failed", "blocked"}

\* accept_event's conditions on an event for command c.
EventFits(ck, c, kind) ==
  LET cmd == ck.cmds[c]
  IN /\ ~cmd.terminal
     /\ IF Assignment(cmd)
          THEN ck.state[cmd.agent] = "assigned" /\ ck.task[cmd.agent] = c
          ELSE kind = "acknowledged"

\* accept_event.
AcceptEvent(ck, c, kind) ==
  LET cmd == ck.cmds[c]  s == cmd.agent
      ends == Assignment(cmd) /\ kind \in TerminalEvents
  IN [ck EXCEPT !.rev = @ + 1,
        !.cmds[c] = [cmd EXCEPT !.last = @ + 1, !.terminal = ~Assignment(cmd) \/ ends],
        !.task[s] = IF ends THEN 0 ELSE @,
        !.state[s] = IF ~ends THEN @ ELSE IF kind = "final" THEN "idle" ELSE kind]

-----------------------------------------------------------------------------
(* Publications. *)

\* current_head, then the Supervisor plans a cycle on it.
ReadAndPlan(p, n) ==
  /\ coord[p].step = "idle" /\ head.rev < MaxRevision
  /\ coord' = [coord EXCEPT ![p] = [step |-> "publish", source |-> head, event |-> None,
                                    result |-> PlanCycle(head, n)]]
  /\ UNCHANGED <<head, outbox, inbox, carrier>>

\* current_head, then the Supervisor takes an event that names a command,
\* whether or not anything of it was delivered.
ReadAndAccept(p, c, kind) ==
  /\ coord[p].step = "idle" /\ head.rev < MaxRevision
  /\ EventFits(head, c, kind)
  /\ coord' = [coord EXCEPT ![p] = [step |-> "publish", source |-> head, event |-> c,
                                    result |-> AcceptEvent(head, c, kind)]]
  /\ UNCHANGED <<head, outbox, inbox, carrier>>

\* The answer arrives, or it is lost and the coordinator will ask again.
Answered(p) == coord' = [coord EXCEPT ![p] = Idle]
AnswerLost(p) == UNCHANGED coord

\* The compare-and-swap of both publications, with the defect that any
\* revision that is not below the head's will do.
NotOlder(source, result) == result.rev >= head.rev

\* The compare-and-swap of the head.
HeadIs(source, result) == head = source

\* publish_cycle: the checkpoint, the cycle and its outbox in one transaction.
\* A retry of what was published finds the head moved and adds nothing.
PublishCycle(p) ==
  LET c == coord[p]
  IN /\ c.step = "publish" /\ c.event = None
     /\ IF HeadIs(c.source, c.result)
          THEN /\ head' = c.result
               /\ outbox' = outbox \o [i \in 1 .. (Len(c.result.cmds) - Len(c.source.cmds))
                                        |-> "pending"]
               /\ Answered(p) \/ AnswerLost(p)
          ELSE Answered(p) /\ UNCHANGED <<head, outbox>>
     /\ UNCHANGED <<inbox, carrier>>

\* publish_event's condition on the outbox, with the defect that a delivery
\* under way is enough.
DeliveryStarted(c) == outbox[c] # "pending"

\* The command of the event was admitted and acknowledged.
CommandAcknowledged(c) == outbox[c] = "acknowledged" /\ c \in inbox

\* publish_event.
PublishEvent(p) ==
  LET c == coord[p]
  IN /\ c.step = "publish" /\ c.event # None
     /\ IF HeadIs(c.source, c.result) /\ CommandAcknowledged(c.event)
          THEN head' = c.result /\ (Answered(p) \/ AnswerLost(p))
          ELSE Answered(p) /\ UNCHANGED head
     /\ UNCHANGED <<outbox, inbox, carrier>>

-----------------------------------------------------------------------------
(* Deliveries. *)

\* The rows claim_next_delivery may take, with the defect that the order of an
\* agent's commands is not looked at.
AnyPending == {c \in DOMAIN outbox : outbox[c] = "pending"}

\* Pending, with every earlier command to the same agent acknowledged.
Claimable ==
  {c \in DOMAIN outbox :
     /\ outbox[c] = "pending"
     /\ \A e \in 1 .. (c - 1) :
          head.cmds[e].agent = head.cmds[c].agent => outbox[e] = "acknowledged"}

\* claim_next_delivery: a claim is given once, and is lost with its holder or
\* with its answer.
ClaimNextDelivery(d) ==
  /\ carrier[d].step = "idle" /\ Claimable # {}
  /\ LET c == Min(Claimable)
     IN /\ outbox' = [outbox EXCEPT ![c] = "started"]
        /\ \/ carrier' = [carrier EXCEPT ![d] = [step |-> "admit", cmd |-> c]]
           \/ UNCHANGED carrier
  /\ UNCHANGED <<head, inbox, coord>>

\* admit_delivery; a lost answer makes the deliverer ask again.
AdmitDelivery(d) ==
  LET c == carrier[d].cmd
  IN /\ carrier[d].step = "admit"
     /\ IF outbox[c] = "started"
          THEN /\ inbox' = inbox \cup {c}
               /\ \/ carrier' = [carrier EXCEPT ![d].step = "acknowledge"]
                  \/ UNCHANGED carrier
          ELSE carrier' = [carrier EXCEPT ![d] = Idle] /\ UNCHANGED inbox
     /\ UNCHANGED <<head, outbox, coord>>

\* acknowledge_delivery.
AcknowledgeDelivery(d) ==
  LET c == carrier[d].cmd
  IN /\ carrier[d].step = "acknowledge"
     /\ c \in inbox /\ outbox[c] \in {"started", "acknowledged"}
     /\ outbox' = [outbox EXCEPT ![c] = "acknowledged"]
     /\ \/ carrier' = [carrier EXCEPT ![d] = Idle]
        \/ UNCHANGED carrier
     /\ UNCHANGED <<head, inbox, coord>>

\* A process dies with what it held.
Crash ==
  /\ \/ \E p \in Coordinator : /\ coord[p].step # "idle"
                                /\ coord' = [coord EXCEPT ![p] = Idle]
                                /\ UNCHANGED carrier
     \/ \E d \in Deliverer : /\ carrier[d].step # "idle"
                              /\ carrier' = [carrier EXCEPT ![d] = Idle]
                              /\ UNCHANGED coord
  /\ UNCHANGED <<head, outbox, inbox>>

Next ==
  \/ \E p \in Coordinator :
       \/ \E n \in 0 .. BeamWidth : ReadAndPlan(p, n)
       \/ \E c \in DOMAIN outbox, kind \in EventKinds : ReadAndAccept(p, c, kind)
       \/ PublishCycle(p) \/ PublishEvent(p)
  \/ \E d \in Deliverer :
       ClaimNextDelivery(d) \/ AdmitDelivery(d) \/ AcknowledgeDelivery(d)
  \/ Crash

CoordinationSpec == Init /\ [][Next]_vars

-----------------------------------------------------------------------------
(* Properties. *)

\* The commands of the durable head and the outbox are the same commands:
\* coordinators that plan on one head, and repeat a publication whose answer
\* was lost, neither lose a command nor send one twice (publish_cycle).
OutboxIsHeads == Len(outbox) = Len(head.cmds)

\* An agent admits its commands in the order of their issue, each after the
\* acknowledgement of the one before, although several deliverers carry them
\* and claims get lost (claim_next_delivery).
AdmittedInOrder ==
  \A c \in inbox : \A e \in 1 .. (c - 1) :
    head.cmds[e].agent = head.cmds[c].agent => outbox[e] = "acknowledged" /\ e \in inbox

\* A session works on at most one command: it is assigned exactly while one
\* assignment of it is open, and that is the one its events must name, across
\* every interleaving of cycles and events (_allocate, accept_event).
OneOpenAssignment ==
  \A s \in Session :
    LET open == {c \in DOMAIN head.cmds : /\ head.cmds[c].agent = s
                                         /\ Assignment(head.cmds[c])
                                         /\ ~head.cmds[c].terminal}
    IN open = IF head.state[s] = "assigned" THEN {head.task[s]} ELSE {}

\* What an agent reported is backed by what it got: a command with an event was
\* admitted and acknowledged, and an agent that reported on a task had been
\* spawned (publish_event: "requires durable receiver admission first").
EventIsBacked ==
  \A c \in DOMAIN head.cmds : head.cmds[c].last > 0 =>
    \A e \in 1 .. c : head.cmds[e].agent = head.cmds[c].agent =>
      outbox[e] = "acknowledged" /\ e \in inbox

=============================================================================
