-------------------------- MODULE MultiAgentRunProofs --------------------------
(***************************************************************************)
(* Theorems about MultiAgentRun, for any plans, any parallelism and any    *)
(* limits: what a run allots when the plan is accepted covers every call   *)
(* that is made, whatever is interleaved, refused, interrupted or retried; *)
(* and an ended run is silent.  The invariant is RunInv of                 *)
(* AgentLedgerProofs, where the steps of the specialists are; here are the *)
(* Provider-backed roles, the phases, the plan and the initial state.      *)
(***************************************************************************)
EXTENDS AgentLedgerProofs

\* The prover of a step that names no other.
USE ZenonT(40)

-----------------------------------------------------------------------------
(* The roles and the phases. *)

(* What is known of a role of the phase. *)
LEMMA PhaseRole ==
  ASSUME RunInv, NEW r \in RolesOf(phase)
  PROVE  /\ r \in Role /\ r \in Grant /\ r # Root /\ r \notin Task /\ r \in Issued(rec)
         /\ phase \notin {"wave", "ended"} /\ (r \in ControlRole => Working /\ Allot[r] = Calls[r])
         /\ ~rec[r].revoked /\ rec[r].max = Calls[r] /\ Calls[r] \in Nat
         /\ rec[r].remaining = Calls[r] - spent[r] /\ spent[r] = attempts[r]
         /\ attempts[r] \in Nat /\ ran[r] \in Nat /\ used \in Int
         /\ ran[r] + Bit(at[r] = "calling") <= attempts[r]
         /\ Held[r] = ran[r] + Bit(at[r] = "calling")
         /\ Entered[r] = attempts[r] - Bit(at[r] = "checked")
<1>1. r \in Role /\ r \in Grant /\ r # Root /\ r \notin Task BY Identities
<1>2. phase \notin {"wave", "ended"} BY DEF RolesOf
<1>3. RoleHolds(r) /\ Child(r) BY <1>1 DEF RunInv, AgentsHold
<1>4. rec[r].issued /\ ~rec[r].revoked BY <1>3 DEF RoleHolds
<1>5. /\ rec[r].max = Calls[r] /\ spent[r] = attempts[r]
      /\ ran[r] + Bit(at[r] = "calling") <= attempts[r]
  BY <1>3, <1>4 DEF RoleHolds
<1>6. rec[r].remaining = Calls[r] - spent[r] BY <1>3, <1>4, <1>5 DEF Child
<1>7. Calls[r] \in Nat BY <1>1, RunAssumption
<1>8. attempts[r] \in Nat /\ ran[r] \in Nat /\ used \in Int BY <1>1 DEF RunInv, RunTypeOK
<1>9. r \in ControlRole => Working /\ Allot[r] = Calls[r]
  <2>1. ASSUME r \in ControlRole PROVE Working
    <3>1. r # Planner BY <2>1, Identities
    <3> QED BY <3>1 DEF RolesOf, Working
  <2>2. r \in ControlRole => Allot[r] = Calls[r] BY <1>1, Identities DEF Allot
  <2> QED BY <2>1, <2>2
<1>10. Held[r] = ran[r] + Bit(at[r] = "calling") /\ Entered[r] = attempts[r] - Bit(at[r] = "checked")
  BY <1>1 DEF Held, Entered
<1>11. r \in Issued(rec) BY <1>1, <1>4 DEF Issued
<1> QED BY <1>1, <1>2, <1>4, <1>5, <1>6, <1>7, <1>8, <1>9, <1>10, <1>11

(* A Provider is called, or the call is refused and the run ends. *)
LEMMA ProviderCallCarries ==
  ASSUME RunInv, NEW r \in Role, ProviderCall(r), before' = before
  PROVE  RunInv'
<1>1. /\ r \in RolesOf(phase) /\ at[r] = "ready" /\ attempts[r] < Calls[r]
      /\ \A q \in Role : at[q] # "calling"
      /\ plan' = plan /\ next' = next /\ kill' = kill /\ failing' = failing /\ ran' = ran
  BY DEF ProviderCall
<1>2. /\ r \in Grant /\ r # Root /\ r \notin Task /\ r \in Issued(rec)
      /\ phase \notin {"wave", "ended"} /\ (r \in ControlRole => Working /\ Allot[r] = Calls[r])
      /\ ~rec[r].revoked /\ rec[r].max = Calls[r] /\ Calls[r] \in Nat
      /\ rec[r].remaining = Calls[r] - spent[r] /\ spent[r] = attempts[r]
      /\ attempts[r] \in Nat /\ ran[r] \in Nat /\ used \in Int
      /\ ran[r] + Bit(at[r] = "calling") <= attempts[r]
      /\ Held[r] = ran[r] + Bit(at[r] = "calling")
      /\ Entered[r] = attempts[r] - Bit(at[r] = "checked")
  BY <1>1, PhaseRole
<1>3. Bit(at[r] = "calling") = 0 /\ Bit(at[r] = "checked") = 0 BY <1>1 DEF Bit
<1>4. kill' \in BOOLEAN /\ failing' \in BOOLEAN /\ refused \in BOOLEAN /\ plan' \in Seq(PlannedStep)
      /\ next' \in Nat
  BY <1>1 DEF RunInv, RunTypeOK
<1>5. before = 0 => ~refused BY DEF RunInv, NeverRefusedLate
<1>6. CASE used < MaxToolCalls /\ CanConsume(rec, r)
  <2>1. /\ used' = used + 1 /\ rec' = Consumed(rec, r) /\ spent' = [spent EXCEPT ![r] = spent[r] + 1]
        /\ at' = [at EXCEPT ![r] = "calling"] /\ attempts' = [attempts EXCEPT ![r] = attempts[r] + 1]
        /\ phase' = phase /\ refused' = refused
    BY <1>6 DEF ProviderCall
  <2>2. Move(r, "calling", attempts[r] + 1, ran[r], 1)
    BY <1>1, <1>2, <2>1, Still DEF Move, RecordsMove
  <2>3. NeverRefusedLate' BY <1>5, <2>1 DEF NeverRefusedLate
  <2>4. Bit("calling" = "calling") = 1 /\ Bit("calling" = "checked") = 0 BY DEF Bit
  <2>5. "calling" \in At \ {"new"} /\ 1 \in {0, 1} BY DEF At
  <2>6. /\ used + (ran[r] + 1) <= used' + Held[r]
        /\ used' + Entered[r] <= used + ((attempts[r] + 1) - 0)
        /\ ran[r] + 1 <= attempts[r] + 1 /\ attempts[r] + 1 \in Nat /\ used' \in Int
        /\ attempts[r] + 1 <= rec[r].max /\ spent[r] + 1 = attempts[r] + 1
    BY <1>1, <1>2, <1>3, <2>1, SMT
  <2>7. ~rec'[r].revoked
    <3>1. Consumed(rec, r)[r].revoked = rec[r].revoked BY <1>2, ConsumedRecords
    <3> QED BY <1>2, <2>1, <3>1
  <2>8. refused' \in BOOLEAN /\ phase # "ended" BY <1>2, <1>4, <2>1
  <2> QED BY <1>1, <1>2, <1>4, <2>2, <2>3, <2>4, <2>5, <2>6, <2>7, <2>8, MoveCarries
<1>7. CASE ~(used < MaxToolCalls /\ CanConsume(rec, r))
  <2>1. /\ End /\ refused' = (refused \/ r \in ControlRole)
        /\ used' = used /\ spent' = spent /\ at' = at /\ attempts' = attempts
    BY <1>7 DEF ProviderCall
  <2>2. Wave = {} BY <1>2 DEF Wave
  <2>3. \A g \in Grant : at[g] \notin Live BY <1>1, <2>2, Idle, Identities
  <2>4. before = 0 => ~refused'
    <3>1. CASE r \notin ControlRole BY <1>5, <2>1, <3>1
    <3>2. CASE r \in ControlRole
      <4>1. spent[r] < Allot[r] /\ Entered[r] < Allot[r] /\ rec[r].remaining > 0
        BY <1>1, <1>2, <1>3, <3>2, SMT
      <4>2. rec[Root].remaining > 0 /\ (before = 0 => used < MaxToolCalls)
        BY <1>2, <3>2, <4>1, CallsLeft
      <4>3. ~rec[Root].revoked BY <1>2 DEF RunInv, RootHolds
      <4>4. CanConsume(rec, r) BY <1>2, <4>1, <4>2, <4>3, RunIsFlat, FlatCanConsume
      <4> QED BY <1>7, <4>2, <4>4
    <3> QED BY <3>1, <3>2
  <2>5. NeverRefusedLate' BY <2>4 DEF NeverRefusedLate
  <2>6. refused' \in BOOLEAN BY <2>1
  <2> QED BY <1>1, <1>4, <2>1, <2>3, <2>5, <2>6, IdleEnds
<1> QED BY <1>6, <1>7

(* A Provider's call returns. *)
LEMMA ProviderReturnCarries ==
  ASSUME RunInv, NEW r \in Role, NEW executed \in BOOLEAN, ProviderReturn(r, executed), before' = before
  PROVE  RunInv'
<1>1. /\ at[r] = "calling" /\ at' = [at EXCEPT ![r] = "ready"]
      /\ rec' = rec /\ spent' = spent /\ phase' = phase /\ plan' = plan /\ next' = next
      /\ attempts' = attempts /\ kill' = kill /\ failing' = failing /\ refused' = refused
  BY DEF ProviderReturn
<1>0. r \in RolesOf(phase) BY <1>1 DEF RunInv, AgentsHold, RoleHolds
<1>2. /\ r \in Grant /\ r # Root /\ r \notin Task /\ r \in Issued(rec)
      /\ phase \notin {"wave", "ended"} /\ Calls[r] \in Nat
      /\ ~rec[r].revoked /\ rec[r].max = Calls[r] /\ spent[r] = attempts[r]
      /\ attempts[r] \in Nat /\ ran[r] \in Nat /\ used \in Int
      /\ ran[r] + Bit(at[r] = "calling") <= attempts[r]
      /\ Held[r] = ran[r] + Bit(at[r] = "calling")
      /\ Entered[r] = attempts[r] - Bit(at[r] = "checked")
  BY <1>0, PhaseRole
<1>3. Bit(at[r] = "calling") = 1 /\ Bit(at[r] = "checked") = 0 BY <1>1 DEF Bit
<1>4. kill' \in BOOLEAN /\ failing' \in BOOLEAN /\ refused' \in BOOLEAN BY <1>1 DEF RunInv, RunTypeOK
<1>5. NeverRefusedLate'
  <2>1. before = 0 => ~refused BY DEF RunInv, NeverRefusedLate
  <2> QED BY <1>1, <2>1 DEF NeverRefusedLate
<1>6. Bit("ready" = "calling") = 0 /\ Bit("ready" = "checked") = 0 BY DEF Bit
<1>7. "ready" \in At \ {"new"} /\ 0 \in {0, 1} /\ phase # "ended" BY <1>2 DEF At
<1>8. attempts[r] <= rec[r].max /\ spent[r] + 0 = attempts[r] /\ ~rec'[r].revoked
  <2>1. attempts[r] <= rec[r].max BY <1>2 DEF RunInv, AgentsHold, Child, Issued
  <2>2. spent[r] + 0 = attempts[r] BY <1>2, SMT
  <2> QED BY <1>1, <1>2, <2>1, <2>2
<1>9. CASE executed
  <2>1. used' = used /\ ran' = [ran EXCEPT ![r] = ran[r] + 1] BY <1>9 DEF ProviderReturn
  <2>2. Move(r, "ready", attempts[r], ran[r] + 1, 0) BY <1>1, <1>2, <2>1, Still DEF Move, RecordsMove
  <2>3. /\ used + ((ran[r] + 1) + 0) <= used' + Held[r] /\ used' + Entered[r] <= used + (attempts[r] - 0)
        /\ (ran[r] + 1) + 0 <= attempts[r] /\ ran[r] + 1 \in Nat /\ used' \in Int
    BY <1>2, <1>3, <2>1, SMT
  <2> QED BY <1>0, <1>2, <1>4, <1>5, <1>6, <1>7, <1>8, <2>2, <2>3, MoveCarries
<1>10. CASE ~executed
  <2>1. used' = used - 1 /\ ran' = ran BY <1>10 DEF ProviderReturn
  <2>2. Move(r, "ready", attempts[r], ran[r], 0) BY <1>1, <1>2, <2>1, Still DEF Move, RecordsMove
  <2>3. /\ used + (ran[r] + 0) <= used' + Held[r] /\ used' + Entered[r] <= used + (attempts[r] - 0)
        /\ ran[r] + 0 <= attempts[r] /\ used' \in Int
    BY <1>2, <1>3, <2>1, SMT
  <2> QED BY <1>0, <1>2, <1>4, <1>5, <1>6, <1>7, <1>8, <2>2, <2>3, MoveCarries
<1> QED BY <1>9, <1>10

(* The report is ready, or a role fails: the run ends. *)
LEMMA PhaseEndCarries ==
  ASSUME RunInv, ReportReady \/ PhaseFails, before' = before
  PROVE  RunInv'
<1>0. /\ plan \in Seq(PlannedStep) /\ next \in Nat /\ kill \in BOOLEAN /\ failing \in BOOLEAN
      /\ refused \in BOOLEAN /\ at \in [Grant -> At] /\ (before = 0 => ~refused)
  BY DEF RunInv, RunTypeOK, NeverRefusedLate
<1>1. CASE ReportReady
  <2>1. /\ phase = "reporting" /\ Quiet(phase) /\ End /\ spent' = spent /\ plan' = plan
        /\ next' = next /\ kill' = kill /\ failing' = failing /\ at' = at /\ attempts' = attempts
        /\ used' = used /\ ran' = ran /\ refused' = refused
    BY <1>1 DEF ReportReady, callVars
  <2>2. Wave = {} BY <2>1 DEF Wave
  <2>3. \A g \in Grant : at[g] \notin Live BY <2>1, <2>2, Idle DEF Quiet
  <2>4. NeverRefusedLate' BY <1>0, <2>1 DEF NeverRefusedLate
  <2> QED BY <1>0, <2>1, <2>3, <2>4, IdleEnds
<1>2. CASE PhaseFails
  <2>1. /\ phase # "wave" /\ End /\ spent' = spent /\ plan' = plan /\ next' = next /\ kill' = kill
        /\ failing' = failing /\ attempts' = attempts /\ used' = used /\ ran' = ran
        /\ refused' = refused
        /\ at' = [g \in Grant |-> IF at[g] = "calling" THEN "failed" ELSE at[g]]
    BY <1>2 DEF PhaseFails
  <2>2. Wave = {} BY <2>1 DEF Wave
  <2>3. ASSUME NEW g \in Grant PROVE at[g] \in Live => at[g] = "calling"
    <3>1. CASE g = Root BY <3>1 DEF RunInv, AgentsHold, Live
    <3>2. CASE g \in Role BY <3>2 DEF RunInv, AgentsHold, RoleHolds, Live
    <3>3. CASE g \in Task BY <2>2, <3>3 DEF RunInv, AgentsHold, TaskHolds, Active, Live
    <3> QED BY <3>1, <3>2, <3>3 DEF Task
  <2>4. ASSUME NEW g \in Grant
        PROVE  /\ at'[g] \in At /\ at'[g] \notin Live
               /\ at'[g] = at[g] \/ (at[g] = "calling" /\ at'[g] = "failed")
    <3>1. CASE at[g] = "calling" BY <2>1, <3>1 DEF At, Live
    <3>2. CASE at[g] # "calling"
      <4>1. at'[g] = at[g] BY <2>1, <3>2
      <4> QED BY <1>0, <2>3, <3>2, <4>1
    <3> QED BY <3>1, <3>2
  <2>5. Drained BY <2>4 DEF Drained
  <2>6. at' \in [Grant -> At] BY <2>1, <2>4
  <2>7. NeverRefusedLate' BY <1>0, <2>1 DEF NeverRefusedLate
  <2> QED BY <1>0, <2>1, <2>5, <2>6, <2>7, EndCarries
<1> QED BY <1>1, <1>2

AfterSpawn(D, G, max) ==
  /\ rec' \in [Grant -> Record] /\ rec'[Root] = rec[Root]
  /\ \A g \in G : /\ rec'[g].issued /\ rec'[g].parent = Root /\ rec'[g].depth = 1
                  /\ rec'[g].max = max[g] /\ rec'[g].remaining = max[g] /\ ~rec'[g].revoked
  /\ \A g \in Grant \ G : SameGrant(rec[g], rec'[g]) /\ rec'[g].remaining = rec[g].remaining
  /\ \A g \in Grant \ (G \cup D) : rec'[g] = rec[g]

(* The records after new agents have been spawned under the Supervisor. *)
LEMMA SpawnedRecords ==
  ASSUME RunInv, NEW D \in SUBSET Role, NEW G \in SUBSET (Grant \ {Root}), NEW max,
         \A g \in G : max[g] \in Nat, rec' = Spawned(Revoked(rec, D), G, max)
  PROVE  AfterSpawn(D, G, max)
<1> DEFINE idle == Revoked(rec, D)
           Fresh(g) == [issued |-> TRUE, parent |-> Root, depth |-> 1, scope |-> Scope,
                        max |-> max[g], delegable |-> FALSE, remaining |-> max[g], revoked |-> FALSE]
<1>1. rec \in [Grant -> Record] /\ Root \in Grant /\ Root \notin D BY Identities DEF RunInv, RunTypeOK
<1>2. idle \in [Grant -> Record] /\ \A g \in Grant \ D : idle[g] = rec[g] BY <1>1, RevokedRecords, SMT
<1>3. \A g \in Grant : SameGrant(rec[g], idle[g]) /\ idle[g].remaining = rec[g].remaining
  BY <1>1, RevokedRecords, SMT DEF SameGrant
<1> HIDE DEF idle
<1>4. idle[Root] = rec[Root] /\ idle[Root].depth = 0 BY <1>1, <1>2 DEF RunInv, RootHolds
<1>5. rec' = [g \in Grant |-> IF g \in G THEN Delegated(idle, Root, g, Scope, max[g], FALSE)[g]
                              ELSE idle[g]]
  BY DEF Spawned, idle
<1>6. ASSUME NEW g \in G PROVE rec'[g] = Fresh(g)
  <2>1. g \in Grant OBVIOUS
  <2>2. idle[Root].depth + 1 = 1 BY <1>4, SMT
  <2>3. Delegated(idle, Root, g, Scope, max[g], FALSE)[g] = Fresh(g) BY <1>2, <2>1, <2>2 DEF Delegated
  <2> QED BY <1>5, <2>1, <2>3
<1>7. \A g \in Grant \ G : rec'[g] = idle[g] BY <1>5
<1>8. ASSUME NEW g \in G PROVE Fresh(g) \in Record
  <2>1. max[g] \in Nat /\ max[g] \in Int /\ 1 \in Nat BY SMT
  <2>2. Root \in Grant BY <1>1
  <2> QED BY <2>1, <2>2, SMT DEF Record
<1>9. rec' \in [Grant -> Record]
  <2>1. \A g \in Grant : rec'[g] \in Record BY <1>2, <1>6, <1>7, <1>8
  <2> QED BY <1>5, <2>1
<1>10. ASSUME NEW g \in G
       PROVE  /\ rec'[g].issued /\ rec'[g].parent = Root /\ rec'[g].depth = 1
              /\ rec'[g].max = max[g] /\ rec'[g].remaining = max[g] /\ ~rec'[g].revoked
  <2>1. rec'[g] = Fresh(g) BY <1>6
  <2> QED BY <2>1, SMT
<1>11. \A g \in Grant \ G : SameGrant(rec[g], rec'[g]) /\ rec'[g].remaining = rec[g].remaining
  BY <1>3, <1>7
<1>12. rec'[Root] = rec[Root] BY <1>1, <1>4, <1>7
<1>13. \A g \in Grant \ (G \cup D) : rec'[g] = rec[g] BY <1>2, <1>7
<1> QED BY <1>9, <1>10, <1>11, <1>12, <1>13 DEF AfterSpawn

\* The roles of the phase are done, and G are spawned; roles among them are ready.
Spawns(G, max) ==
  /\ rec' = Spawned(Revoked(rec, RolesOf(phase)), G, max)
  /\ at' = [g \in Grant |-> IF g \in G \cap Role THEN "ready" ELSE at[g]]
  /\ RolesOf(phase') = G \cap Role /\ phase' \in {"wave", "validation", "reporting"}
  /\ spent' = spent /\ attempts' = attempts /\ ran' = ran /\ used' = used
  /\ before' = before /\ kill' = kill /\ failing' = failing /\ refused' = refused

(* Spawning keeps the agents' part of the invariant. *)
LEMMA AgentsSpawn ==
  ASSUME RunInv, phase # "ended", \A g \in Grant : at[g] \notin Live,
         NEW G \in SUBSET (Grant \ {Root}), NEW max,
         \A g \in G : max[g] \in Nat /\ at[g] = "new",
         \A g \in G \cap Role : max[g] = Calls[g], \A g \in G \cap Task : max[g] > 0,
         Spawns(G, max)
  PROVE  AgentsHold'
<1>0. /\ rec' = Spawned(Revoked(rec, RolesOf(phase)), G, max)
      /\ at' = [g \in Grant |-> IF g \in G \cap Role THEN "ready" ELSE at[g]]
      /\ RolesOf(phase') = G \cap Role /\ phase' # "ended"
      /\ spent' = spent /\ attempts' = attempts /\ ran' = ran
  BY DEF Spawns
<1>1. /\ \A g \in G : /\ rec'[g].issued /\ rec'[g].parent = Root /\ rec'[g].depth = 1
                      /\ rec'[g].max = max[g] /\ rec'[g].remaining = max[g] /\ ~rec'[g].revoked
      /\ \A g \in Grant \ G : SameGrant(rec[g], rec'[g]) /\ rec'[g].remaining = rec[g].remaining
      /\ \A g \in Grant \ (G \cup RolesOf(phase)) : rec'[g] = rec[g]
  <2>1. RolesOf(phase) \in SUBSET Role /\ \A g \in G : max[g] \in Nat BY Identities
  <2>2. AfterSpawn(RolesOf(phase), G, max) BY <1>0, <2>1, SpawnedRecords
  <2> QED BY <2>2 DEF AfterSpawn
<1>2. \A g \in Grant : g \notin G \cap Role => at'[g] = at[g] BY <1>0
<1>3. \A g \in G : attempts[g] = 0 /\ spent[g] = 0 /\ ran[g] = 0
  BY DEF RunInv, AgentsHold, Unbegun
<1>4. ASSUME NEW g \in Grant PROVE Unbegun(g)'
  <2>1. Unbegun(g) BY DEF RunInv, AgentsHold
  <2>2. CASE g \in G BY <1>0, <1>3, <2>2 DEF Unbegun
  <2>3. CASE g \notin G BY <1>0, <1>2, <2>1, <2>3 DEF Unbegun
  <2> QED BY <2>2, <2>3
<1>5. ASSUME NEW g \in Grant \ {Root} PROVE Child(g)'
  <2>1. Child(g) BY DEF RunInv, AgentsHold
  <2>2. CASE g \in G
    <3>1. attempts'[g] = 0 /\ spent'[g] = 0 BY <1>0, <1>3, <2>2
    <3>2. max[g] \in Nat BY <2>2
    <3>3. 0 <= max[g] /\ max[g] = max[g] - 0 BY <3>2, SMT
    <3> QED BY <1>1, <2>2, <3>1, <3>3 DEF Child
  <2>3. CASE g \notin G
    <3>1. at'[g] = at[g] /\ SameGrant(rec[g], rec'[g]) /\ rec'[g].remaining = rec[g].remaining
      BY <1>1, <1>2, <2>3
    <3>2. ~rec[g].issued => g \notin RolesOf(phase) BY PhaseRole DEF Issued
    <3>3. ~rec[g].issued => rec'[g] = rec[g] BY <1>1, <2>3, <3>2
    <3> QED BY <1>0, <2>1, <3>1, <3>3 DEF Child, SameGrant
  <2> QED BY <2>2, <2>3
<1>6. ASSUME NEW r \in Role PROVE RoleHolds(r)'
  <2>0. r \in Grant /\ RoleHolds(r) BY Identities DEF RunInv, AgentsHold
  <2>1. CASE r \in G
    <3>1. at'[r] = "ready" BY <1>0, <2>0, <2>1
    <3>2. Bit(at'[r] = "calling") = 0 BY <3>1 DEF Bit
    <3>3. 0 + 0 <= 0 BY SMT
    <3>4. rec'[r].issued /\ rec'[r].max = Calls[r] /\ ~rec'[r].revoked BY <1>1, <2>1
    <3>5. attempts'[r] = 0 /\ spent'[r] = 0 /\ ran'[r] = 0 BY <1>0, <1>3, <2>1
    <3>6. r \in RolesOf(phase') BY <1>0, <2>1
    <3> QED BY <3>1, <3>2, <3>3, <3>4, <3>5, <3>6 DEF RoleHolds
  <2>2. CASE r \notin G
    <3>1. at'[r] = at[r] /\ SameGrant(rec[r], rec'[r]) /\ r \notin RolesOf(phase')
      BY <1>0, <1>1, <1>2, <2>0, <2>2
    <3>2. at[r] # "calling" BY <2>0 DEF Live
    <3> QED BY <1>0, <2>0, <3>1, <3>2 DEF RoleHolds, SameGrant
  <2> QED BY <2>1, <2>2
<1>7. ASSUME NEW t \in Task PROVE TaskHolds(t)'
  <2>0. t \in Grant /\ t \notin Role /\ TaskHolds(t) /\ t \notin RolesOf(phase)
    BY Identities DEF RunInv, AgentsHold
  <2>1. at'[t] = at[t] /\ at[t] \notin Live BY <1>2, <2>0
  <2>2. ~Active(t) /\ ~Active(t)' BY <2>1 DEF Active, Live
  <2>3. Bit(Active(t)') = Bit(Active(t)) BY <2>2 DEF Bit
  <2>4. CASE t \in G
    <3>1. rec'[t].max > 0 /\ ~rec'[t].revoked BY <1>1, <2>4
    <3> QED BY <1>0, <2>0, <2>1, <2>2, <2>3, <3>1 DEF TaskHolds
  <2>5. CASE t \notin G
    <3>1. rec'[t] = rec[t] BY <1>1, <2>0, <2>5
    <3> QED BY <1>0, <2>0, <2>1, <2>2, <2>3, <3>1 DEF TaskHolds
  <2> QED BY <2>4, <2>5
<1>8. at'[Root] = "new" BY <1>2, Identities DEF RunInv, AgentsHold
<1> QED BY <1>4, <1>5, <1>6, <1>7, <1>8 DEF AgentsHold

(* Spawning keeps the invariant when the new allotments fit in the budget. *)
LEMMA SpawnsCarries ==
  ASSUME RunInv, phase # "ended", \A g \in Grant : at[g] \notin Live,
         NEW G \in SUBSET (Grant \ {Root}), NEW max,
         \A g \in G : max[g] \in Nat /\ at[g] = "new",
         \A g \in G \cap Role : max[g] = Calls[g], \A g \in G \cap Task : max[g] > 0,
         Spawns(G, max), plan' \in Seq(PlannedStep), next' \in Nat,
         Spawning', SumOf(Allot', Grant) <= MaxToolCalls
  PROVE  RunInv'
<1>0. /\ rec' = Spawned(Revoked(rec, RolesOf(phase)), G, max)
      /\ at' = [g \in Grant |-> IF g \in G \cap Role THEN "ready" ELSE at[g]]
      /\ phase' \in {"wave", "validation", "reporting"}
      /\ spent' = spent /\ attempts' = attempts /\ ran' = ran /\ used' = used
      /\ before' = before /\ kill' = kill /\ failing' = failing /\ refused' = refused
  BY DEF Spawns
<1>1. AgentsHold' BY AgentsSpawn
<1>2. rec' \in [Grant -> Record] /\ rec'[Root] = rec[Root]
  <2>1. RolesOf(phase) \in SUBSET Role /\ \A g \in G : max[g] \in Nat BY Identities
  <2>2. AfterSpawn(RolesOf(phase), G, max) BY <1>0, <2>1, SpawnedRecords
  <2> QED BY <2>2 DEF AfterSpawn
<1>3. at \in [Grant -> At] BY DEF RunInv, RunTypeOK
<1>4. at' \in [Grant -> At]
  <2>1. \A g \in Grant : at'[g] \in At BY <1>0, <1>3 DEF At
  <2> QED BY <1>0, <2>1
<1>5. RunTypeOK' BY <1>0, <1>2, <1>4 DEF RunInv, RunTypeOK, Phase
<1>6. RootHolds' BY <1>0, <1>2 DEF RunInv, RootHolds
<1>7. NeverRefusedLate'
  <2>1. before = 0 => ~refused BY DEF RunInv, NeverRefusedLate
  <2> QED BY <1>0, <2>1 DEF NeverRefusedLate
<1>8. Charges'
  <2>1. ASSUME NEW g \in Grant PROVE Held'[g] = Held[g] /\ Entered'[g] = Entered[g]
    <3>1. at'[g] = "ready" \/ at'[g] = at[g] BY <1>0
    <3>2. at[g] # "calling" /\ at[g] # "checked" /\ at'[g] # "calling" /\ at'[g] # "checked"
      BY <3>1 DEF Live
    <3>3. /\ Bit(at'[g] = "calling") = 0 /\ Bit(at[g] = "calling") = 0
          /\ Bit(at'[g] = "checked") = 0 /\ Bit(at[g] = "checked") = 0
      BY <3>2 DEF Bit
    <3>4. Held'[g] = ran[g] + 0 /\ Held[g] = ran[g] + 0 BY <1>0, <3>3 DEF Held
    <3>5. Entered'[g] = attempts[g] - 0 /\ Entered[g] = attempts[g] - 0 BY <1>0, <3>3 DEF Entered
    <3> QED BY <3>4, <3>5
  <2>2. Weighed(Held, Grant) /\ Weighed(Entered, Grant) BY Weights DEF RunInv, Weighable
  <2>3. SumOf(Held', Grant) = SumOf(Held, Grant)
    <3>1. \A g \in Grant : Held'[g] = Held[g] BY <2>1
    <3> QED BY <2>2, <3>1, SumEqual
  <2>4. SumOf(Entered', Grant) = SumOf(Entered, Grant)
    <3>1. \A g \in Grant : Entered'[g] = Entered[g] BY <2>1
    <3> QED BY <2>2, <3>1, SumEqual
  <2> QED BY <1>0, <2>3, <2>4 DEF RunInv, Charges
<1> QED BY <1>1, <1>5, <1>6, <1>7, <1>8 DEF RunInv

\* A number is at most a sum it is part of.
LEMMA PartOfSum == ASSUME NEW x \in Nat, NEW y \in Nat PROVE x <= x + y
BY SMT

\* A later position of a list that does not pass its end.
LEMMA LaterPosition ==
  ASSUME NEW m \in Nat, NEW i \in 1 .. m, NEW c \in Nat, i + c <= m
  PROVE  i + c \in 1 .. m /\ i + c \in Nat
BY SMT

(* A control role that has not been spawned can be: its calls are reserved.    *)
LEMMA RoleFits ==
  ASSUME RunInv, Working, NEW r \in ControlRole, at[r] = "new"
  PROVE  Calls[r] <= rec[Root].remaining /\ Calls[r] <= MaxToolCalls
<1> DEFINE v == [spent EXCEPT ![r] = Calls[r]]
<1>0. r \in Grant /\ Calls[r] \in Nat /\ spent \in [Grant -> Nat]
  BY Identities, RunAssumption DEF RunInv, RunTypeOK
<1>1. v[r] = Calls[r] /\ \A g \in Grant \ {r} : v[g] = spent[g] BY <1>0
<1>2. spent[r] = 0 BY <1>0 DEF RunInv, AgentsHold, Unbegun
<1>3. Allot[r] = Calls[r] BY <1>0, Identities DEF Allot
<1>4. ASSUME NEW g \in Grant PROVE v[g] \in Nat /\ v[g] <= Allot[g]
  <2>1. CASE g = r
    <3>1. Calls[r] <= Calls[r] BY <1>0, SMT
    <3> QED BY <1>0, <1>1, <1>3, <2>1, <3>1
  <2>2. CASE g # r
    <3>1. /\ spent[g] \in Nat /\ attempts[g] \in Nat /\ Allot[g] \in Nat
          /\ spent[g] <= attempts[g] /\ attempts[g] <= Allot[g]
      BY AgentNumbers DEF RunInv
    <3>2. v[g] = spent[g] BY <1>1, <2>2
    <3> QED BY <3>1, <3>2, SMT
  <2> QED BY <2>1, <2>2
<1> HIDE DEF v
<1>5. SumOf(v, Grant) \in Nat /\ SumOf(v, Grant) <= MaxToolCalls BY <1>4, WithinAllotment
<1>6. Weighed(v, Grant) /\ Weighed(spent, Grant) BY <1>0, <1>4, GrantFinite DEF Weighed
<1>7. Shifts(v, spent, Grant, r) BY <1>0, <1>1, <1>6, SumChange
<1>8. SumOf(v, Grant) + spent[r] = SumOf(spent, Grant) + v[r] BY <1>7 DEF Shifts
<1>9. SumOf(spent, Grant) \in Nat BY <1>6, SumStep
<1>10. rec[Root].remaining = MaxToolCalls - SumOf(spent, Grant) BY DEF RunInv, RootHolds
<1>11. MaxToolCalls \in Int /\ spent[r] \in Nat BY <1>0, CapabilityAssumption, SMT
<1>12. SumOf(v, Grant) + 0 = SumOf(spent, Grant) + Calls[r] /\ 0 \in Nat BY <1>1, <1>2, <1>8, <1>11
<1>13. Calls[r] <= MaxToolCalls - SumOf(spent, Grant) /\ Calls[r] <= MaxToolCalls
  BY <1>0, <1>5, <1>9, <1>11, <1>12, LeftOver
<1> QED BY <1>10, <1>13

(* The next phase begins; delegation is never refused. *)
LEMMA EnterCarries ==
  ASSUME RunInv, \A g \in Grant : at[g] \notin Live, NEW p,
         (phase = "wave" /\ p = "validation") \/ (phase = "validation" /\ p = "reporting"),
         Enter(p),
         UNCHANGED <<spent, plan, next, attempts, used, before, kill, failing, ran>>
  PROVE  RunInv'
<1> DEFINE G == RolesOf(p)
           idle == Revoked(rec, RolesOf(phase))
<1>0. /\ spent' = spent /\ plan' = plan /\ next' = next /\ attempts' = attempts /\ used' = used
      /\ before' = before /\ kill' = kill /\ failing' = failing /\ ran' = ran
  OBVIOUS
<1>1. G \in SUBSET ControlRole /\ G \in SUBSET (Grant \ {Root}) /\ G \cap Role = G /\ G \cap Task = {}
  <2>1. RolesOf("validation") = {Validator, Reviewer} /\ RolesOf("reporting") = {Reporter} BY DEF RolesOf
  <2>2. {Validator, Reviewer, Reporter} \subseteq ControlRole
    BY SMT DEF ControlRole, Role, Planner, Validator, Reviewer, Reporter
  <2>3. G \in SUBSET ControlRole BY <2>1, <2>2
  <2> QED BY <2>3, Identities
<1>2. \A g \in G : at[g] = "new"
  <2>1. phase = "wave" => \A r \in ControlRole : at[r] = "new" BY DEF RunInv, Spawning
  <2>2. phase = "validation" => at[Reporter] = "new" BY DEF RunInv, Spawning
  <2>3. RolesOf("reporting") = {Reporter} BY DEF RolesOf
  <2> QED BY <1>1, <2>1, <2>2, <2>3
<1>3. \A g \in G : Calls[g] \in Nat /\ Calls[g] <= rec[Root].remaining /\ Calls[g] <= MaxToolCalls
  <2>1. Working BY DEF Working
  <2>2. ASSUME NEW g \in G PROVE Calls[g] <= rec[Root].remaining /\ Calls[g] <= MaxToolCalls
    <3>1. g \in ControlRole /\ at[g] = "new" BY <1>1, <1>2
    <3> QED BY <2>1, <3>1, RoleFits
  <2> QED BY <1>1, <2>2, RunAssumption, Identities
<1>4. CanSpawn(idle, G, Calls)
  <2>1. Root \in Grant /\ Root \notin RolesOf(phase) BY Identities
  <2>2. idle[Root] = rec[Root] BY <2>1 DEF Revoked
  <2>3. /\ rec[Root].issued /\ rec[Root].depth = 0 /\ rec[Root].delegable /\ rec[Root].scope = Scope
        /\ rec[Root].max = MaxToolCalls /\ ~rec[Root].revoked /\ MaxDepth >= 1
    BY DEF RunInv, RootHolds
  <2>4. Root \in Issued(idle) BY <2>1, <2>2, <2>3 DEF Issued
  <2>5. idle[Root].depth + 1 <= MaxDepth BY <2>2, <2>3, CapabilityAssumption, SMT
  <2> HIDE DEF idle, G
  <2>6. ASSUME NEW g \in G PROVE CanDelegate(idle, Root, Scope, Calls[g])
    BY <1>3, <2>2, <2>3, <2>4, <2>5 DEF CanDelegate
  <2> QED BY <2>6 DEF CanSpawn
<1>5. /\ rec' = Spawned(idle, G, Calls) /\ phase' = p
      /\ at' = [g \in Grant |-> IF g \in G THEN "ready" ELSE at[g]] /\ refused' = refused
  BY <1>4 DEF Enter
<1>6. Spawns(G, Calls)
  BY <1>0, <1>1, <1>5 DEF Spawns
<1>7. AfterSpawn(RolesOf(phase), G, Calls)
  <2>1. RolesOf(phase) \in SUBSET Role BY Identities
  <2> QED BY <1>1, <1>3, <1>5, <2>1, SpawnedRecords
<1>8. Spawning'
  <2>1. phase' \in {"validation", "reporting"} BY <1>5
  <2>2. phase' = "validation" => at'[Reporter] = "new"
    <3>1. Reporter \in ControlRole
      BY SMT DEF ControlRole, Role, Planner, Validator, Reviewer, Reporter
    <3>2. Reporter \notin {Validator, Reviewer} BY SMT DEF Reporter, Validator, Reviewer
    <3>3. ASSUME p = "validation" PROVE at'[Reporter] = "new"
      <4>1. Reporter \notin G BY <3>2, <3>3 DEF RolesOf
      <4>2. at[Reporter] = "new" BY <3>1, <3>3 DEF RunInv, Spawning
      <4>3. Reporter \in Grant BY <3>1, Identities
      <4> QED BY <1>5, <4>1, <4>2, <4>3
    <3> QED BY <1>5, <3>3
  <2> QED BY <2>1, <2>2 DEF Spawning
<1>9. SumOf(Allot', Grant) <= MaxToolCalls
  <2>1. ASSUME NEW g \in Grant PROVE Allot'[g] = Allot[g]
    <3>1. CASE g \in Role \/ g = Root BY <1>0, <3>1 DEF Allot, ControlRole
    <3>2. CASE g \in Task
      <4>1. g \notin G BY <1>1, <3>2
      <4>2. rec'[g].max = rec[g].max BY <1>7, <4>1 DEF AfterSpawn, SameGrant
      <4> QED BY <1>0, <4>2 DEF Allot
    <3> QED BY <3>1, <3>2 DEF Task
  <2>2. \A g \in Grant : Allot'[g] = Allot[g] BY <2>1
  <2>3. Weighed(Allot, Grant) BY Weights DEF RunInv, Weighable
  <2>4. SumOf(Allot', Grant) = SumOf(Allot, Grant) BY <2>2, <2>3, SumEqual
  <2>5. SumOf(Allot, Grant) <= MaxToolCalls BY DEF RunInv, Charges
  <2> QED BY <2>4, <2>5
<1>10. plan' \in Seq(PlannedStep) /\ next' \in Nat /\ phase # "ended" BY <1>0 DEF RunInv, RunTypeOK
<1> HIDE DEF G, idle
<1>11. \A g \in G : Calls[g] \in Nat /\ at[g] = "new" BY <1>2, <1>3
<1> QED BY <1>1, <1>6, <1>8, <1>9, <1>10, <1>11, SpawnsCarries

(* Validation is over. *)
LEMMA ValidationReadyCarries ==
  ASSUME RunInv, ValidationReady, before' = before
  PROVE  RunInv'
<1>1. /\ phase = "validation" /\ Quiet(phase) /\ Enter("reporting")
      /\ UNCHANGED <<spent, plan, next, attempts, used, before, kill, failing, ran>>
  BY DEF ValidationReady
<1>2. Wave = {} BY <1>1 DEF Wave
<1>3. \A g \in Grant : at[g] \notin Live BY <1>1, <1>2, Idle DEF Quiet
<1> QED BY <1>1, <1>3, EnterCarries

(* The wave is over: the run ends, or goes on with the next wave or validation. *)
LEMMA EndWaveCarries ==
  ASSUME RunInv, EndWave, before' = before
  PROVE  RunInv'
<1> DEFINE after == next + Cardinality(Wave)
<1>1. /\ phase = "wave" /\ WaveOver /\ spent' = spent /\ plan' = plan /\ attempts' = attempts
      /\ used' = used /\ kill' = kill /\ failing' = failing /\ ran' = ran
  BY DEF EndWave
<1>2. \A g \in Grant : at[g] \notin Live
  <2>1. \A t \in Wave : at[t] \notin Live BY <1>1 DEF WaveOver, Live
  <2>2. RolesOf(phase) = {} BY <1>1 DEF RolesOf
  <2> QED BY <2>1, <2>2, Idle
<1>3. /\ plan \in Seq(PlannedStep) /\ next \in Nat /\ kill \in BOOLEAN /\ failing \in BOOLEAN
      /\ refused \in BOOLEAN /\ (before = 0 => ~refused)
  BY DEF RunInv, RunTypeOK, NeverRefusedLate
<1>4. CASE End /\ UNCHANGED <<next, at, refused>>
  <2>1. NeverRefusedLate' BY <1>3, <1>4 DEF NeverRefusedLate
  <2> QED BY <1>1, <1>2, <1>3, <1>4, <2>1, IdleEnds
<1>5. CASE after <= Len(plan) /\ next' = after /\ UNCHANGED <<rec, phase, at, refused>>
  <2>0. rec' = rec /\ phase' = phase /\ at' = at /\ refused' = refused /\ next' = after BY <1>5
  <2>1. next' \in 1 .. Len(plan) /\ next' \in Nat
    <3>1. Wave \subseteq Grant BY <1>1, WaveOfPlan, Identities
    <3>2. Finite(Wave) BY <3>1, GrantFinite, FiniteSubset
    <3>3. Cardinality(Wave) \in Nat BY <3>2, SizeIsSum
    <3>4. next \in 1 .. Len(plan) BY <1>1 DEF RunInv, Spawning
    <3>5. Len(plan) \in Nat BY <1>3, SMT
    <3> QED BY <1>3, <1>5, <3>3, <3>4, <3>5, LaterPosition
  <2> HIDE DEF after
  <2>2. RunTypeOK' BY <1>1, <2>0, <2>1 DEF RunInv, RunTypeOK
  <2>3. RootHolds' BY <1>1, <2>0 DEF RunInv, RootHolds
  <2>4. AgentsHold'
    <3>1. ASSUME NEW g \in Grant PROVE Unbegun(g)'
      <4>1. Unbegun(g) BY DEF RunInv, AgentsHold
      <4> QED BY <1>1, <2>0, <4>1 DEF Unbegun
    <3>2. ASSUME NEW g \in Grant \ {Root} PROVE Child(g)'
      <4>1. Child(g) BY DEF RunInv, AgentsHold
      <4> QED BY <1>1, <2>0, <4>1 DEF Child
    <3>3. ASSUME NEW g \in Role PROVE RoleHolds(g)'
      <4>1. RoleHolds(g) BY DEF RunInv, AgentsHold
      <4> QED BY <1>1, <2>0, <4>1 DEF RoleHolds
    <3>4. ASSUME NEW g \in Task PROVE TaskHolds(g)'
      <4>1. TaskHolds(g) BY DEF RunInv, AgentsHold
      <4>2. g \in Grant BY Identities
      <4>3. ~Active(g) /\ ~Active(g)' BY <1>2, <2>0, <4>2 DEF Active, Live
      <4>4. Bit(Active(g)') = Bit(Active(g)) BY <4>3 DEF Bit
      <4> QED BY <1>1, <2>0, <4>1, <4>3, <4>4 DEF TaskHolds
    <3>5. at'[Root] = "new" BY <2>0 DEF RunInv, AgentsHold
    <3> QED BY <3>1, <3>2, <3>3, <3>4, <3>5 DEF AgentsHold
  <2>5. Spawning' BY <1>1, <2>0, <2>1 DEF RunInv, Spawning
  <2>6. Charges'
    <3>1. Held' = Held /\ Entered' = Entered /\ Allot' = Allot BY <1>1, <2>0 DEF Held, Entered, Allot
    <3> QED BY <1>1, <2>0, <3>1 DEF RunInv, Charges
  <2>7. NeverRefusedLate' BY <1>3, <2>0 DEF NeverRefusedLate
  <2> QED BY <2>2, <2>3, <2>4, <2>5, <2>6, <2>7 DEF RunInv
<1>6. CASE Enter("validation") /\ UNCHANGED next
  <2>1. UNCHANGED <<spent, plan, next, attempts, used, before, kill, failing, ran>> BY <1>1, <1>6
  <2> QED BY <1>1, <1>2, <1>6, <2>1, EnterCarries
<1> QED BY <1>4, <1>5, <1>6 DEF EndWave

(* The kill switch, and a step that changes nothing. *)
LEMMA KillCarries ==
  ASSUME RunInv, Kill \/ UNCHANGED runVars
  PROVE  RunInv'
<1>1. /\ rec' = rec /\ spent' = spent /\ phase' = phase /\ plan' = plan /\ next' = next /\ at' = at
      /\ attempts' = attempts /\ used' = used /\ before' = before /\ failing' = failing
      /\ ran' = ran /\ refused' = refused /\ (kill' = TRUE \/ kill' = kill)
  BY DEF Kill, runVars, callVars
<1>2. RunTypeOK' BY <1>1 DEF RunInv, RunTypeOK
<1>3. RootHolds' BY <1>1 DEF RunInv, RootHolds
<1>4. AgentsHold'
  <2>1. \A g \in Grant : SameAgent(g) BY <1>1 DEF SameAgent
  <2>2. ASSUME NEW g \in Grant
        PROVE  /\ Unbegun(g) => Unbegun(g)'
               /\ Child(g) => Child(g)'
               /\ RoleHolds(g) => RoleHolds(g)'
               /\ TaskHolds(g) => TaskHolds(g)'
    <3>1. SameAgent(g) BY <2>1
    <3> QED BY <1>1, <3>1, OtherAgent
  <2>3. at'[Root] = "new" BY <1>1 DEF RunInv, AgentsHold
  <2>4. (\A g \in Role : g \in Grant) /\ (\A g \in Task : g \in Grant) BY Identities
  <2> QED BY <2>2, <2>3, <2>4 DEF RunInv, AgentsHold
<1>5. Spawning' BY <1>1 DEF RunInv, Spawning
<1>6. Charges'
  <2>1. Held' = Held /\ Entered' = Entered /\ Allot' = Allot BY <1>1 DEF Held, Entered, Allot
  <2> QED BY <1>1, <2>1 DEF RunInv, Charges
<1>7. NeverRefusedLate'
  <2>1. before = 0 => ~refused BY DEF RunInv, NeverRefusedLate
  <2> QED BY <1>1, <2>1 DEF NeverRefusedLate
<1> QED BY <1>2, <1>3, <1>4, <1>5, <1>6, <1>7 DEF RunInv

-----------------------------------------------------------------------------
(* The plan is accepted. *)

\* k tasks, l of them of low risk, have s calls of the a that are available to n:
\* what one more task, of one call or of two, makes of these.
OneMore(k, n, s, l, a) ==
  /\ 1 + s <= (k + 1) + l /\ 1 + s <= (k + 1) + (l + 1) /\ 1 + s <= (k + 1) + (a - n)
  /\ n + (l + 1) <= a => 2 + s <= (k + 1) + (l + 1) /\ 2 + s <= (k + 1) + (a - n)

\* Calls that fit before one more task fit after it.
LEMMA OneMoreTask ==
  ASSUME NEW k \in Nat, NEW n \in Nat, NEW s \in Nat, NEW l \in Nat, NEW a \in Int,
         s <= k + l, s <= k + (a - n)
  PROVE  OneMore(k, n, s, l, a)
BY SMT DEF OneMore

(* The attempts that are allocated fit in what is available: one call for every *)
(* task does, and a retry is given only while one is left.                      *)
LEMMA AllocationFits ==
  ASSUME NEW p \in Seq(PlannedStep), NEW available \in Int, Len(p) <= available
  PROVE  /\ \A i \in 1 .. Len(p) : Allocate(p, available)[i] \in {1, 2}
         /\ SumOf(Allocate(p, available), 1 .. Len(p)) <= available
<1> DEFINE n == Len(p)
           c == Allocate(p, available)
           low(k) == {j \in 1 .. k : p[j].low}
           S(k) == SumOf(c, 1 .. k)
           L(k) == Cardinality(low(k))
           Fits(k) == k <= n => S(k) <= k + L(k) /\ S(k) <= k + (available - n)
           T == {k \in Nat : Fits(k)}
<1>0. n \in Nat BY SMT
<1>1. \A i \in 1 .. n : c[i] = IF p[i].low /\ n + L(i) <= available THEN 2 ELSE 1 BY DEF Allocate
<1>2. \A i \in 1 .. n : c[i] \in {1, 2} BY <1>1
<1> HIDE DEF n, c
<1>3. ASSUME NEW k \in Nat PROVE Finite(low(k)) /\ L(k) \in Nat
  <2>1. Finite(1 .. k) BY FiniteUpTo
  <2>2. Finite(low(k)) BY <2>1, FiniteSubset
  <2> QED BY <2>2, SizeIsSum
<1>4. ASSUME NEW k \in Nat, k <= n PROVE Weighed(c, 1 .. k) /\ S(k) \in Nat
  <2>1. Finite(1 .. k) BY FiniteUpTo
  <2>2. \A i \in 1 .. k : i \in 1 .. n BY <1>0, <1>4, SMT
  <2>3. 1 \in Nat /\ 2 \in Nat BY SMT
  <2>4. \A i \in 1 .. k : c[i] \in Nat BY <1>2, <2>2, <2>3
  <2>5. Weighed(c, 1 .. k) BY <2>1, <2>4 DEF Weighed
  <2> QED BY <2>5, SumStep
<1>5. 0 \in T
  <2>1. 1 .. 0 = {} /\ 0 \in Nat /\ 0 <= n BY <1>0, SMT
  <2>2. Weighed(c, 1 .. 0) BY <1>4, <2>1
  <2>3. S(0) = 0 BY <2>1, <2>2, SumStep
  <2>4. L(0) \in Nat BY <1>3, <2>1
  <2> HIDE DEF S, L
  <2>5. S(0) <= 0 + L(0) /\ S(0) <= 0 + (available - n) BY <1>0, <2>3, <2>4, SMT DEF n
  <2> QED BY <2>1, <2>5
<1>6. ASSUME NEW k \in Nat, k \in T PROVE k + 1 \in T
  <2>0. k + 1 \in Nat BY SMT
  <2>1. ASSUME k + 1 <= n PROVE S(k + 1) <= (k + 1) + L(k + 1) /\ S(k + 1) <= (k + 1) + (available - n)
    <3>1. k <= n /\ k + 1 \in 1 .. n /\ k + 1 \notin 1 .. k BY <1>0, <2>1, SMT
    <3>2. 1 .. k + 1 = (1 .. k) \cup {k + 1} BY SMT
    <3>3. Weighed(c, 1 .. k) /\ S(k) \in Nat BY <1>4, <3>1
    <3>4. S(k) <= k + L(k) /\ S(k) <= k + (available - n) BY <1>6, <3>1
    <3>5. c[k + 1] \in {1, 2} BY <1>2, <3>1
    <3>6. c[k + 1] \in Nat BY <3>5, SMT
    <3>7. Joins(c, 1 .. k, k + 1) BY <3>1, <3>3, <3>6, SumIn
    <3>8. S(k + 1) = c[k + 1] + S(k) BY <3>2, <3>7 DEF Joins
    <3>9. L(k) \in Nat /\ L(k + 1) \in Nat /\ Finite(low(k)) BY <1>3, <2>0
    <3>10. OneMore(k, n, S(k), L(k), available) BY <1>0, <3>3, <3>4, <3>9, OneMoreTask
    <3>11. CASE p[k + 1].low
      <4>1. low(k + 1) = low(k) \cup {k + 1} BY <3>2, <3>11
      <4>2. k + 1 \notin low(k) BY <3>1
      <4> HIDE DEF low
      <4>3. L(k + 1) = L(k) + 1 BY <3>9, <4>1, <4>2, SizeIn
      <4>4. c[k + 1] = IF n + L(k + 1) <= available THEN 2 ELSE 1 BY <1>1, <3>1, <3>11
      <4> HIDE DEF S, L
      <4>5. CASE n + L(k + 1) <= available
        <5>1. c[k + 1] = 2 BY <4>4, <4>5
        <5> HIDE DEF Fits, T
        <5> QED BY <3>8, <3>10, <4>3, <4>5, <5>1 DEF OneMore
      <4>6. CASE ~(n + L(k + 1) <= available)
        <5>1. c[k + 1] = 1 BY <4>4, <4>6
        <5> HIDE DEF Fits, T
        <5> QED BY <3>8, <3>10, <4>3, <5>1 DEF OneMore
      <4> QED BY <4>5, <4>6
    <3>12. CASE ~p[k + 1].low
      <4>1. low(k + 1) = low(k) BY <3>2, <3>12
      <4>2. L(k + 1) = L(k) BY <4>1
      <4>3. c[k + 1] = 1 BY <1>1, <3>1, <3>12
      <4> HIDE DEF S, L
      <4> QED BY <3>8, <3>10, <4>2, <4>3 DEF OneMore
    <3> QED BY <3>11, <3>12
  <2> HIDE DEF S, L
  <2> QED BY <2>0, <2>1
<1> HIDE DEF T
<1>7. Nat \subseteq T BY <1>5, <1>6, SetInduction
<1>8. n \in T BY <1>0, <1>7
<1>9. S(n) <= n + (available - n)
  <2>1. n <= n BY <1>0, SMT
  <2> QED BY <1>8, <2>1 DEF T
<1>10. S(n) \in Nat
  <2>1. n <= n BY <1>0, SMT
  <2> QED BY <1>0, <1>4, <2>1
<1> HIDE DEF S
<1>11. S(n) <= available BY <1>0, <1>9, <1>10, SMT
<1> QED BY <1>2, <1>11 DEF n, c, S

(* The planner's answer is accepted, or refused as too large. *)
LEMMA PlanReadyCarries ==
  ASSUME RunInv, NEW p \in Plans, PlanReady(p), before' = before
  PROVE  RunInv'
<1> DEFINE n == Len(p)
           available == SpecialistCapacity
           calls == Allocate(p, available)
           G == 1 .. n
<1>1. /\ phase = "planning" /\ Quiet(phase) /\ AcceptPlan(p) /\ plan' = p /\ next' = 1
      /\ spent' = spent /\ kill' = kill /\ failing' = failing /\ at' = at /\ attempts' = attempts
      /\ used' = used /\ ran' = ran /\ refused' = refused
  BY DEF PlanReady, AcceptPlan, callVars
<1>2. p \in Seq(PlannedStep) /\ n > 0 /\ G \subseteq Grant BY RunAssumption
<1>3. n \in Nat /\ 1 \in G /\ 1 \in Nat BY <1>2, SMT
<1>4. G \subseteq Task /\ G \cap Role = {} /\ Root \notin G
  <2>1. \A i \in G : i # Root /\ i \notin Role
    BY <1>3, SMT DEF Root, Role, Planner, Validator, Reviewer, Reporter
  <2> QED BY <1>2, <2>1 DEF Task
<1>5. \A g \in Grant : at[g] \notin Live
  <2>1. Wave = {} BY <1>1 DEF Wave
  <2> QED BY <1>1, <2>1, Idle DEF Quiet
<1>6. CASE End
  <2>1. /\ kill \in BOOLEAN /\ failing \in BOOLEAN /\ refused \in BOOLEAN /\ (before = 0 => ~refused)
    BY DEF RunInv, RunTypeOK, NeverRefusedLate
  <2>2. NeverRefusedLate' BY <1>1, <2>1 DEF NeverRefusedLate
  <2> QED BY <1>1, <1>2, <1>3, <1>5, <1>6, <2>1, <2>2, IdleEnds
<1>7. CASE /\ n <= available /\ phase' = "wave"
           /\ rec' = Spawned(Revoked(rec, {Planner}), G, calls)
  <2>1. RolesOf(phase) = {Planner} /\ RolesOf(phase') = {} BY <1>1, <1>7 DEF RolesOf
  <2>2. Planner \in Role /\ ControlRole \subseteq Role /\ Role \subseteq Grant
    BY Identities
  <2>3. spent \in [Grant -> Nat] /\ attempts \in [Grant -> Nat] /\ at \in [Grant -> At]
    BY DEF RunInv, RunTypeOK
  <2>4. Weighed(Calls, ControlRole)
    <3>1. Finite(ControlRole) BY <2>2, GrantFinite, FiniteSubset
    <3> QED BY <2>2, <3>1, RunAssumption DEF Weighed
  <2>5. SumOf(Calls, ControlRole) \in Nat BY <2>4, SumStep
  <2>6. Weighed(spent, Grant) BY <2>3, GrantFinite DEF Weighed
  <2>7. SumOf(spent, Grant) \in Nat BY <2>6, SumStep
  <2>8. available = (MaxToolCalls - SumOf(spent, Grant)) - SumOf(Calls, ControlRole)
    BY DEF RunInv, RootHolds, SpecialistCapacity, Remaining, ReservedControlCalls
  <2>9. available \in Int BY <2>5, <2>7, <2>8, CapabilityAssumption, SMT
  <2> HIDE DEF available
  <2>10. (\A i \in G : calls[i] \in {1, 2}) /\ SumOf(calls, G) <= available
    BY <1>2, <1>7, <2>9, AllocationFits
  <2> HIDE DEF n, calls
  <2>11. \A i \in G : calls[i] \in Nat /\ calls[i] > 0 BY <2>10, SMT
  <2>12. \A g \in G : at[g] = "new"
    <3>1. \A t \in Task : ~rec[t].issued BY <1>1 DEF RunInv, Spawning
    <3> QED BY <1>2, <1>4, <3>1 DEF RunInv, AgentsHold, Child
  <2>13. Spawns(G, calls)
    <3>1. at' = [g \in Grant |-> IF g \in G \cap Role THEN "ready" ELSE at[g]] BY <1>1, <1>4, <2>3
    <3> QED BY <1>1, <1>4, <1>7, <2>1, <3>1 DEF Spawns
  <2>14. AfterSpawn({Planner}, G, calls)
    <3>1. {Planner} \in SUBSET Role /\ G \in SUBSET (Grant \ {Root}) BY <1>2, <1>4, <2>2
    <3> QED BY <1>7, <2>11, <3>1, SpawnedRecords
  <2>15. Spawning'
    <3>1. \A r \in ControlRole : at'[r] = "new" BY <1>1 DEF RunInv, Spawning
    <3>2. \A t \in G : rec'[t].issued BY <2>14 DEF AfterSpawn
    <3>3. 1 .. Len(plan') = G BY <1>1 DEF n
    <3> QED BY <1>1, <1>3, <1>4, <1>7, <3>1, <3>2, <3>3 DEF Spawning
  <2>16. SumOf(Allot', Grant) <= MaxToolCalls
    <3> DEFINE w == [g \in Grant |-> IF g = Planner THEN attempts[g]
                                     ELSE IF g \in ControlRole THEN Calls[g]
                                     ELSE IF g \in G THEN calls[g] ELSE 0]
               R == Grant \ (({Planner} \cup ControlRole) \cup G)
    <3>1. /\ Planner \in Grant /\ Planner \notin ControlRole /\ Planner \notin G /\ Planner # Root
          /\ ControlRole \cap G = {} /\ Root \notin ControlRole
      BY <1>4, <2>2, Identities
    <3>2. ASSUME NEW g \in Grant PROVE Allot'[g] = w[g]
      <4>1. CASE g \in {Planner} \cup ControlRole \/ g = Root BY <1>1, <1>4, <3>1, <4>1 DEF Allot
      <4>2. CASE g \in G
        <5>1. rec'[g].max = calls[g] BY <2>14, <4>2 DEF AfterSpawn
        <5>2. g # Planner /\ g \notin ControlRole /\ g # Root BY <1>4, <3>1, <4>2
        <5> QED BY <4>2, <5>1, <5>2 DEF Allot
      <4>3. CASE g \in Task \ G
        <5>1. g # Planner /\ g \notin ControlRole /\ g # Root BY <2>2, <4>3, Identities
        <5>2. rec'[g] = rec[g] BY <2>14, <4>3, <5>1 DEF AfterSpawn
        <5>3. rec[g] = Absent
          <6>1. ~rec[g].issued BY <1>1, <4>3 DEF RunInv, Spawning
          <6> QED BY <4>3, <5>1, <6>1 DEF RunInv, AgentsHold, Child
        <5>4. rec'[g].max = 0 BY <5>2, <5>3, SMT DEF Absent
        <5> QED BY <4>3, <5>1, <5>4 DEF Allot
      <4> QED BY <4>1, <4>2, <4>3 DEF Task, ControlRole
    <3>3. /\ w[Planner] = attempts[Planner] /\ (\A g \in ControlRole : w[g] = Calls[g])
          /\ (\A g \in G : w[g] = calls[g]) /\ \A g \in R : w[g] = 0
      BY <1>2, <2>2, <3>1
    <3>4. ASSUME NEW g \in Grant PROVE w[g] \in Nat
      <4>1. attempts[g] \in Nat /\ 0 \in Nat BY <2>3
      <4>2. g \in ControlRole => Calls[g] \in Nat BY <2>2, RunAssumption
      <4> QED BY <2>11, <4>1, <4>2
    <3> HIDE DEF w
    <3>5. ASSUME NEW A \in SUBSET Grant PROVE Weighed(w, A) /\ SumOf(w, A) \in Nat
      <4>1. Finite(A) BY GrantFinite, FiniteSubset
      <4>2. Weighed(w, A) BY <3>4, <4>1 DEF Weighed
      <4> QED BY <4>2, SumStep
    <3> DEFINE P == {Planner}
               C == P \cup ControlRole
               B == C \cup G
    <3>6. /\ P \in SUBSET Grant /\ ControlRole \in SUBSET Grant /\ C \in SUBSET Grant
          /\ G \in SUBSET Grant /\ B \in SUBSET Grant /\ R \in SUBSET Grant
          /\ P \cap ControlRole = {} /\ C \cap G = {} /\ B \cap R = {} /\ B \cup R = Grant
      BY <1>2, <2>2, <3>1
    <3>7. SumOf(w, C) = SumOf(w, P) + SumOf(w, ControlRole) BY <3>5, <3>6, SumUnion
    <3>8. SumOf(w, B) = SumOf(w, C) + SumOf(w, G)
      <4> HIDE DEF C
      <4> QED BY <3>5, <3>6, SumUnion
    <3>9. SumOf(w, Grant) = SumOf(w, B) + SumOf(w, R)
      <4> HIDE DEF B, R
      <4>1. SumOf(w, B \cup R) = SumOf(w, B) + SumOf(w, R) BY <3>5, <3>6, SumUnion
      <4> QED BY <3>6, <4>1
    <3>10. SumOf(w, P) = attempts[Planner]
      <4>1. w[Planner] \in Nat BY <3>1, <3>4
      <4> QED BY <3>3, <4>1, SumSingle
    <3>11. SumOf(w, ControlRole) = SumOf(Calls, ControlRole)
      <4>1. \A g \in ControlRole : w[g] = Calls[g] BY <3>3
      <4> QED BY <2>4, <4>1, SumEqual
    <3>12. SumOf(w, G) = SumOf(calls, G)
      <4>1. \A g \in G : calls[g] = w[g] BY <3>3
      <4>2. Weighed(w, G) BY <3>5, <3>6
      <4>3. SumOf(calls, G) = SumOf(w, G) BY <4>1, <4>2, SumEqual
      <4> QED BY <4>3
    <3>13. SumOf(w, R) = 0
      <4>1. Finite(R) BY <3>6, GrantFinite, FiniteSubset
      <4> QED BY <3>3, <4>1, SumZero
    <3>14. SumOf(Allot', Grant) = SumOf(w, Grant)
      <4>1. \A g \in Grant : Allot'[g] = w[g] BY <3>2
      <4>2. Grant \in SUBSET Grant OBVIOUS
      <4>3. Weighed(w, Grant) BY <3>5, <4>2
      <4> QED BY <4>1, <4>3, SumEqual
    <3>15. attempts[Planner] \in Nat /\ attempts[Planner] <= SumOf(spent, Grant)
      <4>1. attempts[Planner] \in Nat /\ spent[Planner] = attempts[Planner]
        BY <2>2, <2>3, <3>1 DEF RunInv, AgentsHold, RoleHolds
      <4>2. Splits(spent, Grant, Planner) BY <2>6, <3>1, SumOut
      <4>3. SumOf(spent, Grant) = spent[Planner] + SumOf(spent, Grant \ {Planner}) BY <4>2 DEF Splits
      <4>4. Weighed(spent, Grant \ {Planner}) BY <2>6, FiniteSubset DEF Weighed
      <4>5. SumOf(spent, Grant \ {Planner}) \in Nat BY <4>4, SumStep
      <4> QED BY <4>1, <4>3, <4>5, PartOfSum
    <3>16. SumOf(w, G) \in Nat BY <3>5, <3>6
    <3> HIDE DEF P, C, B, R, G
    <3> QED BY <2>5, <2>7, <2>8, <2>9, <2>10, <3>7, <3>8, <3>9, <3>10, <3>11, <3>12, <3>13, <3>14,
               <3>15, <3>16, CapabilityAssumption, SMT
  <2>17. /\ G \in SUBSET (Grant \ {Root}) /\ G \cap Role = {} /\ phase # "ended"
         /\ plan' \in Seq(PlannedStep) /\ next' \in Nat
    BY <1>1, <1>2, <1>3, <1>4
  <2> HIDE DEF G
  <2> QED BY <1>5, <2>11, <2>12, <2>13, <2>15, <2>16, <2>17, SpawnsCarries
<1> QED BY <1>1, <1>6, <1>7 DEF AcceptPlan

-----------------------------------------------------------------------------
(* The run. *)

(* A run begins with the Supervisor's grant and the planner spawned under it. *)
LEMMA RunInitially ==
  ASSUME RunInit
  PROVE  RunInv
<1> DEFINE none == [g \in Grant |-> Absent]
           root == RootIssued(none, Root)
           Super == [issued |-> TRUE, parent |-> NoParent, depth |-> 0, scope |-> Scope,
                     max |-> MaxToolCalls, delegable |-> TRUE, remaining |-> MaxToolCalls,
                     revoked |-> FALSE]
           First == [issued |-> TRUE, parent |-> Root, depth |-> 1, scope |-> Scope,
                     max |-> Calls[Planner], delegable |-> FALSE, remaining |-> Calls[Planner],
                     revoked |-> FALSE]
<1>1. /\ rec = Spawned(root, {Planner}, Calls) /\ CanSpawn(root, {Planner}, Calls)
      /\ spent = [g \in Grant |-> 0] /\ phase = "planning" /\ plan = << >> /\ next = 1
      /\ at = [g \in Grant |-> IF g = Planner THEN "ready" ELSE "new"]
      /\ attempts = [g \in Grant |-> 0] /\ before \in Shared /\ used = before
      /\ kill = FALSE /\ failing = FALSE /\ ran = [g \in Grant |-> 0] /\ refused = FALSE
  BY DEF RunInit
<1>2. /\ Root \in Grant /\ Planner \in Grant /\ Planner \in Role /\ Planner # Root
      /\ Role \subseteq Grant /\ Task \subseteq Grant /\ Planner \notin Task /\ Planner \notin ControlRole
      /\ Root \notin Role /\ Root \notin Task /\ ControlRole \subseteq Role
  BY Identities
<1>3. root = [g \in Grant |-> IF g = Root THEN Super ELSE Absent] BY DEF RootIssued
<1> HIDE DEF root
<1>4. rec = [g \in Grant |-> IF g = Planner THEN First ELSE root[g]]
  <2>1. root[Root].depth + 1 = 1
    <3>1. root[Root] = Super BY <1>2, <1>3
    <3> QED BY <3>1, SMT
  <2>2. Delegated(root, Root, Planner, Scope, Calls[Planner], FALSE)[Planner] = First
    BY <1>2, <1>3, <2>1 DEF Delegated
  <2> HIDE DEF First
  <2> QED BY <1>1, <2>2 DEF Spawned
<1>5. rec[Root] = Super /\ rec[Planner] = First /\ \A g \in Grant \ {Root, Planner} : rec[g] = Absent
  <2> HIDE DEF First, Super
  <2> QED BY <1>2, <1>3, <1>4
<1>6. /\ rec[Root].issued /\ rec[Root].parent = NoParent /\ rec[Root].depth = 0
      /\ rec[Root].delegable /\ rec[Root].scope = Scope /\ rec[Root].max = MaxToolCalls
      /\ rec[Root].remaining = MaxToolCalls /\ ~rec[Root].revoked
  BY <1>5, SMT
<1>7. /\ rec[Planner].issued /\ rec[Planner].parent = Root /\ rec[Planner].depth = 1
      /\ rec[Planner].max = Calls[Planner] /\ rec[Planner].remaining = Calls[Planner]
      /\ ~rec[Planner].revoked
  BY <1>5, SMT
<1>8. \A g \in Grant \ {Root, Planner} : rec[g] = Absent /\ ~rec[g].issued
  <2>1. ~Absent.issued BY DEF Absent
  <2> QED BY <1>5, <2>1
<1>9. Calls[Planner] \in Nat /\ 0 \in Nat /\ 1 \in Nat /\ MaxToolCalls \in Nat /\ MaxDepth \in Nat
  BY <1>2, RunAssumption, CapabilityAssumption, SMT
<1>10. rec \in [Grant -> Record]
  <2>1. Super \in Record /\ First \in Record /\ Absent \in Record
    BY <1>2, <1>9, CapabilityAssumption, SMT DEF Record, Absent
  <2> HIDE DEF Super, First
  <2>2. \A g \in Grant : rec[g] \in Record BY <1>5, <2>1
  <2> QED BY <1>4, <2>2
<1> HIDE DEF Super, First
<1>11. /\ at \in [Grant -> At] /\ at[Planner] = "ready"
       /\ \A g \in Grant \ {Planner} : at[g] = "new"
  BY <1>1, <1>2 DEF At
<1>12. \A g \in Grant : spent[g] = 0 /\ attempts[g] = 0 /\ ran[g] = 0 BY <1>1
<1>13. before \in Nat /\ used \in Int /\ used = before
  <2>1. before \in 0 .. MaxToolCalls BY <1>1, RunAssumption
  <2> QED BY <1>1, <1>9, <2>1, SMT
<1>14. RunTypeOK
  <2>1. plan \in Seq(PlannedStep) /\ next \in Nat BY <1>1, SMT
  <2>2. /\ spent \in [Grant -> Nat] /\ attempts \in [Grant -> Nat] /\ ran \in [Grant -> Nat]
    BY <1>1, <1>9
  <2> QED BY <1>1, <1>10, <1>11, <1>13, <2>1, <2>2 DEF RunTypeOK, Phase
<1>15. SumOf(spent, Grant) = 0
  <2>1. \A g \in Grant : spent[g] = 0 BY <1>12
  <2> QED BY <2>1, GrantFinite, SumZero
<1>16. RootHolds
  <2>1. root[Root].depth + 1 <= MaxDepth BY <1>1 DEF CanSpawn, CanDelegate
  <2>2. root[Root] = rec[Root] BY <1>2, <1>4
  <2>3. MaxDepth >= 1 BY <1>6, <1>9, <2>1, <2>2, SMT
  <2>4. MaxToolCalls = MaxToolCalls - 0 BY <1>9, SMT
  <2> QED BY <1>6, <1>15, <2>3, <2>4 DEF RootHolds
<1>17. AgentsHold
  <2>1. \A g \in Grant : Unbegun(g) BY <1>12 DEF Unbegun
  <2>2. ASSUME NEW g \in Grant \ {Root} PROVE Child(g)
    <3>1. CASE g = Planner
      <4>1. Calls[Planner] = Calls[Planner] - 0 /\ 0 <= Calls[Planner] BY <1>9, SMT
      <4> QED BY <1>2, <1>7, <1>12, <3>1, <4>1 DEF Child
    <3>2. CASE g # Planner BY <1>8, <1>11, <3>2 DEF Child
    <3> QED BY <3>1, <3>2
  <2>3. ASSUME NEW r \in Role PROVE RoleHolds(r)
    <3>0. r \in Grant /\ r # Root BY <1>2
    <3>1. at[r] \in {"new", "ready"} /\ at[r] # "calling" BY <1>11, <3>0
    <3>2. Bit(at[r] = "calling") = 0 BY <3>1 DEF Bit
    <3>3. ran[r] + Bit(at[r] = "calling") <= attempts[r]
      <4>1. ran[r] = 0 /\ attempts[r] = 0 BY <1>12, <3>0
      <4> QED BY <3>2, <4>1, SMT
    <3>4. RolesOf(phase) = {Planner} BY <1>1 DEF RolesOf
    <3>5. CASE r = Planner BY <1>7, <1>11, <1>12, <3>0, <3>1, <3>3, <3>4, <3>5 DEF RoleHolds
    <3>6. CASE r # Planner
      <4>1. ~rec[r].issued /\ at[r] = "new" BY <1>8, <1>11, <3>0, <3>6
      <4> QED BY <1>12, <3>0, <3>1, <3>3, <3>4, <3>6, <4>1 DEF RoleHolds
    <3> QED BY <3>5, <3>6
  <2>4. ASSUME NEW t \in Task PROVE TaskHolds(t)
    <3>1. t \in Grant /\ t # Planner /\ t # Root BY <1>2
    <3>2. at[t] = "new" /\ ~rec[t].issued BY <1>8, <1>11, <3>1
    <3>3. ~Active(t) BY <3>2 DEF Active
    <3>4. Bit(Active(t)) = 0 /\ Bit(at[t] \in {"checked", "calling", "denied"}) = 0
      BY <3>2, <3>3 DEF Bit
    <3>5. spent[t] + 0 <= attempts[t] /\ ran[t] + 0 <= attempts[t]
      <4>1. spent[t] = 0 /\ attempts[t] = 0 /\ ran[t] = 0 BY <1>12, <3>1
      <4> QED BY <4>1, SMT
    <3> QED BY <3>2, <3>3, <3>4, <3>5 DEF TaskHolds
  <2>5. at[Root] = "new" BY <1>2, <1>11
  <2> QED BY <2>1, <2>2, <2>3, <2>4, <2>5 DEF AgentsHold
<1>18. Spawning
  <2>1. \A t \in Task : ~rec[t].issued BY <1>2, <1>8
  <2>2. \A r \in ControlRole : at[r] = "new" BY <1>2, <1>11
  <2> QED BY <1>1, <2>1, <2>2 DEF Spawning
<1>19. Charges
  <2>1. \A g \in Grant : at[g] # "calling" /\ at[g] # "checked" BY <1>11
  <2>2. \A g \in Grant : Held[g] = 0
    <3>1. ASSUME NEW g \in Grant PROVE Held[g] = 0
      <4>1. Held[g] = 0 + 0 BY <1>12, <2>1 DEF Held, Bit
      <4> QED BY <4>1, SMT
    <3> QED BY <3>1
  <2>3. \A g \in Grant : Entered[g] = 0
    <3>1. ASSUME NEW g \in Grant PROVE Entered[g] = 0
      <4>1. Entered[g] = 0 - 0 BY <1>12, <2>1 DEF Entered, Bit
      <4> QED BY <4>1, SMT
    <3> QED BY <3>1
  <2>4. SumOf(Held, Grant) = 0 BY <2>2, GrantFinite, SumZero
  <2>5. SumOf(Entered, Grant) = 0 BY <2>3, GrantFinite, SumZero
  <2>6. before + 0 <= used /\ used <= before + 0 BY <1>13, SMT
  <2> QED BY <1>1, <2>4, <2>5, <2>6 DEF Charges
<1>20. NeverRefusedLate BY <1>1 DEF NeverRefusedLate
<1> QED BY <1>14, <1>16, <1>17, <1>18, <1>19, <1>20 DEF RunInv

(* Every step of a run. *)
LEMMA RunSteps ==
  ASSUME RunInv, [RunNext]_runVars
  PROVE  RunInv'
<1>1. CASE Progress
  <2>0. before' = before BY <1>1 DEF Progress
  <2>1. ASSUME NEW r \in Role, ProviderCall(r) PROVE RunInv' BY <2>0, <2>1, ProviderCallCarries
  <2>2. ASSUME NEW r \in Role, NEW b \in BOOLEAN, ProviderReturn(r, b) PROVE RunInv'
    BY <2>0, <2>2, ProviderReturnCarries
  <2>3. ASSUME NEW p \in Plans, PlanReady(p) PROVE RunInv' BY <2>0, <2>3, PlanReadyCarries
  <2>4. CASE EndWave BY <2>0, <2>4, EndWaveCarries
  <2>5. CASE ValidationReady BY <2>0, <2>5, ValidationReadyCarries
  <2>6. CASE ReportReady \/ PhaseFails BY <2>0, <2>6, PhaseEndCarries
  <2>7. ASSUME NEW t \in Task, TaskStep(t) PROVE RunInv' BY <2>0, <2>7, TaskStepCarries
  <2> QED BY <1>1, <2>1, <2>2, <2>3, <2>4, <2>5, <2>6, <2>7 DEF Progress, PhaseStep
<1>2. CASE Kill \/ UNCHANGED runVars BY <1>2, KillCarries
<1> QED BY <1>1, <1>2 DEF RunNext

(* The invariant holds throughout. *)
LEMMA RunInvariant == RunSpec => []RunInv
<1>1. RunInit => RunInv BY RunInitially
<1>2. RunInv /\ [RunNext]_runVars => RunInv' BY RunSteps
<1> QED BY <1>1, <1>2, PTL DEF RunSpec

(* What the invariant says of executed calls. *)
LEMMA Payable == RunInv => ExecutedCallIsPayable
<1> SUFFICES ASSUME RunInv PROVE ExecutedCallIsPayable
  OBVIOUS
<1>1. ASSUME NEW t \in Task, at[t] = "returned" PROVE CanConsume(rec, t)
  <2>1. t \in Wave /\ at[t] \in Live BY <1>1 DEF RunInv, AgentsHold, TaskHolds, Active, Live
  <2> QED BY <2>1, LiveTask
<1>2. ASSUME NEW g \in Grant PROVE ran[g] <= rec[g].max
  <2>1. /\ ran[g] \in Nat /\ attempts[g] \in Nat /\ ran[g] <= attempts[g] /\ rec[g].max \in Nat
    <3>1. ran[g] \in Nat /\ attempts[g] \in Nat /\ ran[g] <= attempts[g] BY AgentNumbers DEF RunInv
    <3>2. rec[g].max \in Nat BY DEF RunInv, RunTypeOK, Record
    <3> QED BY <3>1, <3>2
  <2>2. CASE at[g] = "new"
    <3>1. ran[g] = 0 BY <2>2 DEF RunInv, AgentsHold, Unbegun
    <3> QED BY <2>1, <3>1, SMT
  <2>3. CASE at[g] # "new"
    <3>1. g # Root BY <2>3 DEF RunInv, AgentsHold
    <3>2. attempts[g] <= rec[g].max BY <2>3, <3>1 DEF RunInv, AgentsHold, Child
    <3> QED BY <2>1, <3>2, SMT
  <2> QED BY <2>2, <2>3
<1>3. SumOf(ran, Grant) <= used
  <2>1. ran \in [Grant -> Nat] /\ before \in Nat /\ used \in Int BY DEF RunInv, RunTypeOK
  <2>2. Weighed(Held, Grant) BY Weights DEF RunInv, Weighable
  <2>3. Weighed(ran, Grant) BY <2>1, GrantFinite DEF Weighed
  <2>4. ASSUME NEW g \in Grant PROVE ran[g] <= Held[g]
    <3>1. Held[g] = ran[g] + Bit(at[g] = "calling") BY DEF Held
    <3>2. Bit(at[g] = "calling") \in {0, 1} BY DEF Bit
    <3>3. ran[g] \in Nat BY <2>1
    <3> QED BY <3>1, <3>2, <3>3, SMT
  <2>5. SumOf(ran, Grant) <= SumOf(Held, Grant) BY <2>2, <2>3, <2>4, SumMonotone
  <2>6. SumOf(ran, Grant) \in Nat /\ SumOf(Held, Grant) \in Nat BY <2>2, <2>3, SumStep
  <2>7. before + SumOf(Held, Grant) <= used BY DEF RunInv, Charges
  <2> QED BY <2>1, <2>5, <2>6, <2>7, SMT
<1> QED BY <1>1, <1>2, <1>3 DEF ExecutedCallIsPayable

(* And of an ended run. *)
LEMMA EndedSilent == RunInv => (phase = "ended" => Silent)
<1> SUFFICES ASSUME RunInv, phase = "ended" PROVE Silent
  OBVIOUS
<1>1. Wave = {} /\ RolesOf(phase) = {} BY DEF Wave, RolesOf
<1>2. \A g \in Grant : at[g] \notin Live BY <1>1, Idle
<1>3. \A g \in Issued(rec) : rec[g].revoked BY DEF RunInv, Spawning
<1> QED BY <1>2, <1>3 DEF Silent, Active, Live

(* Every call that the Gateway executed can be paid for when its specialist     *)
(* resumes (_run_specialist_task consumes only after the await, while its       *)
(* siblings draw on the same root), no agent executes more calls than its grant *)
(* was given, and the run executes no more than the budget was charged, for any *)
(* plan, any degree of parallelism, any retries, failures and kill.             *)
THEOREM CallsArePayable == RunSpec => []ExecutedCallIsPayable
BY RunInvariant, Payable, PTL

(* What _allocate_execution_contract allots when the plan is accepted is enough *)
(* to the end: in a run with a budget of its own no later check_tool_call,      *)
(* reservation, can_consume or delegation of the run is refused.                *)
THEOREM AllottedUpFront == RunSpec => []NeverRefusedLate
<1>1. RunInv => NeverRefusedLate BY DEF RunInv
<1> QED BY <1>1, RunInvariant, PTL

(* When a run has ended nobody is in a call and no grant is live: the safety    *)
(* half of RunEnds (_terminalize_stopped_run revokes the tree only after the    *)
(* wave was gathered and the roles' calls were drained).                        *)
THEOREM EndedIsSilent == RunSpec => [](phase = "ended" => Silent)
BY RunInvariant, EndedSilent, PTL

=============================================================================
