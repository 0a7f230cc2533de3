-------------------------- MODULE CapabilityLedger --------------------------
(***************************************************************************)
(* The ledger of capability grants, src/pajin/policy/capability.py: a root *)
(* grant holds the Campaign's Tool calls, grants are delegated from it,    *)
(* and a call under a grant is paid by its whole lineage.  Every operation *)
(* holds the ledger's lock and is one step.                                *)
(*                                                                         *)
(* `scope' stands for the tools and the targets of a grant; its risk tier, *)
(* expiry, issue time and Campaign attenuate in the same way and are left  *)
(* out.  Operations that raise change nothing and have no step.            *)
(***************************************************************************)
EXTENDS Integers, FiniteSets, FiniteSetsExt

CONSTANTS
  Grant,        \* identities of grants
  Scope,        \* the tools and targets of the Campaign
  MaxToolCalls, \* campaign.spec.budgets.max_tool_calls
  MaxDepth,     \* the ledger's max_depth
  NoParent      \* the parent_grant_id of a root

ASSUME CapabilityAssumption ==
  MaxToolCalls \in Nat /\ MaxDepth \in Nat /\ NoParent \notin Grant

VARIABLES
  rec,   \* [Grant -> CapabilityRecord]
  spent  \* history variable: [Grant -> calls consumed under this very grant]

ledgerVars == <<rec, spent>>

Absent == [issued |-> FALSE, parent |-> NoParent, depth |-> 0, scope |-> {}, max |-> 0,
           delegable |-> FALSE, remaining |-> 0, revoked |-> FALSE]

Issued(records) == {g \in Grant : records[g].issued}

\* The sum of f over S.
SumOf(f, S) == MapThenSumSet(LAMBDA g : f[g], S)

-----------------------------------------------------------------------------
(* The operations, as functions of the records. *)

\* _lineage: the grant, its parent, and so on up to the root.
Lineage(records, g) ==
  LET up[n \in 0 .. MaxDepth] ==
        IF n = 0 THEN {g}
        ELSE up[n - 1] \cup ({records[h].parent : h \in up[n - 1]} \ {NoParent})
  IN  up[MaxDepth]

\* The grant itself and everything that descends from it.
Tree(records, g) == {h \in Issued(records) : g \in Lineage(records, h)}

\* The bug of looking only at the grant that is used.
CanConsumeAlone(records, g) == ~records[g].revoked /\ records[g].remaining > 0

CanConsume(records, g) ==
  \A h \in Lineage(records, g) : ~records[h].revoked /\ records[h].remaining > 0

\* The bug of charging only the grant that is used.
ConsumedAlone(records, g) == [records EXCEPT ![g].remaining = records[g].remaining - 1]

Consumed(records, g) ==
  [h \in Grant |-> IF h \in Lineage(records, g)
                   THEN [records[h] EXCEPT !.remaining = records[h].remaining - 1]
                   ELSE records[h]]

Revoked(records, G) ==
  [h \in Grant |-> IF h \in G THEN [records[h] EXCEPT !.revoked = TRUE] ELSE records[h]]

\* The guards of delegate, CapabilityGrant.attenuates included.
CanDelegate(records, p, scope, max) ==
  /\ p \in Issued(records) /\ ~records[p].revoked /\ records[p].delegable
  /\ records[p].depth + 1 <= MaxDepth
  /\ max <= records[p].remaining /\ max <= records[p].max
  /\ scope \subseteq records[p].scope

Delegated(records, p, g, scope, max, delegable) ==
  [records EXCEPT ![g] =
     [issued |-> TRUE, parent |-> p, depth |-> records[p].depth + 1, scope |-> scope,
      max |-> max, delegable |-> delegable, remaining |-> max, revoked |-> FALSE]]

RootIssued(records, g) ==
  [records EXCEPT ![g] =
     [issued |-> TRUE, parent |-> NoParent, depth |-> 0, scope |-> Scope,
      max |-> MaxToolCalls, delegable |-> TRUE, remaining |-> MaxToolCalls, revoked |-> FALSE]]

-----------------------------------------------------------------------------
(* The ledger on its own, under any use of its interface. *)

LedgerInit ==
  /\ rec = [g \in Grant |-> Absent]
  /\ spent = [g \in Grant |-> 0]

IssueRoot(g) ==
  /\ Issued(rec) = {}
  /\ rec' = RootIssued(rec, g)
  /\ UNCHANGED spent

Delegate(p, g, scope, max, delegable) ==
  /\ g \notin Issued(rec)
  /\ CanDelegate(rec, p, scope, max)
  /\ rec' = Delegated(rec, p, g, scope, max, delegable)
  /\ UNCHANGED spent

Consume(g) ==
  /\ g \in Issued(rec)
  /\ CanConsume(rec, g)
  /\ rec' = Consumed(rec, g)
  /\ spent' = [spent EXCEPT ![g] = spent[g] + 1]

Revoke(g, cascade) ==
  /\ g \in Issued(rec)
  /\ rec' = Revoked(rec, IF cascade THEN Tree(rec, g) ELSE {g})
  /\ UNCHANGED spent

LedgerNext ==
  \/ \E g \in Grant : IssueRoot(g) \/ Consume(g)
  \/ \E g \in Grant, cascade \in BOOLEAN : Revoke(g, cascade)
  \/ \E p, g \in Grant, scope \in SUBSET Scope, max \in 0 .. MaxToolCalls,
        delegable \in BOOLEAN : Delegate(p, g, scope, max, delegable)

LedgerSpec == LedgerInit /\ [][LedgerNext]_ledgerVars

-----------------------------------------------------------------------------
(* Properties. *)

\* What a grant has left is what it was given less every consumption in its
\* tree, whoever made it and in whatever order, and it is never overdrawn.
\* Several children may together be promised more than their parent has; they
\* can never spend it, because CapabilityLedger.consume charges the whole lineage.
LineageAccounting ==
  \A g \in Issued(rec) :
    /\ rec[g].remaining = rec[g].max - SumOf(spent, Tree(rec, g))
    /\ rec[g].remaining >= 0

\* From the revocation of a grant on, with or without cascade, what was paid
\* under it and under everything delegated from it is final, although grants in
\* between that are themselves not revoked may go on delegating and their new
\* children look usable (CapabilityLedger.revoke, delegate and consume).
RevokedTreeIsFinal ==
  [][\A g \in Issued(rec) : rec[g].revoked =>
       /\ rec'[g].revoked
       /\ SumOf(spent', Tree(rec', g)) = SumOf(spent, Tree(rec, g))]_ledgerVars

=============================================================================
