--------------------------- MODULE AgentLedgerProofs ---------------------------
(***************************************************************************)
(* The capability ledger, and the agents of a run that draw on it.         *)
(*                                                                         *)
(* First the theorems about CapabilityLedger, for any number of grants and *)
(* any depth of delegation: a grant pays for its whole tree, and a         *)
(* revocation silences it.  They rest on induction over the lineage of a   *)
(* grant and on the rules for sums over finite sets.                       *)
(*                                                                         *)
(* Then RunInv, the inductive invariant of MultiAgentRun, and that the     *)
(* steps of the specialists and the end of a run keep it.  Every grant but *)
(* the Supervisor's hangs directly under it (so a lineage has two          *)
(* members); an attempt under way is counted where it is, begun but not    *)
(* consumed; and the allotments of all agents add up to no more than the   *)
(* budget.  MultiAgentRunProofs has the other steps and the theorems.      *)
(***************************************************************************)
EXTENDS MultiAgentRun, WellFoundedInduction, TLAPS

\* The prover of a step that names no other.
USE ZenonT(40)

-----------------------------------------------------------------------------
(* Induction, with the induction hypothesis as a set. *)

(* A non-empty set of naturals has a least member. *)
LEMMA LeastElement ==
  ASSUME NEW T, T \subseteq Nat, T # {}
  PROVE  \E m \in T : \A k \in T : m <= k
<1>1. PICK x \in T : \A y \in T : ~(<<y, x>> \in OpToRel(<, Nat))
  BY WFMin, NatLessThanWellFounded
<1>2. \A i, j \in Nat : <<i, j>> \in OpToRel(<, Nat) <=> i < j BY DEF OpToRel
<1>3. x \in Nat /\ \A y \in T : y \in Nat /\ ~(y < x) BY <1>1, <1>2
<1>4. \A y \in T : x <= y BY <1>3, SMT
<1> QED BY <1>4

(* A set that holds 0 and the successor of its members holds every number. *)
LEMMA SetInduction ==
  ASSUME NEW T, 0 \in T, \A n \in Nat : n \in T => n + 1 \in T
  PROVE  Nat \subseteq T
<1> SUFFICES ASSUME ~(Nat \subseteq T) PROVE FALSE
  OBVIOUS
<1>1. PICK m \in Nat \ T : \A k \in Nat \ T : m <= k BY LeastElement
<1>2. m # 0 /\ m - 1 \in Nat /\ ~(m <= m - 1) BY <1>1, SMT
<1>3. m - 1 \in T BY <1>1, <1>2
<1> QED BY <1>1, <1>2, <1>3, SMT

-----------------------------------------------------------------------------
(* Lineages. *)

\* One generation up.
Parents(records, H) == {records[h].parent : h \in H} \ {NoParent}

\* The recursion of Lineage, to n generations.
IsAncestry(up, records, g, n) ==
  up = [i \in 0 .. n |-> IF i = 0 THEN {g} ELSE up[i - 1] \cup Parents(records, up[i - 1])]
Ancestry(records, g) == CHOOSE up : IsAncestry(up, records, g, MaxDepth)

(* The recursion of Lineage has a solution, which begins with the grant and   *)
(* adds the parents of what it has (CapabilityLedger._lineage).                *)
LEMMA AncestrySteps ==
  ASSUME NEW records, NEW g
  PROVE  /\ Lineage(records, g) = Ancestry(records, g)[MaxDepth]
         /\ Ancestry(records, g)[0] = {g}
         /\ \A n \in Nat : n < MaxDepth =>
              Ancestry(records, g)[n + 1] =
                Ancestry(records, g)[n] \cup Parents(records, Ancestry(records, g)[n])
<1> DEFINE T == {m \in Nat : \E up : IsAncestry(up, records, g, m)}
<1>1. 0 \in T
  <2> DEFINE f == [i \in 0 .. 0 |-> {g}]
             k == [i \in 0 .. 0 |-> IF i = 0 THEN {g} ELSE f[i - 1] \cup Parents(records, f[i - 1])]
  <2>1. \A i \in 0 .. 0 : f[i] = k[i] BY SMT
  <2>2. IsAncestry(f, records, g, 0) BY <2>1 DEF IsAncestry
  <2> QED BY <2>2
<1>2. ASSUME NEW m \in Nat, m \in T PROVE m + 1 \in T
  <2>1. PICK f : IsAncestry(f, records, g, m) BY <1>2
  <2> DEFINE top == f[m] \cup Parents(records, f[m])
             h == [i \in 0 .. m + 1 |-> IF i = m + 1 THEN top ELSE f[i]]
             k == [i \in 0 .. m + 1 |-> IF i = 0 THEN {g} ELSE h[i - 1] \cup Parents(records, h[i - 1])]
  <2>2. ASSUME NEW i \in 0 .. m + 1
        PROVE  h[i] = IF i = 0 THEN {g} ELSE h[i - 1] \cup Parents(records, h[i - 1])
    <3>1. CASE i = m + 1
      <4>1. i - 1 = m /\ m \in 0 .. m + 1 /\ i # 0 /\ m # m + 1 BY <3>1, SMT
      <4>2. h[m] = f[m] /\ h[i] = top BY <3>1, <4>1
      <4> QED BY <4>1, <4>2
    <3>2. CASE i # m + 1 /\ i # 0
      <4>1. i \in 0 .. m /\ i - 1 \in 0 .. m + 1 /\ i - 1 # m + 1 BY <3>2, SMT
      <4>2. h[i] = f[i] /\ h[i - 1] = f[i - 1] BY <3>2, <4>1
      <4>3. f[i] = f[i - 1] \cup Parents(records, f[i - 1]) BY <2>1, <3>2, <4>1 DEF IsAncestry
      <4> QED BY <3>2, <4>2, <4>3
    <3>3. CASE i = 0
      <4>1. 0 \in 0 .. m /\ 0 # m + 1 BY SMT
      <4>2. f[0] = {g} BY <2>1, <4>1 DEF IsAncestry
      <4> QED BY <3>3, <4>1, <4>2
    <3> QED BY <3>1, <3>2, <3>3
  <2>3. \A i \in 0 .. m + 1 : h[i] = k[i] BY <2>2
  <2>4. IsAncestry(h, records, g, m + 1) BY <2>3 DEF IsAncestry
  <2> QED BY <2>4, SMT
<1>3. Nat \subseteq T BY <1>1, <1>2, SetInduction
<1>4. IsAncestry(Ancestry(records, g), records, g, MaxDepth)
  BY <1>3, CapabilityAssumption DEF Ancestry
<1> DEFINE up == Ancestry(records, g)
<1>5. \A i \in 0 .. MaxDepth :
        up[i] = IF i = 0 THEN {g} ELSE up[i - 1] \cup Parents(records, up[i - 1])
  BY <1>4 DEF IsAncestry
<1> HIDE DEF up
<1>6. up[0] = {g}
  <2>1. 0 \in 0 .. MaxDepth BY CapabilityAssumption, SMT
  <2> QED BY <1>5, <2>1
<1>7. ASSUME NEW n \in Nat, n < MaxDepth PROVE up[n + 1] = up[n] \cup Parents(records, up[n])
  <2>1. n + 1 \in 0 .. MaxDepth /\ n + 1 # 0 /\ (n + 1) - 1 = n BY <1>7, CapabilityAssumption, SMT
  <2> QED BY <1>5, <2>1
<1>8. Lineage(records, g) = up[MaxDepth] BY DEF Lineage, up, Ancestry, IsAncestry, Parents
<1> QED BY <1>6, <1>7, <1>8 DEF up

\* Every grant but a root has an issued parent one level up.
Forest(records) ==
  \A g \in Issued(records) :
    /\ records[g].depth \in 0 .. MaxDepth
    /\ records[g].parent = NoParent => records[g].depth = 0
    /\ records[g].parent # NoParent =>
         /\ records[g].parent \in Issued(records)
         /\ records[records[g].parent].depth + 1 = records[g].depth

(* What is in a lineage is issued, and the grant is in its own.               *)
LEMMA AncestryIssued ==
  ASSUME NEW records, Forest(records), NEW g \in Issued(records), NEW n \in Nat, n <= MaxDepth
  PROVE  g \in Ancestry(records, g)[n] /\ Ancestry(records, g)[n] \subseteq Issued(records)
<1> DEFINE up == Ancestry(records, g)
           T == {i \in Nat : i <= MaxDepth => g \in up[i] /\ up[i] \subseteq Issued(records)}
<1>1. up[0] = {g} /\ \A i \in Nat : i < MaxDepth => up[i + 1] = up[i] \cup Parents(records, up[i])
  BY AncestrySteps, SMT
<1> HIDE DEF up
<1>2. 0 \in T BY <1>1
<1>3. ASSUME NEW i \in Nat, i \in T PROVE i + 1 \in T
  <2> SUFFICES ASSUME i + 1 <= MaxDepth PROVE g \in up[i + 1] /\ up[i + 1] \subseteq Issued(records)
    BY SMT
  <2>1. i < MaxDepth /\ i <= MaxDepth BY CapabilityAssumption, SMT
  <2>2. up[i] \subseteq Issued(records) /\ g \in up[i] BY <1>3, <2>1
  <2>3. Parents(records, up[i]) \subseteq Issued(records) BY <2>2 DEF Parents, Forest
  <2> QED BY <1>1, <2>1, <2>2, <2>3
<1>4. n \in T BY <1>2, <1>3, SetInduction
<1> QED BY <1>4 DEF up

(* As many generations as the grant is deep reach the root.                   *)
LEMMA AncestryClosed ==
  ASSUME NEW records, Forest(records), NEW g \in Issued(records),
         NEW n \in Nat, records[g].depth <= n, n <= MaxDepth
  PROVE  Parents(records, Ancestry(records, g)[n]) \subseteq Ancestry(records, g)[n]
<1> DEFINE up == Ancestry(records, g)
           d == records[g].depth
           Top(i, h) == records[h].parent \in up[i] \cup {NoParent} \/ records[h].depth + i = d
           T == {i \in Nat : i <= MaxDepth => \A h \in up[i] : Top(i, h)}
<1>0. up[0] = {g} /\ \A i \in Nat : i < MaxDepth => up[i + 1] = up[i] \cup Parents(records, up[i])
  BY AncestrySteps, SMT
<1>1. ASSUME NEW i \in Nat, i <= MaxDepth PROVE up[i] \subseteq Issued(records)
  BY <1>1, AncestryIssued
<1>d. \A h \in Issued(records) : records[h].depth \in Nat BY CapabilityAssumption, SMT DEF Forest
<1> HIDE DEF up
<1>2. 0 \in T
  <2>1. records[g].depth + 0 = d BY <1>d, SMT
  <2> QED BY <1>0, <2>1
<1>3. ASSUME NEW i \in Nat, i \in T PROVE i + 1 \in T
  <2> SUFFICES ASSUME i + 1 <= MaxDepth, NEW h \in up[i + 1] PROVE Top(i + 1, h)
    BY SMT
  <2>1. i < MaxDepth /\ i <= MaxDepth BY CapabilityAssumption, SMT
  <2>2. up[i + 1] = up[i] \cup Parents(records, up[i]) BY <1>0, <2>1
  <2>3. \A k \in up[i] : Top(i, k) BY <1>3, <2>1
  <2>4. CASE h \in up[i] BY <2>2, <2>4 DEF Parents
  <2>5. CASE h \notin up[i]
    <3>1. PICK k \in up[i] : h = records[k].parent /\ h # NoParent BY <2>2, <2>5 DEF Parents
    <3>2. records[k].depth + i = d BY <2>3, <2>5, <3>1
    <3>3. k \in Issued(records) BY <1>1, <2>1
    <3>4. h \in Issued(records) /\ records[h].depth + 1 = records[k].depth BY <3>1, <3>3 DEF Forest
    <3>5. records[h].depth + (i + 1) = d BY <1>d, <3>2, <3>3, <3>4, SMT
    <3> QED BY <3>5
  <2> QED BY <2>4, <2>5
<1>4. n \in T BY <1>2, <1>3, SetInduction
<1>5. ASSUME NEW h \in up[n] PROVE records[h].parent \in up[n] \cup {NoParent}
  <2>1. h \in Issued(records) BY <1>1
  <2>2. CASE records[h].depth + n = d
    <3>1. records[h].depth = 0 BY <1>d, <2>1, <2>2, SMT
    <3>2. ASSUME records[h].parent # NoParent PROVE FALSE
      <4>1. records[h].parent \in Issued(records) /\ records[records[h].parent].depth + 1 = 0
        BY <2>1, <3>1, <3>2 DEF Forest
      <4> QED BY <1>d, <4>1, SMT
    <3> QED BY <3>2
  <2> QED BY <1>4, <2>2
<1> QED BY <1>5 DEF Parents, up

(* A lineage is the grant with the lineage of its parent.                     *)
LEMMA LineageStep ==
  ASSUME NEW records, Forest(records), NEW g \in Issued(records)
  PROVE  /\ Lineage(records, g) \subseteq Issued(records)
         /\ records[g].parent = NoParent => Lineage(records, g) = {g}
         /\ records[g].parent # NoParent =>
              Lineage(records, g) = {g} \cup Lineage(records, records[g].parent)
<1> DEFINE up == Ancestry(records, g)
<1>0. MaxDepth \in Nat /\ MaxDepth <= MaxDepth BY CapabilityAssumption, SMT
<1>1. Lineage(records, g) = up[MaxDepth] BY AncestrySteps, SMT
<1>2. up[0] = {g} /\ \A i \in Nat : i < MaxDepth => up[i + 1] = up[i] \cup Parents(records, up[i])
  BY AncestrySteps, SMT
<1>3. Lineage(records, g) \subseteq Issued(records) BY <1>0, <1>1, AncestryIssued
<1>d. \A h \in Issued(records) : records[h].depth \in Nat /\ records[h].depth <= MaxDepth
  BY CapabilityAssumption, SMT DEF Forest
<1> HIDE DEF up
<1>4. ASSUME records[g].parent = NoParent PROVE Lineage(records, g) = {g}
  <2> DEFINE T == {i \in Nat : i <= MaxDepth => up[i] = {g}}
  <2>1. 0 \in T BY <1>2
  <2>2. ASSUME NEW i \in Nat, i \in T PROVE i + 1 \in T
    <3> SUFFICES ASSUME i + 1 <= MaxDepth PROVE up[i + 1] = {g}
      BY SMT
    <3>1. i < MaxDepth /\ i <= MaxDepth BY CapabilityAssumption, SMT
    <3>2. up[i] = {g} BY <2>2, <3>1
    <3>3. Parents(records, {g}) = {} BY <1>4 DEF Parents
    <3> QED BY <1>2, <3>1, <3>2, <3>3
  <2>3. MaxDepth \in T BY <1>0, <2>1, <2>2, SetInduction
  <2> QED BY <1>0, <1>1, <2>3
<1>5. ASSUME records[g].parent # NoParent
      PROVE  Lineage(records, g) = {g} \cup Lineage(records, records[g].parent)
  <2> DEFINE p == records[g].parent
             above == Ancestry(records, p)
             T == {i \in Nat : i < MaxDepth => up[i + 1] = {g} \cup above[i]}
  <2>1. p \in Issued(records) /\ records[p].depth + 1 = records[g].depth BY <1>5 DEF Forest
  <2>2. Lineage(records, p) = above[MaxDepth] BY AncestrySteps, SMT
  <2>3. /\ above[0] = {p}
        /\ \A i \in Nat : i < MaxDepth => above[i + 1] = above[i] \cup Parents(records, above[i])
    BY AncestrySteps, SMT
  <2>4. \A i \in Nat : i <= MaxDepth => p \in above[i] BY <2>1, AncestryIssued
  <2>5. \A i \in Nat : records[p].depth <= i /\ i <= MaxDepth => Parents(records, above[i]) \subseteq above[i]
    BY <2>1, AncestryClosed
  <2>6. Parents(records, {g}) = {p} BY <1>5 DEF Parents
  <2> HIDE DEF above, p
  <2>7. 0 \in T
    <3> SUFFICES ASSUME 0 < MaxDepth PROVE up[0 + 1] = {g} \cup above[0]
      OBVIOUS
    <3>1. up[0 + 1] = up[0] \cup Parents(records, up[0]) BY <1>2
    <3> QED BY <1>2, <2>3, <2>6, <3>1
  <2>8. ASSUME NEW i \in Nat, i \in T PROVE i + 1 \in T
    <3> SUFFICES ASSUME i + 1 < MaxDepth PROVE up[(i + 1) + 1] = {g} \cup above[i + 1]
      BY SMT
    <3>1. i < MaxDepth /\ i + 1 <= MaxDepth /\ i + 1 \in Nat BY CapabilityAssumption, SMT
    <3>2. up[i + 1] = {g} \cup above[i] BY <2>8, <3>1
    <3>3. up[(i + 1) + 1] = up[i + 1] \cup Parents(records, up[i + 1]) BY <1>2, <3>1
    <3>4. above[i + 1] = above[i] \cup Parents(records, above[i]) BY <2>3, <3>1
    <3>5. Parents(records, {g} \cup above[i]) = Parents(records, {g}) \cup Parents(records, above[i])
      BY DEF Parents
    <3>6. p \in above[i + 1] BY <2>4, <3>1
    <3> QED BY <2>6, <3>2, <3>3, <3>4, <3>5, <3>6
  <2>9. MaxDepth - 1 \in Nat /\ MaxDepth - 1 < MaxDepth /\ (MaxDepth - 1) + 1 = MaxDepth
        /\ records[p].depth <= MaxDepth - 1 /\ MaxDepth - 1 <= MaxDepth
    BY <1>0, <1>d, <2>1, SMT
  <2>10. MaxDepth - 1 \in T BY <2>7, <2>8, <2>9, SetInduction
  <2>11. up[MaxDepth] = {g} \cup above[MaxDepth - 1] BY <2>9, <2>10
  <2>12. above[MaxDepth] = above[MaxDepth - 1] \cup Parents(records, above[MaxDepth - 1])
    BY <2>3, <2>9
  <2>13. above[MaxDepth] = above[MaxDepth - 1] BY <2>5, <2>9, <2>12
  <2> QED BY <1>1, <2>2, <2>11, <2>13 DEF p
<1> QED BY <1>3, <1>4, <1>5

(* A lineage depends on the parents of issued grants only.                    *)
LEMMA LineageSame ==
  ASSUME NEW records, Forest(records), NEW changed,
         \A h \in Issued(records) : changed[h].parent = records[h].parent,
         NEW g \in Issued(records)
  PROVE  Lineage(changed, g) = Lineage(records, g)
<1> DEFINE up == Ancestry(records, g)
           new == Ancestry(changed, g)
           T == {i \in Nat : i <= MaxDepth => new[i] = up[i]}
<1>0. MaxDepth \in Nat /\ MaxDepth <= MaxDepth BY CapabilityAssumption, SMT
<1>1. Lineage(records, g) = up[MaxDepth] /\ Lineage(changed, g) = new[MaxDepth]
  BY AncestrySteps, SMT
<1>2. up[0] = {g} /\ \A i \in Nat : i < MaxDepth => up[i + 1] = up[i] \cup Parents(records, up[i])
  BY AncestrySteps, SMT
<1>3. new[0] = {g} /\ \A i \in Nat : i < MaxDepth => new[i + 1] = new[i] \cup Parents(changed, new[i])
  BY AncestrySteps, SMT
<1>4. \A i \in Nat : i <= MaxDepth => up[i] \subseteq Issued(records) BY AncestryIssued
<1> HIDE DEF up, new
<1>5. 0 \in T BY <1>2, <1>3
<1>6. ASSUME NEW i \in Nat, i \in T PROVE i + 1 \in T
  <2> SUFFICES ASSUME i + 1 <= MaxDepth PROVE new[i + 1] = up[i + 1]
    BY SMT
  <2>1. i < MaxDepth /\ i <= MaxDepth BY CapabilityAssumption, SMT
  <2>2. new[i] = up[i] /\ up[i] \subseteq Issued(records) BY <1>4, <1>6, <2>1
  <2>3. Parents(changed, up[i]) = Parents(records, up[i]) BY <2>2 DEF Parents
  <2> QED BY <1>2, <1>3, <2>1, <2>2, <2>3
<1>7. MaxDepth \in T BY <1>0, <1>5, <1>6, SetInduction
<1> QED BY <1>0, <1>1, <1>7

(* Nor does a tree, when none is issued.                                      *)
LEMMA TreeSame ==
  ASSUME NEW records, Forest(records), NEW changed, Issued(changed) = Issued(records),
         \A h \in Issued(records) : /\ changed[h].parent = records[h].parent
                                    /\ changed[h].depth = records[h].depth
  PROVE  /\ Forest(changed)
         /\ \A g \in Issued(records) : Lineage(changed, g) = Lineage(records, g)
         /\ \A g : Tree(changed, g) = Tree(records, g)
<1>1. \A g \in Issued(records) : Lineage(changed, g) = Lineage(records, g) BY LineageSame
<1>2. Forest(changed) BY SMT DEF Forest
<1>3. \A g : Tree(changed, g) = Tree(records, g) BY <1>1 DEF Tree
<1> QED BY <1>1, <1>2, <1>3

-----------------------------------------------------------------------------
(* Finite sets. *)

\* Every member of s is among n that f lists.
Listed(s, n) == \E f : \A x \in s : \E i \in 1 .. n : f[i] = x
Finite(S) == \E n \in Nat : Listed(S, n)

(* A list of nothing. *)
LEMMA ListedNone ==
  ASSUME NEW s, Listed(s, 0)
  PROVE  s = {}
<1>1. 1 .. 0 = {} BY SMT
<1> QED BY <1>1 DEF Listed

(* A member can be taken off the list. *)
LEMMA ListedLess ==
  ASSUME NEW s, NEW x \in s, NEW n \in Nat, Listed(s, n + 1)
  PROVE  Listed(s \ {x}, n)
<1>1. PICK f : \A y \in s : \E i \in 1 .. n + 1 : f[i] = y BY DEF Listed
<1>2. PICK k \in 1 .. n + 1 : f[k] = x BY <1>1
<1> DEFINE h == [i \in 1 .. n |-> IF i < k THEN f[i] ELSE f[i + 1]]
<1>3. ASSUME NEW y \in s \ {x} PROVE \E i \in 1 .. n : h[i] = y
  <2>1. PICK i \in 1 .. n + 1 : f[i] = y BY <1>1
  <2>2. i # k BY <1>2, <1>3, <2>1
  <2>3. CASE i < k
    <3>1. i \in 1 .. n BY <2>3, SMT
    <3> QED BY <2>1, <2>3, <3>1
  <2>4. CASE ~(i < k)
    <3>1. i - 1 \in 1 .. n /\ ~(i - 1 < k) /\ (i - 1) + 1 = i BY <2>2, <2>4, SMT
    <3>2. h[i - 1] = f[(i - 1) + 1] BY <3>1
    <3> QED BY <2>1, <3>1, <3>2
  <2> QED BY <2>3, <2>4
<1> HIDE DEF h
<1> QED BY <1>3 DEF Listed

(* What the standard module calls finite is. *)
LEMMA FiniteSet ==
  ASSUME NEW S, IsFiniteSet(S)
  PROVE  Finite(S)
<1>1. PICK f \in Seq(S) : \A x \in S : \E i \in 1 .. Len(f) : f[i] = x BY DEF IsFiniteSet
<1>2. Len(f) \in Nat BY SMT
<1> QED BY <1>1, <1>2 DEF Finite, Listed

(* Every part of a finite set is finite. *)
LEMMA FiniteSubset ==
  ASSUME NEW S, Finite(S), NEW T, T \subseteq S
  PROVE  Finite(T)
BY DEF Finite, Listed

(* One member more. *)
LEMMA FiniteAdd ==
  ASSUME NEW S, Finite(S), NEW x
  PROVE  Finite(S \cup {x})
<1>0. PICK n \in Nat : Listed(S, n) BY DEF Finite
<1>1. PICK f : \A y \in S : \E i \in 1 .. n : f[i] = y BY <1>0 DEF Listed
<1> DEFINE h == [i \in 1 .. n + 1 |-> IF i = n + 1 THEN x ELSE f[i]]
<1>2. n + 1 \in Nat /\ n + 1 \in 1 .. n + 1 /\ \A i \in 1 .. n : i \in 1 .. n + 1 /\ i # n + 1
  BY SMT
<1>3. ASSUME NEW y \in S \cup {x} PROVE \E i \in 1 .. n + 1 : h[i] = y
  <2>1. CASE y = x BY <1>2, <2>1
  <2>2. CASE y \in S BY <1>1, <1>2, <2>2
  <2> QED BY <2>1, <2>2
<1> HIDE DEF h
<1>4. Listed(S \cup {x}, n + 1) BY <1>3 DEF Listed
<1> QED BY <1>2, <1>4 DEF Finite

(* The smallest sets. *)
LEMMA FiniteSmall ==
  Finite({}) /\ \A x : Finite({x})
<1>1. 0 \in Nat BY SMT
<1>2. Finite({}) BY <1>1 DEF Finite, Listed
<1>3. ASSUME NEW x PROVE Finite({x})
  <2>1. {} \cup {x} = {x} OBVIOUS
  <2> QED BY <1>2, <2>1, FiniteAdd
<1> QED BY <1>2, <1>3

(* What holds of a set when it holds of the set without any one member holds   *)
(* of every subset of a finite set.                                            *)
LEMMA SubsetInduction ==
  ASSUME NEW S, Finite(S), NEW F,
         \A s \in SUBSET S : (\A x \in s : s \ {x} \in F) => s \in F
  PROVE  SUBSET S \subseteq F
<1> DEFINE T == {n \in Nat : \A s \in SUBSET S : Listed(s, n) => s \in F}
<1>1. 0 \in T
  <2>1. ASSUME NEW s \in SUBSET S, Listed(s, 0) PROVE s \in F
    <3>1. s = {} BY <2>1, ListedNone
    <3> QED BY <3>1
  <2>2. 0 \in Nat OBVIOUS
  <2> QED BY <2>1, <2>2
<1>2. ASSUME NEW n \in Nat, n \in T PROVE n + 1 \in T
  <2>1. ASSUME NEW s \in SUBSET S, Listed(s, n + 1) PROVE s \in F
    <3>1. ASSUME NEW x \in s PROVE s \ {x} \in F
      <4>1. s \ {x} \in SUBSET S /\ Listed(s \ {x}, n) BY <2>1, ListedLess
      <4> QED BY <1>2, <4>1
    <3> QED BY <3>1
  <2>2. n + 1 \in Nat BY SMT
  <2> QED BY <2>1, <2>2
<1> HIDE DEF T
<1>3. Nat \subseteq T BY <1>1, <1>2, SetInduction
<1>4. ASSUME NEW s \in SUBSET S PROVE s \in F
  <2>1. PICK n \in Nat : Listed(s, n) BY FiniteSubset DEF Finite
  <2>2. n \in T BY <1>3
  <2> QED BY <2>1, <2>2 DEF T
<1> QED BY <1>4

-----------------------------------------------------------------------------
(* Adding up. *)

Pick(s) == CHOOSE x \in s : TRUE

\* The step of the recursion that adds a set up.
Adds(w, g, s) == IF s = {} THEN 0 ELSE w[Pick(s)] + g[s \ {Pick(s)}]
Adder(w, S) == CHOOSE g : g = [s \in SUBSET S |-> Adds(w, g, s)]

(* SumOf is the recursive adder of its set. *)
LEMMA SumIsAdder ==
  ASSUME NEW w, NEW S
  PROVE  SumOf(w, S) = Adder(w, S)[S]
BY SMT DEF SumOf, MapThenSumSet, MapThenFoldSet, Adder, Adds, Pick

(* What Pick chooses is a member. *)
LEMMA Picked ==
  ASSUME NEW s, s # {}
  PROVE  Pick(s) \in s
BY DEF Pick

(* The recursion that adds up a finite set has a solution. *)
LEMMA AdderExists ==
  ASSUME NEW w, NEW S, Finite(S), \A x \in S : w[x] \in Nat
  PROVE  \E g : g = [s \in SUBSET S |-> Adds(w, g, s)]
<1> DEFINE Right(g, n) == \A s \in SUBSET S : Listed(s, n) => g[s] = Adds(w, g, s)
           T == {n \in Nat : \E g : g = [s \in SUBSET S |-> g[s]] /\ Right(g, n)}
<1>1. 0 \in T
  <2> DEFINE g == [s \in SUBSET S |-> 0]
  <2>1. ASSUME NEW s \in SUBSET S, Listed(s, 0) PROVE s = {}
    BY <2>1, ListedNone
  <2>2. \A s \in SUBSET S : g[s] = 0 OBVIOUS
  <2>3. g = [s \in SUBSET S |-> g[s]] OBVIOUS
  <2> HIDE DEF g
  <2>4. Right(g, 0) BY <2>1, <2>2 DEF Adds
  <2>5. 0 \in Nat OBVIOUS
  <2> QED BY <2>3, <2>4, <2>5
<1>2. ASSUME NEW n \in Nat, n \in T PROVE n + 1 \in T
  <2>1. PICK g : g = [s \in SUBSET S |-> g[s]] /\ Right(g, n) BY <1>2
  <2> DEFINE h == [s \in SUBSET S |-> Adds(w, g, s)]
  <2>2. \A s \in SUBSET S : h[s] = Adds(w, g, s) OBVIOUS
  <2>3. h = [s \in SUBSET S |-> h[s]] OBVIOUS
  <2> HIDE DEF h
  <2>4. ASSUME NEW s \in SUBSET S, Listed(s, n) PROVE h[s] = g[s]
    BY <2>1, <2>2, <2>4
  <2>5. ASSUME NEW s \in SUBSET S, Listed(s, n + 1) PROVE h[s] = Adds(w, h, s)
    <3>1. CASE s = {} BY <2>2, <3>1 DEF Adds
    <3>2. CASE s # {}
      <4>1. Pick(s) \in s BY <3>2, Picked
      <4>2. s \ {Pick(s)} \in SUBSET S /\ Listed(s \ {Pick(s)}, n)
        BY <2>5, <4>1, ListedLess
      <4>3. h[s \ {Pick(s)}] = g[s \ {Pick(s)}] BY <2>4, <4>2
      <4> QED BY <2>2, <3>2, <4>3 DEF Adds
    <3> QED BY <3>1, <3>2
  <2>6. n + 1 \in Nat BY SMT
  <2> QED BY <2>3, <2>5, <2>6
<1> HIDE DEF T
<1>3. Nat \subseteq T BY <1>1, <1>2, SetInduction
<1>4. PICK n \in Nat : Listed(S, n) BY DEF Finite
<1>5. n \in T BY <1>3
<1>6. PICK g : g = [s \in SUBSET S |-> g[s]] /\ Right(g, n) BY <1>5 DEF T
<1>7. \A s \in SUBSET S : Listed(s, n) BY <1>4 DEF Listed
<1>8. g = [s \in SUBSET S |-> Adds(w, g, s)] BY <1>6, <1>7
<1> QED BY <1>8

(* The function that adds up the subsets of S satisfies its equation. *)
LEMMA AdderEquation ==
  ASSUME NEW w, NEW S, Finite(S), \A x \in S : w[x] \in Nat, NEW s \in SUBSET S
  PROVE  Adder(w, S)[s] = Adds(w, Adder(w, S), s)
<1> DEFINE g == Adder(w, S)
<1>1. g = [t \in SUBSET S |-> Adds(w, g, t)] BY AdderExists DEF Adder
<1> HIDE DEF g
<1> QED BY <1>1 DEF g

\* On the subsets of B, being started on B or on S makes no difference.
Agrees(w, S, B) ==
  \A s \in SUBSET B : Adder(w, B)[s] = Adder(w, S)[s] /\ Adder(w, S)[s] \in Nat

(* What it says of a set does not depend on the set it was started on. *)
LEMMA AdderLocal ==
  ASSUME NEW w, NEW S, Finite(S), \A x \in S : w[x] \in Nat, NEW B \in SUBSET S
  PROVE  Agrees(w, S, B)
<1> DEFINE Same(s) == Adder(w, B)[s] = Adder(w, S)[s] /\ Adder(w, S)[s] \in Nat
           F == {s \in SUBSET B : Same(s)}
<1>0. Finite(B) BY FiniteSubset
<1>a. \A s \in SUBSET B : /\ Adder(w, B)[s] = Adds(w, Adder(w, B), s)
                          /\ Adder(w, S)[s] = Adds(w, Adder(w, S), s)
  BY <1>0, AdderEquation
<1>1. ASSUME NEW s \in SUBSET B, \A x \in s : s \ {x} \in F PROVE s \in F
  <2>1. CASE s = {}
    <3>1. Adder(w, B)[s] = 0 /\ Adder(w, S)[s] = 0 BY <1>a, <2>1 DEF Adds
    <3>2. Same(s) BY <3>1, SMT
    <3> QED BY <3>2
  <2>2. CASE s # {}
    <3>1. Pick(s) \in s BY <2>2, Picked
    <3>2. Same(s \ {Pick(s)}) BY <1>1, <3>1
    <3>3. w[Pick(s)] \in Nat BY <3>1
    <3>4. /\ Adder(w, B)[s] = w[Pick(s)] + Adder(w, B)[s \ {Pick(s)}]
          /\ Adder(w, S)[s] = w[Pick(s)] + Adder(w, S)[s \ {Pick(s)}]
      BY <1>a, <2>2 DEF Adds
    <3>5. Same(s) BY <3>2, <3>3, <3>4, SMT
    <3> QED BY <3>5
  <2> QED BY <2>1, <2>2
<1> HIDE DEF F
<1>2. SUBSET B \subseteq F BY <1>0, <1>1, SubsetInduction
<1> QED BY <1>2 DEF F, Agrees

\* The finite sets of members with a weight.
Weighed(w, S) == Finite(S) /\ \A x \in S : w[x] \in Nat

(* A sum is 0 of no members, and of others what one of them and the rest add up to. *)
LEMMA SumStep ==
  ASSUME NEW w, NEW S, Weighed(w, S)
  PROVE  /\ SumOf(w, S) \in Nat
         /\ S = {} => SumOf(w, S) = 0
         /\ S # {} => SumOf(w, S) = w[Pick(S)] + SumOf(w, S \ {Pick(S)})
<1>0. Finite(S) /\ \A x \in S : w[x] \in Nat BY DEF Weighed
<1>1. SumOf(w, S) = Adder(w, S)[S] BY SumIsAdder
<1>2. Adder(w, S)[S] \in Nat
  <2>1. Agrees(w, S, S) BY <1>0, AdderLocal
  <2> QED BY <2>1 DEF Agrees
<1>3. Adder(w, S)[S] = Adds(w, Adder(w, S), S) BY AdderEquation DEF Weighed
<1>5. ASSUME NEW Q \in SUBSET S PROVE Adder(w, Q)[Q] = Adder(w, S)[Q]
  <2>1. Agrees(w, S, Q) BY <1>0, AdderLocal
  <2> QED BY <2>1 DEF Agrees
<1>4. ASSUME S # {} PROVE SumOf(w, S) = w[Pick(S)] + SumOf(w, S \ {Pick(S)})
  <2> DEFINE R == S \ {Pick(S)}
  <2>1. R \in SUBSET S OBVIOUS
  <2>2. Adder(w, R)[R] = Adder(w, S)[R] BY <1>5, <2>1
  <2>3. SumOf(w, R) = Adder(w, R)[R] BY SumIsAdder
  <2>4. Adder(w, S)[S] = w[Pick(S)] + Adder(w, S)[R] BY <1>3, <1>4 DEF Adds
  <2> HIDE DEF R
  <2>5. SumOf(w, S) = w[Pick(S)] + SumOf(w, R) BY <1>1, <2>2, <2>3, <2>4
  <2> QED BY <2>5 DEF R
<1> QED BY <1>1, <1>2, <1>3, <1>4 DEF Adds

\* The member x and the rest of S add up to S.
Splits(w, S, x) == SumOf(w, S) = w[x] + SumOf(w, S \ {x})

(* Whichever member is taken out. *)
LEMMA SumOut ==
  ASSUME NEW w, NEW S, Weighed(w, S), NEW x \in S
  PROVE  Splits(w, S, x)
<1> DEFINE F == {s \in SUBSET S : \A y \in s : Splits(w, s, y)}
<1>a. \A s \in SUBSET S : Finite(s) BY FiniteSubset DEF Weighed
<1>c. \A s \in SUBSET S : Weighed(w, s)
  BY <1>a DEF Weighed
<1>d. \A s \in SUBSET S : SumOf(w, s) \in Nat
                           /\ (s # {} => SumOf(w, s) = w[Pick(s)] + SumOf(w, s \ {Pick(s)}))
  BY <1>c, SumStep
<1>1. ASSUME NEW s \in SUBSET S, \A z \in s : s \ {z} \in F, NEW y \in s
      PROVE  Splits(w, s, y)
  <2> DEFINE p == Pick(s)
  <2>1. p \in s /\ SumOf(w, s) = w[p] + SumOf(w, s \ {p}) BY <1>d, Picked
  <2> HIDE DEF p
  <2>2. CASE p = y BY <2>1, <2>2 DEF Splits
  <2>3. CASE p # y
    <3>1. s \ {p} \in F /\ s \ {y} \in F BY <1>1, <2>1
    <3>2. y \in s \ {p} /\ p \in s \ {y} /\ (s \ {p}) \ {y} = (s \ {y}) \ {p}
      BY <2>1, <2>3
    <3> DEFINE rest == (s \ {y}) \ {p}
    <3>3. SumOf(w, s \ {p}) = w[y] + SumOf(w, rest) /\ SumOf(w, s \ {y}) = w[p] + SumOf(w, rest)
      BY <3>1, <3>2 DEF Splits
    <3>4. SumOf(w, rest) \in Nat /\ w[y] \in Nat /\ w[p] \in Nat
      BY <1>d, <2>1 DEF Weighed
    <3> HIDE DEF rest
    <3>5. SumOf(w, s) = w[y] + SumOf(w, s \ {y}) BY <2>1, <3>3, <3>4, SMT
    <3> QED BY <3>5 DEF Splits
  <2> QED BY <2>2, <2>3
<1>2. \A s \in SUBSET S : (\A z \in s : s \ {z} \in F) => s \in F BY <1>1
<1> HIDE DEF F
<1>3. SUBSET S \subseteq F BY <1>2, SubsetInduction DEF Weighed
<1>4. S \in F BY <1>3
<1> QED BY <1>4 DEF F

Joins(w, S, x) == SumOf(w, S \cup {x}) = w[x] + SumOf(w, S)

(* A member more adds its weight. *)
LEMMA SumIn ==
  ASSUME NEW w, NEW S, Weighed(w, S),
         NEW x, x \notin S, w[x] \in Nat
  PROVE  Joins(w, S, x)
<1> DEFINE A == S \cup {x}
<1>1. Finite(A) BY FiniteAdd DEF Weighed
<1>2. A \ {x} = S /\ x \in A OBVIOUS
<1>4. Weighed(w, A) BY <1>1 DEF Weighed
<1> HIDE DEF A
<1>3. Splits(w, A, x) BY <1>2, <1>4, SumOut
<1> QED BY <1>2, <1>3 DEF A, Splits, Joins

(* Smaller weights add up to no more. *)
LEMMA SumMonotone ==
  ASSUME NEW v, NEW w, NEW S, Weighed(v, S), Weighed(w, S), \A x \in S : v[x] <= w[x]
  PROVE  SumOf(v, S) <= SumOf(w, S)
<1> DEFINE F == {s \in SUBSET S : SumOf(v, s) <= SumOf(w, s)}
<1>a. \A s \in SUBSET S : Finite(s) BY FiniteSubset DEF Weighed
<1>b. \A s \in SUBSET S : Weighed(v, s) /\ Weighed(w, s) BY <1>a DEF Weighed
<1>c. \A s \in SUBSET S : /\ SumOf(v, s) \in Nat /\ SumOf(w, s) \in Nat
                          /\ s = {} => SumOf(v, s) = 0 /\ SumOf(w, s) = 0
                          /\ s # {} => /\ SumOf(v, s) = v[Pick(s)] + SumOf(v, s \ {Pick(s)})
                                       /\ SumOf(w, s) = w[Pick(s)] + SumOf(w, s \ {Pick(s)})
  BY <1>b, SumStep
<1>1. ASSUME NEW s \in SUBSET S, \A x \in s : s \ {x} \in F PROVE SumOf(v, s) <= SumOf(w, s)
  <2>1. CASE s = {}
    <3>1. SumOf(v, s) = 0 /\ SumOf(w, s) = 0 BY <1>c, <2>1
    <3> QED BY <3>1, SMT
  <2>2. CASE s # {}
    <3> DEFINE x == Pick(s)
               r == s \ {x}
    <3>1. x \in s BY <2>2, Picked
    <3>2. SumOf(v, s) = v[x] + SumOf(v, r) /\ SumOf(w, s) = w[x] + SumOf(w, r) BY <1>c, <2>2
    <3>3. r \in F BY <1>1, <3>1
    <3> HIDE DEF x, r
    <3>4. v[x] \in Nat /\ w[x] \in Nat /\ v[x] <= w[x] BY <3>1 DEF Weighed
    <3>5. SumOf(v, r) \in Nat /\ SumOf(w, r) \in Nat /\ SumOf(v, r) <= SumOf(w, r) BY <1>c, <3>3
    <3> QED BY <3>2, <3>4, <3>5, SMT
  <2> QED BY <2>1, <2>2
<1>2. \A s \in SUBSET S : (\A x \in s : s \ {x} \in F) => s \in F BY <1>1
<1> HIDE DEF F
<1>3. SUBSET S \subseteq F BY <1>2, SubsetInduction DEF Weighed
<1>4. S \in F BY <1>3
<1> QED BY <1>4 DEF F

(* Zeros add up to zero. *)
LEMMA SumZero ==
  ASSUME NEW w, NEW S, Finite(S), \A x \in S : w[x] = 0
  PROVE  SumOf(w, S) = 0
<1> DEFINE F == {s \in SUBSET S : SumOf(w, s) = 0}
<1>a. \A s \in SUBSET S : Finite(s) BY FiniteSubset
<1>b. \A s \in SUBSET S : Weighed(w, s) BY <1>a, SMT DEF Weighed
<1>1. ASSUME NEW s \in SUBSET S, \A x \in s : s \ {x} \in F PROVE SumOf(w, s) = 0
  <2>1. CASE s = {} BY <1>b, <2>1, SumStep
  <2>2. CASE s # {}
    <3>1. Pick(s) \in s BY <2>2, Picked
    <3>2. SumOf(w, s) = w[Pick(s)] + SumOf(w, s \ {Pick(s)}) BY <1>b, <2>2, SumStep
    <3>3. SumOf(w, s \ {Pick(s)}) = 0 /\ w[Pick(s)] = 0 BY <1>1, <3>1
    <3> QED BY <3>2, <3>3, SMT
  <2> QED BY <2>1, <2>2
<1>2. \A s \in SUBSET S : (\A x \in s : s \ {x} \in F) => s \in F BY <1>1
<1> HIDE DEF F
<1>3. SUBSET S \subseteq F BY <1>2, SubsetInduction
<1>4. S \in F BY <1>3
<1> QED BY <1>4 DEF F

(* Equal weights add up to the same. *)
LEMMA SumEqual ==
  ASSUME NEW v, NEW w, NEW S, Weighed(w, S), \A x \in S : v[x] = w[x]
  PROVE  SumOf(v, S) = SumOf(w, S)
<1>1. Weighed(v, S) BY DEF Weighed
<1>2. \A x \in S : v[x] <= w[x] /\ w[x] <= v[x] BY SMT DEF Weighed
<1>3. SumOf(v, S) <= SumOf(w, S) /\ SumOf(w, S) <= SumOf(v, S) BY <1>1, <1>2, SumMonotone
<1>4. SumOf(v, S) \in Nat /\ SumOf(w, S) \in Nat BY <1>1, SumStep
<1> QED BY <1>3, <1>4, SMT

Shifts(v, w, S, x) == SumOf(v, S) + w[x] = SumOf(w, S) + v[x]

(* Sums of weights that differ at x differ as the weights of x do. *)
LEMMA SumChange ==
  ASSUME NEW v, NEW w, NEW S, Weighed(v, S), Weighed(w, S), NEW x \in S,
         \A y \in S \ {x} : v[y] = w[y]
  PROVE  Shifts(v, w, S, x)
<1> DEFINE r == S \ {x}
<1>1. Finite(r) BY FiniteSubset DEF Weighed
<1>2. Weighed(v, r) /\ Weighed(w, r) BY <1>1 DEF Weighed
<1>0. Splits(v, S, x) /\ Splits(w, S, x) BY SumOut
<1>3. SumOf(v, S) = v[x] + SumOf(v, r) /\ SumOf(w, S) = w[x] + SumOf(w, r) BY <1>0 DEF Splits
<1>4. SumOf(v, r) = SumOf(w, r) BY <1>2, SumEqual
<1>5. SumOf(w, r) \in Nat BY <1>2, SumStep
<1>6. v[x] \in Nat /\ w[x] \in Nat BY DEF Weighed
<1> HIDE DEF r
<1> QED BY <1>3, <1>4, <1>5, <1>6, SMT DEF Shifts

(* A weight that is smaller makes the sum smaller. *)
LEMMA SumStrict ==
  ASSUME NEW v, NEW w, NEW S, Weighed(v, S), Weighed(w, S), \A y \in S : v[y] <= w[y],
         NEW x \in S, v[x] < w[x]
  PROVE  SumOf(v, S) < SumOf(w, S)
<1> DEFINE r == S \ {x}
<1>1. Finite(r) BY FiniteSubset DEF Weighed
<1>2. Weighed(v, r) /\ Weighed(w, r) BY <1>1 DEF Weighed
<1>0. Splits(v, S, x) /\ Splits(w, S, x) BY SumOut
<1>3. SumOf(v, S) = v[x] + SumOf(v, r) /\ SumOf(w, S) = w[x] + SumOf(w, r) BY <1>0 DEF Splits
<1>4. SumOf(v, r) <= SumOf(w, r) BY <1>2, SumMonotone
<1>5. SumOf(v, r) \in Nat /\ SumOf(w, r) \in Nat BY <1>2, SumStep
<1>6. v[x] \in Nat /\ w[x] \in Nat BY DEF Weighed
<1> HIDE DEF r
<1> QED BY <1>3, <1>4, <1>5, <1>6, SMT

(* Two parts add up to the whole. *)
LEMMA SumUnion ==
  ASSUME NEW w, NEW A, NEW B, Weighed(w, A), Weighed(w, B), A \cap B = {}
  PROVE  SumOf(w, A \cup B) = SumOf(w, A) + SumOf(w, B)
<1> DEFINE F == {s \in SUBSET B : Finite(A \cup s) /\ SumOf(w, A \cup s) = SumOf(w, A) + SumOf(w, s)}
<1>a. \A s \in SUBSET B : Finite(s) BY FiniteSubset DEF Weighed
<1>b. \A s \in SUBSET B : Weighed(w, s) BY <1>a DEF Weighed
<1>c. SumOf(w, A) \in Nat BY SumStep
<1>1. ASSUME NEW s \in SUBSET B, \A x \in s : s \ {x} \in F
      PROVE  Finite(A \cup s) /\ SumOf(w, A \cup s) = SumOf(w, A) + SumOf(w, s)
  <2>1. CASE s = {}
    <3>1. SumOf(w, s) = 0 BY <1>b, <2>1, SumStep
    <3>2. A \cup s = A BY <2>1
    <3>3. SumOf(w, A) = SumOf(w, A) + 0 BY <1>c, SMT
    <3>4. Finite(A) BY DEF Weighed
    <3> QED BY <3>1, <3>2, <3>3, <3>4
  <2>2. CASE s # {}
    <3>1. PICK x : x \in s BY <2>2
    <3> DEFINE r == s \ {x}
               U == A \cup r
    <3>2. r \in F BY <1>1, <3>1
    <3>3. r \in SUBSET B /\ Finite(U) /\ SumOf(w, U) = SumOf(w, A) + SumOf(w, r) BY <3>2
    <3>4. Splits(w, s, x) BY <1>b, <3>1, SumOut
    <3>5. U \cup {x} = A \cup s /\ x \notin U BY <3>1
    <3>6. Finite(U) BY <3>3
    <3>7. Weighed(w, U) /\ w[x] \in Nat BY <3>1, <3>3, <3>6 DEF Weighed
    <3>8. SumOf(w, r) \in Nat BY <1>b, <3>3, SumStep
    <3>9. SumOf(w, s) = w[x] + SumOf(w, r) BY <3>4 DEF Splits
    <3> HIDE DEF U, r
    <3>10. SumOf(w, U \cup {x}) = w[x] + SumOf(w, U) BY <3>5, <3>7, SumIn DEF Joins
    <3>11. SumOf(w, A \cup s) = w[x] + SumOf(w, U) BY <3>5, <3>10
    <3>12. w[x] + (SumOf(w, A) + SumOf(w, r)) = SumOf(w, A) + (w[x] + SumOf(w, r))
      BY <1>c, <3>7, <3>8, SMT
    <3>13. Finite(A \cup s) BY <3>5, <3>6, FiniteAdd
    <3> QED BY <3>3, <3>9, <3>11, <3>12, <3>13
  <2> QED BY <2>1, <2>2
<1>2. \A s \in SUBSET B : (\A x \in s : s \ {x} \in F) => s \in F BY <1>1
<1> HIDE DEF F
<1>3. SUBSET B \subseteq F BY <1>2, SubsetInduction DEF Weighed
<1>4. B \in F BY <1>3
<1> QED BY <1>4 DEF F

(* One weight is its own sum. *)
LEMMA SumSingle ==
  ASSUME NEW w, NEW x, w[x] \in Nat
  PROVE  SumOf(w, {x}) = w[x]
<1>1. Finite({x}) /\ Finite({}) BY FiniteSmall
<1>2. Weighed(w, {x}) /\ Weighed(w, {}) BY <1>1 DEF Weighed
<1>3. {x} \ {x} = {} /\ x \in {x} OBVIOUS
<1>4. Splits(w, {x}, x) BY <1>2, <1>3, SumOut
<1>5. SumOf(w, {}) = 0 BY <1>2, SumStep
<1>6. SumOf(w, {x}) = w[x] + 0 BY <1>3, <1>4, <1>5 DEF Splits
<1> QED BY <1>6, SMT

-----------------------------------------------------------------------------
(* Counting. *)

(* The size of a finite set is the sum of a one for each member. *)
LEMMA SizeIsSum ==
  ASSUME NEW S, Finite(S)
  PROVE  Cardinality(S) = SumOf([x \in S |-> 1], S) /\ Cardinality(S) \in Nat
<1> DEFINE w == [x \in S |-> 1]
           Counts(g) == g = [T \in SUBSET S |-> IF T = {} THEN 0 ELSE 1 + g[T \ {CHOOSE x : x \in T}]]
           CS == CHOOSE g : Counts(g)
<1>1. Cardinality(S) = CS[S] BY SMT DEF Cardinality
<1>2. \A T : (CHOOSE x : x \in T) = Pick(T) BY DEF Pick
<1>3. ASSUME NEW g, NEW T \in SUBSET S
      PROVE  (IF T = {} THEN 0 ELSE 1 + g[T \ {CHOOSE x : x \in T}]) = Adds(w, g, T)
  <2>1. T # {} => w[Pick(T)] = 1 BY Picked
  <2> HIDE DEF w
  <2> QED BY <1>2, <2>1 DEF Adds
<1> HIDE DEF w
<1>4. ASSUME NEW g PROVE Counts(g) <=> g = [T \in SUBSET S |-> Adds(w, g, T)]
  BY <1>3
<1>5. \A x \in S : w[x] \in Nat
  <2>1. 1 \in Nat BY SMT
  <2> QED BY <2>1 DEF w
<1> HIDE DEF Counts
<1>6. \E g : Counts(g)
  <2>1. PICK g : g = [T \in SUBSET S |-> Adds(w, g, T)] BY <1>5, AdderExists
  <2>2. Counts(g) BY <1>4, <2>1
  <2> QED BY <2>2
<1>7. Counts(CS) BY <1>6
<1> HIDE DEF CS
<1>8. CS = [T \in SUBSET S |-> Adds(w, CS, T)] BY <1>4, <1>7
<1>9. \A T \in SUBSET S : CS[T] = Adds(w, CS, T) BY <1>8
<1>10. Weighed(w, S) BY <1>5 DEF Weighed
<1> DEFINE F == {T \in SUBSET S : CS[T] = SumOf(w, T)}
<1>11. ASSUME NEW T \in SUBSET S, \A x \in T : T \ {x} \in F PROVE T \in F
  <2>0. Weighed(w, T) BY <1>10, FiniteSubset DEF Weighed
  <2>1. CASE T = {}
    <3>1. CS[T] = 0 BY <1>9, <2>1 DEF Adds
    <3>2. SumOf(w, T) = 0 BY <2>0, <2>1, SumStep
    <3> QED BY <3>1, <3>2
  <2>2. CASE T # {}
    <3>1. Pick(T) \in T BY <2>2, Picked
    <3>2. CS[T \ {Pick(T)}] = SumOf(w, T \ {Pick(T)}) BY <1>11, <3>1
    <3>3. CS[T] = w[Pick(T)] + CS[T \ {Pick(T)}] BY <1>9, <2>2 DEF Adds
    <3>4. SumOf(w, T) = w[Pick(T)] + SumOf(w, T \ {Pick(T)}) BY <2>0, <2>2, SumStep
    <3> QED BY <3>2, <3>3, <3>4
  <2> QED BY <2>1, <2>2
<1> HIDE DEF F
<1>12. SUBSET S \subseteq F BY <1>11, SubsetInduction
<1>13. S \in SUBSET S OBVIOUS
<1>14. CS[S] = SumOf(w, S) BY <1>12, <1>13 DEF F
<1>15. SumOf(w, S) \in Nat BY <1>10, SumStep
<1> QED BY <1>1, <1>14, <1>15 DEF w

(* One member more. *)
LEMMA SizeIn ==
  ASSUME NEW S, Finite(S), NEW x, x \notin S
  PROVE  Cardinality(S \cup {x}) = Cardinality(S) + 1
<1> DEFINE A == S \cup {x}
           one == [y \in A |-> 1]
           w == [y \in S |-> 1]
<1>1. Finite(A) BY FiniteAdd
<1>2. one[x] = 1 /\ (\A y \in S : one[y] = w[y]) /\ (\A y \in S : w[y] = 1) OBVIOUS
<1>3. Cardinality(A) = SumOf(one, A) BY <1>1, SizeIsSum
<1>4. Cardinality(S) = SumOf(w, S) /\ Cardinality(S) \in Nat BY SizeIsSum
<1> HIDE DEF one, w
<1>5. Weighed(w, S) BY <1>2, SMT DEF Weighed
<1>6. SumOf(one, S) = SumOf(w, S) BY <1>2, <1>5, SumEqual
<1>7. Weighed(one, S) BY <1>2, <1>5 DEF Weighed
<1>8. one[x] \in Nat BY <1>2, SMT
<1>9. Joins(one, S, x) BY <1>7, <1>8, SumIn
<1>10. SumOf(one, A) = one[x] + SumOf(one, S) BY <1>9 DEF Joins
<1> HIDE DEF A
<1> QED BY <1>2, <1>3, <1>4, <1>6, <1>10, SMT DEF A

(* The numbers up to k. *)
LEMMA FiniteUpTo ==
  ASSUME NEW k \in Nat
  PROVE  Finite(1 .. k)
<1> DEFINE f == [i \in 1 .. k |-> i]
<1>1. \A x \in 1 .. k : f[x] = x OBVIOUS
<1> HIDE DEF f
<1> QED BY <1>1 DEF Finite, Listed

-----------------------------------------------------------------------------
(* The capability ledger. *)

\* The records of a ledger.
Record == [issued : BOOLEAN, parent : Grant \cup {NoParent}, depth : Nat, scope : SUBSET Scope,
           max : Nat, delegable : BOOLEAN, remaining : Int, revoked : BOOLEAN]

Accounts(records, paid) ==
  \A g \in Issued(records) :
    records[g].remaining = records[g].max - SumOf(paid, Tree(records, g))

\* Grants are a forest, finitely many are issued, nothing was paid under one
\* that is not, and the accounts are right.
LedgerInv ==
  /\ rec \in [Grant -> Record] /\ spent \in [Grant -> Nat]
  /\ Forest(rec) /\ Finite(Issued(rec))
  /\ \A g \in Grant \ Issued(rec) : spent[g] = 0
  /\ Accounts(rec, spent)

(* What a tree paid is a sum of finitely many numbers. *)
LEMMA TreeWeighed ==
  ASSUME NEW records, Finite(Issued(records)), NEW paid \in [Grant -> Nat]
  PROVE  \A g : Weighed(paid, Tree(records, g))
<1> SUFFICES ASSUME NEW g PROVE Weighed(paid, Tree(records, g))
  OBVIOUS
<1>1. Tree(records, g) \subseteq Issued(records) /\ Tree(records, g) \subseteq Grant BY DEF Tree, Issued
<1>2. Finite(Tree(records, g)) BY <1>1, FiniteSubset
<1> QED BY <1>1, <1>2 DEF Weighed

(* The empty ledger. *)
LEMMA LedgerInitially == LedgerInit => LedgerInv
<1> SUFFICES ASSUME LedgerInit PROVE LedgerInv
  OBVIOUS
<1>1. Issued(rec) = {} BY DEF LedgerInit, Absent, Issued
<1>2. Absent \in Record BY CapabilityAssumption, SMT DEF Absent, Record
<1>3. rec \in [Grant -> Record] /\ spent \in [Grant -> Nat] BY <1>2, SMT DEF LedgerInit
<1>4. \A g \in Grant : spent[g] = 0 BY DEF LedgerInit
<1> QED BY <1>1, <1>3, <1>4, FiniteSmall DEF LedgerInv, Forest, Accounts

(* The first grant is a root that has spent nothing (issue_root). *)
LEMMA IssueRootAccounts ==
  ASSUME LedgerInv, NEW g \in Grant, IssueRoot(g)
  PROVE  LedgerInv'
<1> DEFINE new == [issued |-> TRUE, parent |-> NoParent, depth |-> 0, scope |-> Scope,
                   max |-> MaxToolCalls, delegable |-> TRUE, remaining |-> MaxToolCalls,
                   revoked |-> FALSE]
<1>1. rec' = [rec EXCEPT ![g] = new] /\ spent' = spent BY DEF IssueRoot, RootIssued
<1>2. new \in Record BY CapabilityAssumption, SMT DEF Record
<1>3. new.issued /\ new.parent = NoParent /\ new.depth = 0 /\ new.max = MaxToolCalls
      /\ new.remaining = MaxToolCalls
  OBVIOUS
<1> HIDE DEF new
<1>4. rec' \in [Grant -> Record] /\ rec'[g] = new /\ \A h \in Grant \ {g} : rec'[h] = rec[h]
  BY <1>1, <1>2 DEF LedgerInv
<1>5. Issued(rec') = {g} BY <1>3, <1>4 DEF IssueRoot, Issued
<1>6. Forest(rec')
  <2>1. 0 \in 0 .. MaxDepth BY CapabilityAssumption, SMT
  <2> QED BY <1>3, <1>4, <1>5, <2>1 DEF Forest
<1>7. Tree(rec', g) = {g}
  <2>1. Lineage(rec', g) = {g} BY <1>3, <1>4, <1>5, <1>6, LineageStep
  <2> QED BY <1>5, <2>1 DEF Tree
<1>8. Finite({g}) /\ spent[g] = 0
  <2>1. g \notin Issued(rec) BY DEF IssueRoot
  <2> QED BY <2>1, FiniteSmall DEF LedgerInv
<1>9. SumOf(spent, {g}) = 0
  <2>1. 0 \in Nat OBVIOUS
  <2> QED BY <1>8, <2>1, SumSingle
<1>10. Accounts(rec', spent)
  <2>1. MaxToolCalls = MaxToolCalls - 0 BY CapabilityAssumption, SMT
  <2> QED BY <1>3, <1>4, <1>5, <1>7, <1>9, <2>1 DEF Accounts
<1>11. \A h \in Grant \ {g} : spent[h] = 0 BY DEF LedgerInv, IssueRoot
<1> QED BY <1>1, <1>4, <1>5, <1>6, <1>8, <1>10, <1>11 DEF LedgerInv

(* A delegated grant joins the trees of its parent's lineage, and has spent    *)
(* nothing (delegate).                                                         *)
LEMMA DelegateAccounts ==
  ASSUME LedgerInv, NEW p \in Grant, NEW g \in Grant, NEW scope \in SUBSET Scope, NEW max \in Nat,
         NEW delegable \in BOOLEAN, Delegate(p, g, scope, max, delegable)
  PROVE  LedgerInv'
<1> DEFINE new == [issued |-> TRUE, parent |-> p, depth |-> rec[p].depth + 1, scope |-> scope,
                   max |-> max, delegable |-> delegable, remaining |-> max, revoked |-> FALSE]
<1>0. /\ rec \in [Grant -> Record] /\ spent \in [Grant -> Nat] /\ Forest(rec)
      /\ Finite(Issued(rec)) /\ spent[g] = 0
      /\ p \in Issued(rec) /\ rec[p].depth + 1 <= MaxDepth /\ g \notin Issued(rec)
      /\ p # NoParent /\ p # g
  BY CapabilityAssumption DEF LedgerInv, Delegate, CanDelegate
<1>1. rec' = [rec EXCEPT ![g] = new] /\ spent' = spent BY DEF Delegate, Delegated
<1>d. rec[p].depth \in Nat BY <1>0 DEF Record
<1>2. new \in Record BY <1>d, SMT DEF Record
<1>3. new.issued /\ new.parent = p /\ new.depth = rec[p].depth + 1 /\ new.max = max
      /\ new.remaining = max
  OBVIOUS
<1> HIDE DEF new
<1>4. rec' \in [Grant -> Record] /\ rec'[g] = new /\ \A h \in Grant \ {g} : rec'[h] = rec[h]
  BY <1>0, <1>1, <1>2
<1>5. Issued(rec') = Issued(rec) \cup {g} /\ \A h \in Issued(rec) : rec'[h] = rec[h]
  BY <1>0, <1>3, <1>4 DEF Issued
<1>6. Forest(rec')
  <2>1. new.depth \in 0 .. MaxDepth BY <1>0, <1>3, <1>d, CapabilityAssumption, SMT
  <2>2. ASSUME NEW h \in Issued(rec)
        PROVE  /\ rec'[h].depth \in 0 .. MaxDepth
               /\ rec'[h].parent = NoParent => rec'[h].depth = 0
               /\ rec'[h].parent # NoParent =>
                    /\ rec'[h].parent \in Issued(rec)
                    /\ rec'[rec'[h].parent].depth + 1 = rec'[h].depth
    BY <1>0, <1>5, SMT DEF Forest
  <2>3. /\ rec'[g].depth \in 0 .. MaxDepth /\ rec'[g].parent = p
        /\ rec'[p].depth + 1 = rec'[g].depth
    BY <1>0, <1>3, <1>4, <1>5, <2>1
  <2>4. p # NoParent /\ p \in Issued(rec') BY <1>0, <1>5
  <2> QED BY <1>5, <2>2, <2>3, <2>4 DEF Forest
<1>7. \A h \in Issued(rec) : Lineage(rec', h) = Lineage(rec, h) BY <1>0, <1>5, LineageSame
<1>8. Lineage(rec', g) = {g} \cup Lineage(rec, p)
  <2>1. g \in Issued(rec') /\ rec'[g].parent = p BY <1>3, <1>4, <1>5
  <2>2. p # NoParent /\ p \in Issued(rec) BY <1>0
  <2>3. Lineage(rec', g) = {g} \cup Lineage(rec', p) BY <1>6, <2>1, <2>2, LineageStep, SMT
  <2> QED BY <1>7, <2>2, <2>3
<1>9. \A h \in Issued(rec) : Lineage(rec, h) \subseteq Issued(rec) BY <1>0, LineageStep, SMT
<1>10. Finite(Issued(rec'))
  <2>1. Finite(Issued(rec) \cup {g}) BY <1>0, FiniteAdd
  <2> QED BY <1>5, <2>1
<1>11. ASSUME NEW h \in Issued(rec)
       PROVE  rec'[h].remaining = rec'[h].max - SumOf(spent, Tree(rec', h))
  <2>1. rec[h].remaining = rec[h].max - SumOf(spent, Tree(rec, h)) BY DEF LedgerInv, Accounts
  <2>2. Tree(rec', h) = Tree(rec, h) \/ Tree(rec', h) = Tree(rec, h) \cup {g}
    BY <1>0, <1>5, <1>7 DEF Tree
  <2>3. SumOf(spent, Tree(rec, h) \cup {g}) = SumOf(spent, Tree(rec, h))
    <3>1. Weighed(spent, Tree(rec, h)) BY <1>0, TreeWeighed
    <3>2. g \notin Tree(rec, h) BY <1>0 DEF Tree
    <3>3. spent[g] \in Nat BY <1>0, SMT
    <3>4. Joins(spent, Tree(rec, h), g) BY <3>1, <3>2, <3>3, SumIn
    <3>5. SumOf(spent, Tree(rec, h)) \in Nat BY <3>1, SumStep
    <3>6. 0 + SumOf(spent, Tree(rec, h)) = SumOf(spent, Tree(rec, h)) BY <3>5, SMT
    <3> QED BY <1>0, <3>4, <3>6 DEF Joins
  <2> QED BY <1>5, <2>1, <2>2, <2>3
<1>12. rec'[g].remaining = rec'[g].max - SumOf(spent, Tree(rec', g))
  <2>1. Tree(rec', g) = {g} BY <1>0, <1>5, <1>7, <1>8, <1>9 DEF Tree
  <2>2. SumOf(spent, {g}) = 0
    <3>1. spent[g] \in Nat BY <1>0
    <3> QED BY <1>0, <3>1, SumSingle
  <2>3. max = max - 0 BY SMT
  <2> QED BY <1>3, <1>4, <2>1, <2>2, <2>3
<1>13. \A h \in Grant \ Issued(rec') : spent[h] = 0 BY <1>5 DEF LedgerInv
<1> QED BY <1>0, <1>1, <1>4, <1>5, <1>6, <1>10, <1>11, <1>12, <1>13 DEF LedgerInv, Accounts

(* A call is paid by the lineage of its grant, which are the grants whose      *)
(* trees it is in (consume).                                                   *)
LEMMA ConsumeAccounts ==
  ASSUME LedgerInv, NEW g \in Grant, Consume(g)
  PROVE  LedgerInv'
<1>0. /\ rec \in [Grant -> Record] /\ spent \in [Grant -> Nat] /\ Forest(rec)
      /\ Finite(Issued(rec)) /\ g \in Issued(rec)
  BY DEF LedgerInv, Consume
<1>1. /\ rec' = [h \in Grant |-> IF h \in Lineage(rec, g)
                                 THEN [rec[h] EXCEPT !.remaining = rec[h].remaining - 1]
                                 ELSE rec[h]]
      /\ spent' = [spent EXCEPT ![g] = spent[g] + 1]
  BY DEF Consume, Consumed
<1>2. ASSUME NEW h \in Grant
      PROVE  /\ rec'[h] \in Record /\ rec'[h].issued = rec[h].issued
             /\ rec'[h].parent = rec[h].parent /\ rec'[h].depth = rec[h].depth
             /\ rec'[h].max = rec[h].max
             /\ h \in Lineage(rec, g) => rec'[h].remaining = rec[h].remaining - 1
             /\ h \notin Lineage(rec, g) => rec'[h].remaining = rec[h].remaining
  <2>1. rec[h] \in Record BY <1>0
  <2>2. rec[h].remaining - 1 \in Int BY <2>1, SMT DEF Record
  <2>3. rec'[h] = IF h \in Lineage(rec, g)
                  THEN [rec[h] EXCEPT !.remaining = rec[h].remaining - 1] ELSE rec[h]
    BY <1>1
  <2> QED BY <2>1, <2>2, <2>3, SMT DEF Record
<1>3. rec' \in [Grant -> Record] BY <1>1, <1>2
<1>4. spent' \in [Grant -> Nat] /\ spent'[g] = spent[g] + 1
      /\ \A h \in Grant \ {g} : spent'[h] = spent[h]
  BY <1>0, <1>1, SMT
<1>5. Issued(rec') = Issued(rec) BY <1>2 DEF Issued
<1>6. Forest(rec') /\ \A h : Tree(rec', h) = Tree(rec, h)
  <2>1. \A h \in Issued(rec) : rec'[h].parent = rec[h].parent /\ rec'[h].depth = rec[h].depth
    BY <1>2 DEF Issued
  <2> QED BY <1>0, <1>5, <2>1, TreeSame
<1>7. ASSUME NEW h \in Issued(rec)
      PROVE  rec'[h].remaining = rec'[h].max - SumOf(spent', Tree(rec, h))
  <2> DEFINE t == Tree(rec, h)
  <2>1. rec[h].remaining = rec[h].max - SumOf(spent, t) BY DEF LedgerInv, Accounts
  <2>2. Weighed(spent, t) /\ Weighed(spent', t) BY <1>0, <1>4, TreeWeighed
  <2>3. SumOf(spent, t) \in Nat /\ SumOf(spent', t) \in Nat BY <2>2, SumStep
  <2>4. g \in t <=> h \in Lineage(rec, g) BY <1>0 DEF Tree
  <2>5. t \subseteq Grant /\ h \in Grant BY DEF Tree, Issued
  <2>6. rec[h].max \in Nat /\ spent[g] \in Nat BY <1>0, <2>5 DEF Record
  <2> HIDE DEF t
  <2>7. CASE g \in t
    <3>0. \A y \in t \ {g} : spent'[y] = spent[y] BY <1>4, <2>5
    <3>1. Shifts(spent', spent, t, g) BY <2>2, <2>7, <3>0, SumChange
    <3>2. rec'[h].remaining = rec[h].remaining - 1 /\ rec'[h].max = rec[h].max
      BY <1>2, <2>4, <2>5, <2>7
    <3> QED BY <1>4, <2>1, <2>3, <2>6, <3>1, <3>2, SMT DEF Shifts, t
  <2>8. CASE g \notin t
    <3>0. \A y \in t : spent'[y] = spent[y] BY <1>4, <2>5, <2>8
    <3>1. SumOf(spent', t) = SumOf(spent, t) BY <2>2, <3>0, SumEqual
    <3>2. rec'[h].remaining = rec[h].remaining /\ rec'[h].max = rec[h].max
      BY <1>2, <2>4, <2>5, <2>8
    <3> QED BY <2>1, <3>1, <3>2 DEF t
  <2> QED BY <2>7, <2>8
<1>8. \A h \in Grant \ Issued(rec) : spent'[h] = 0 BY <1>0, <1>4 DEF LedgerInv
<1> QED BY <1>0, <1>3, <1>4, <1>5, <1>6, <1>7, <1>8 DEF LedgerInv, Accounts

(* A revocation moves no calls (revoke). *)
LEMMA RevokeAccounts ==
  ASSUME LedgerInv, NEW g \in Grant, NEW cascade \in BOOLEAN, Revoke(g, cascade)
  PROVE  LedgerInv'
<1> DEFINE G == IF cascade THEN Tree(rec, g) ELSE {g}
<1>0. /\ rec \in [Grant -> Record] /\ spent \in [Grant -> Nat] /\ Forest(rec)
      /\ Finite(Issued(rec))
  BY DEF LedgerInv
<1>1. /\ rec' = [h \in Grant |-> IF h \in G THEN [rec[h] EXCEPT !.revoked = TRUE] ELSE rec[h]]
      /\ spent' = spent
  BY DEF Revoke, Revoked
<1> HIDE DEF G
<1>2. ASSUME NEW h \in Grant
      PROVE  /\ rec'[h] \in Record /\ rec'[h].issued = rec[h].issued
             /\ rec'[h].parent = rec[h].parent /\ rec'[h].depth = rec[h].depth
             /\ rec'[h].max = rec[h].max /\ rec'[h].remaining = rec[h].remaining
  <2>1. rec[h] \in Record BY <1>0
  <2>2. CASE rec'[h] = rec[h] BY <2>1, <2>2
  <2>3. CASE rec'[h] = [rec[h] EXCEPT !.revoked = TRUE] BY <2>1, <2>3 DEF Record
  <2> QED BY <1>1, <2>2, <2>3
<1>3. rec' \in [Grant -> Record] BY <1>1, <1>2
<1>4. Issued(rec') = Issued(rec) BY <1>2 DEF Issued
<1>5. \A h \in Issued(rec) : h \in Grant BY DEF Issued
<1>6. Forest(rec') /\ \A h : Tree(rec', h) = Tree(rec, h)
  <2>1. \A h \in Issued(rec) : rec'[h].parent = rec[h].parent /\ rec'[h].depth = rec[h].depth
    BY <1>2, <1>5
  <2> QED BY <1>0, <1>4, <2>1, TreeSame
<1>7. Accounts(rec', spent) BY <1>2, <1>4, <1>5, <1>6 DEF LedgerInv, Accounts
<1> QED BY <1>0, <1>1, <1>3, <1>4, <1>6, <1>7 DEF LedgerInv

(* Every operation keeps the accounts. *)
LEMMA LedgerStep == LedgerInv /\ [LedgerNext]_ledgerVars => LedgerInv'
<1> SUFFICES ASSUME LedgerInv, [LedgerNext]_ledgerVars PROVE LedgerInv'
  OBVIOUS
<1>1. CASE UNCHANGED ledgerVars
  BY <1>1 DEF ledgerVars, LedgerInv
<1>2. CASE LedgerNext
  <2>1. \A max \in 0 .. MaxToolCalls : max \in Nat BY CapabilityAssumption, SMT
  <2> QED BY <1>2, <2>1, IssueRootAccounts, ConsumeAccounts, RevokeAccounts, DelegateAccounts
    DEF LedgerNext
<1> QED BY <1>1, <1>2

(* What one operation may do to a grant: charge one call to it, if it is not   *)
(* revoked and has one left.                                                   *)
Charged(g) == /\ rec'[g].remaining = rec[g].remaining - 1
              /\ rec[g].remaining > 0 /\ ~rec[g].revoked
Moved(g) == /\ rec'[g].issued /\ rec'[g].max = rec[g].max
            /\ rec[g].revoked => rec'[g].revoked
            /\ rec'[g].remaining = rec[g].remaining \/ Charged(g)

\* No grant is overdrawn.
Solvent == \A g \in Issued(rec) : rec[g].remaining >= 0

(* A grant stays issued with what it was given; a new one has all of it left.  *)
LEMMA GrantsMove ==
  ASSUME LedgerInv, [LedgerNext]_ledgerVars
  PROVE  /\ \A h \in Issued(rec) : Moved(h)
         /\ \A h \in Issued(rec') \ Issued(rec) : rec'[h].remaining \in Nat
<1>0. /\ rec \in [Grant -> Record] /\ \A h \in Issued(rec) : h \in Grant /\ rec[h] \in Record
      /\ \A h \in Issued(rec) : rec[h].issued
  BY DEF LedgerInv, Issued
<1>a. ASSUME NEW h \in Issued(rec), rec'[h] = rec[h] PROVE Moved(h) BY <1>0, <1>a DEF Moved
<1>1. CASE UNCHANGED ledgerVars
  BY <1>a, <1>1 DEF ledgerVars
<1>2. ASSUME NEW g \in Grant, NEW r \in Record, r.remaining \in Nat, g \notin Issued(rec),
             rec' = [rec EXCEPT ![g] = r]
      PROVE  /\ \A h \in Issued(rec) : Moved(h)
             /\ \A h \in Issued(rec') \ Issued(rec) : rec'[h].remaining \in Nat
  <2>1. rec'[g] = r /\ \A h \in Grant \ {g} : rec'[h] = rec[h] BY <1>0, <1>2
  <2>2. \A h \in Issued(rec) : rec'[h] = rec[h] BY <1>0, <1>2, <2>1
  <2>3. \A h \in Issued(rec') \ Issued(rec) : h = g BY <2>1 DEF Issued
  <2> QED BY <1>2, <1>a, <2>1, <2>2, <2>3
<1>3. ASSUME NEW g \in Grant, IssueRoot(g)
      PROVE  /\ \A h \in Issued(rec) : Moved(h)
             /\ \A h \in Issued(rec') \ Issued(rec) : rec'[h].remaining \in Nat
  <2> DEFINE r == [issued |-> TRUE, parent |-> NoParent, depth |-> 0, scope |-> Scope,
                   max |-> MaxToolCalls, delegable |-> TRUE, remaining |-> MaxToolCalls,
                   revoked |-> FALSE]
  <2>1. r \in Record /\ r.remaining \in Nat BY CapabilityAssumption, SMT DEF Record
  <2>2. rec' = [rec EXCEPT ![g] = r] /\ g \notin Issued(rec) BY <1>3 DEF IssueRoot, RootIssued
  <2> HIDE DEF r
  <2> QED BY <1>2, <2>1, <2>2
<1>4. ASSUME NEW p \in Grant, NEW g \in Grant, NEW scope \in SUBSET Scope,
             NEW max \in 0 .. MaxToolCalls, NEW delegable \in BOOLEAN,
             Delegate(p, g, scope, max, delegable)
      PROVE  /\ \A h \in Issued(rec) : Moved(h)
             /\ \A h \in Issued(rec') \ Issued(rec) : rec'[h].remaining \in Nat
  <2> DEFINE r == [issued |-> TRUE, parent |-> p, depth |-> rec[p].depth + 1, scope |-> scope,
                   max |-> max, delegable |-> delegable, remaining |-> max, revoked |-> FALSE]
  <2>1. rec[p].depth \in Nat /\ max \in Nat BY <1>0, CapabilityAssumption, SMT DEF Record
  <2>2. r \in Record /\ r.remaining \in Nat BY <2>1, SMT DEF Record
  <2>3. rec' = [rec EXCEPT ![g] = r] /\ g \notin Issued(rec) BY <1>4 DEF Delegate, Delegated
  <2> HIDE DEF r
  <2> QED BY <1>2, <2>2, <2>3
<1>5. ASSUME NEW g \in Grant, Consume(g)
      PROVE  /\ \A h \in Issued(rec) : Moved(h)
             /\ \A h \in Issued(rec') \ Issued(rec) : rec'[h].remaining \in Nat
  <2>1. \A h \in Grant : rec'[h] = IF h \in Lineage(rec, g)
                                   THEN [rec[h] EXCEPT !.remaining = rec[h].remaining - 1]
                                   ELSE rec[h]
    BY <1>5 DEF Consume, Consumed
  <2>2. ASSUME NEW h \in Issued(rec), h \in Lineage(rec, g) PROVE Moved(h)
    <3>1. rec[h].remaining > 0 /\ ~rec[h].revoked BY <1>5, <2>2 DEF Consume, CanConsume
    <3>2. rec'[h] = [rec[h] EXCEPT !.remaining = rec[h].remaining - 1] BY <1>0, <2>1, <2>2
    <3>3. /\ rec'[h].remaining = rec[h].remaining - 1 /\ rec'[h].issued = rec[h].issued
          /\ rec'[h].max = rec[h].max
      BY <1>0, <3>2 DEF Record
    <3> QED BY <1>0, <3>1, <3>3 DEF Moved, Charged
  <2>3. ASSUME NEW h \in Issued(rec), h \notin Lineage(rec, g) PROVE Moved(h)
    BY <1>0, <1>a, <2>1, <2>3
  <2>4. ASSUME NEW h \in Grant PROVE rec'[h].issued = rec[h].issued
    <3>1. rec[h] \in Record BY <1>0
    <3>2. \/ rec'[h] = rec[h]
          \/ rec'[h] = [rec[h] EXCEPT !.remaining = rec[h].remaining - 1]
      BY <2>1
    <3> QED BY <3>1, <3>2 DEF Record
  <2>5. Issued(rec') \ Issued(rec) = {} BY <2>4 DEF Issued
  <2> QED BY <2>2, <2>3, <2>5
<1>6. ASSUME NEW g \in Grant, NEW cascade \in BOOLEAN, Revoke(g, cascade)
      PROVE  /\ \A h \in Issued(rec) : Moved(h)
             /\ \A h \in Issued(rec') \ Issued(rec) : rec'[h].remaining \in Nat
  <2>1. \A h \in Grant : rec'[h] = rec[h] \/ rec'[h] = [rec[h] EXCEPT !.revoked = TRUE]
    BY <1>6 DEF Revoke, Revoked
  <2>2. ASSUME NEW h \in Grant, rec'[h] = [rec[h] EXCEPT !.revoked = TRUE]
        PROVE  /\ rec'[h].issued = rec[h].issued /\ rec'[h].max = rec[h].max
               /\ rec'[h].remaining = rec[h].remaining /\ rec'[h].revoked
    <3>1. rec[h] \in Record BY <1>0
    <3> QED BY <2>2, <3>1 DEF Record
  <2>3. ASSUME NEW h \in Issued(rec) PROVE Moved(h)
    BY <1>0, <1>a, <2>1, <2>2 DEF Moved
  <2>4. Issued(rec') \ Issued(rec) = {} BY <2>1, <2>2 DEF Issued
  <2> QED BY <2>3, <2>4
<1> QED BY <1>1, <1>3, <1>4, <1>5, <1>6 DEF LedgerNext

(* No operation overdraws a grant. *)
LEMMA StaysSolvent == LedgerInv /\ Solvent /\ [LedgerNext]_ledgerVars => Solvent'
<1> SUFFICES ASSUME LedgerInv, Solvent, [LedgerNext]_ledgerVars, NEW g \in Issued(rec')
             PROVE  rec'[g].remaining >= 0
  BY DEF Solvent
<1>1. CASE g \notin Issued(rec)
  <2>1. rec'[g].remaining \in Nat BY <1>1, GrantsMove
  <2> QED BY <2>1, SMT
<1>2. CASE g \in Issued(rec)
  <2>1. Moved(g) /\ rec[g].remaining >= 0 BY <1>2, GrantsMove DEF Solvent
  <2>2. rec[g].remaining \in Int BY <1>2 DEF LedgerInv, Issued, Record
  <2> QED BY <2>1, <2>2, SMT DEF Moved, Charged
<1> QED BY <1>1, <1>2

(* The accounts of a ledger nobody has used. *)
LEMMA SolventAtFirst == LedgerInit => Solvent
<1> SUFFICES ASSUME LedgerInit PROVE Solvent
  OBVIOUS
<1>1. Issued(rec) = {} BY DEF LedgerInit, Absent, Issued
<1> QED BY <1>1 DEF Solvent

(* What a grant has left is what it was given less what its tree consumed, in *)
(* any ledger, and no grant is overdrawn: grants may together be promised     *)
(* more than their parent has and can never spend it                          *)
(* (CapabilityLedger.delegate, consume).                                      *)
THEOREM LineagePays == LedgerSpec => []LineageAccounting
<1>1. LedgerInv /\ Solvent => LineageAccounting
  BY DEF LedgerInv, Accounts, LineageAccounting, Solvent
<1> QED
  BY LedgerInitially, LedgerStep, SolventAtFirst, StaysSolvent, <1>1, PTL DEF LedgerSpec

(* Arithmetic of a grant's account: what is left is what was given less what  *)
(* was paid, before and after.                                                *)
LEMMA Balances ==
  ASSUME NEW max \in Nat, NEW paid \in Nat, NEW total \in Nat, max - paid = max - total
  PROVE  total = paid
  BY SMT

(* In any ledger the tree of a revoked grant pays nothing any more, also not  *)
(* through a grant delegated after the revocation, and no revocation is       *)
(* undone (CapabilityLedger.revoke, delegate, consume).                       *)
THEOREM RevokedTreesAreFinal == LedgerSpec => RevokedTreeIsFinal
<1> DEFINE Final(g) == rec[g].revoked =>
      /\ rec'[g].revoked
      /\ SumOf(spent', Tree(rec', g)) = SumOf(spent, Tree(rec, g))
<1>1. ASSUME LedgerInv, LedgerInv', [LedgerNext]_ledgerVars
      PROVE  [\A g \in Issued(rec) : Final(g)]_ledgerVars
  <2> SUFFICES ASSUME NEW g \in Issued(rec), rec[g].revoked
               PROVE  /\ rec'[g].revoked
                      /\ SumOf(spent', Tree(rec', g)) = SumOf(spent, Tree(rec, g))
    OBVIOUS
  <2>1. Moved(g) BY <1>1, GrantsMove
  <2>2. g \in Grant /\ g \in Issued(rec') BY <2>1 DEF Moved, Issued
  <2>3. rec[g].max \in Nat BY <1>1, <2>2 DEF LedgerInv, Record
  <2>4. /\ rec'[g].revoked /\ rec'[g].remaining = rec[g].remaining
        /\ rec'[g].max = rec[g].max
    BY <2>1 DEF Moved, Charged
  <2>5. PICK paid \in Nat : paid = SumOf(spent, Tree(rec, g))
    <3>1. Weighed(spent, Tree(rec, g)) BY <1>1, TreeWeighed DEF LedgerInv
    <3> QED BY <3>1, SumStep
  <2>6. PICK total \in Nat : total = SumOf(spent', Tree(rec', g))
    <3>1. Weighed(spent', Tree(rec', g)) BY <1>1, TreeWeighed DEF LedgerInv
    <3> QED BY <3>1, SumStep
  <2>7. rec[g].remaining = rec[g].max - paid BY <1>1, <2>5 DEF LedgerInv, Accounts
  <2>8. rec'[g].remaining = rec'[g].max - total BY <1>1, <2>2, <2>6 DEF LedgerInv, Accounts
  <2>9. total = paid BY <2>3, <2>4, <2>7, <2>8, Balances
  <2> QED BY <2>4, <2>5, <2>6, <2>9
<1>2. LedgerInv /\ LedgerInv' /\ [LedgerNext]_ledgerVars
        => [\A g \in Issued(rec) : Final(g)]_ledgerVars
  BY <1>1
<1> QED BY LedgerInitially, LedgerStep, <1>2, PTL DEF LedgerSpec, RevokedTreeIsFinal

-----------------------------------------------------------------------------
(* The invariant of a run. *)

Phase == {"planning", "wave", "validation", "reporting", "ended"}
At == {"new", "ready", "checked", "calling", "returned", "denied", "done", "skipped", "failed"}

RunTypeOK ==
  /\ rec \in [Grant -> Record] /\ spent \in [Grant -> Nat]
  /\ phase \in Phase /\ plan \in Seq(PlannedStep) /\ next \in Nat
  /\ at \in [Grant -> At] /\ attempts \in [Grant -> Nat]
  /\ used \in Int /\ before \in Nat
  /\ kill \in BOOLEAN /\ failing \in BOOLEAN /\ refused \in BOOLEAN
  /\ ran \in [Grant -> Nat]

Bit(b) == IF b THEN 1 ELSE 0

\* The Supervisor's grant: it is live until the run ends, and has left what
\* nobody has consumed.
RootHolds ==
  /\ MaxDepth >= 1
  /\ rec[Root].issued /\ rec[Root].parent = NoParent /\ rec[Root].depth = 0
  /\ rec[Root].delegable /\ rec[Root].scope = Scope /\ rec[Root].max = MaxToolCalls
  /\ rec[Root].remaining = MaxToolCalls - SumOf(spent, Grant)
  /\ phase # "ended" => ~rec[Root].revoked

\* Every other grant is delegated from it, when its agent is spawned.
Child(g) ==
  /\ rec[g].issued => /\ rec[g].parent = Root /\ rec[g].depth = 1
                      /\ rec[g].remaining = rec[g].max - spent[g]
                      /\ attempts[g] <= rec[g].max
  /\ ~rec[g].issued => rec[g] = Absent /\ at[g] = "new"

\* An agent that has not begun has done nothing.
Unbegun(g) == at[g] = "new" => attempts[g] = 0 /\ spent[g] = 0 /\ ran[g] = 0

\* A role that a Provider backs.
RoleHolds(r) ==
  /\ at[r] \in {"new", "ready", "calling", "failed"}
  /\ rec[r].issued <=> at[r] # "new"
  /\ rec[r].issued => rec[r].max = Calls[r]
  /\ spent[r] = attempts[r]
  /\ ran[r] + Bit(at[r] = "calling") <= attempts[r]
  /\ at[r] = "calling" => r \in RolesOf(phase)
  /\ r \in RolesOf(phase) => rec[r].issued /\ ~rec[r].revoked

\* A specialist.  An attempt under way is neither consumed nor, until the
\* Gateway has returned, executed.
TaskHolds(t) ==
  /\ at[t] # "ready"
  /\ Active(t) => t \in Wave
  /\ rec[t].issued => rec[t].max > 0
  /\ rec[t].issued /\ phase # "ended" /\ (at[t] = "new" \/ Active(t)) => ~rec[t].revoked
  /\ spent[t] + Bit(Active(t)) <= attempts[t]
  /\ ran[t] + Bit(at[t] \in {"checked", "calling", "denied"}) <= attempts[t]

\* Who has been spawned in which phase.
Spawning ==
  /\ phase = "planning" => \A t \in Task : ~rec[t].issued
  /\ phase \in {"planning", "wave"} => \A r \in ControlRole : at[r] = "new"
  /\ phase = "validation" => at[Reporter] = "new"
  /\ phase = "wave" => /\ next \in 1 .. Len(plan) /\ 1 .. Len(plan) \subseteq Task
                       /\ \A t \in 1 .. Len(plan) : rec[t].issued
  /\ phase = "ended" => \A g \in Issued(rec) : rec[g].revoked

\* What an agent has been executed or may still be, what it has entered the
\* Gateway with, and what it may attempt in all.
Held == [g \in Grant |-> ran[g] + Bit(at[g] = "calling")]
Entered == [g \in Grant |-> attempts[g] - Bit(at[g] = "checked")]
Allot ==
  [g \in Grant |-> IF g = Planner THEN attempts[g]
                   ELSE IF g \in ControlRole THEN Calls[g]
                   ELSE IF g = Root THEN 0 ELSE rec[g].max]

Charges ==
  /\ before + SumOf(Held, Grant) <= used
  /\ used <= before + SumOf(Entered, Grant)
  /\ phase \in {"wave", "validation", "reporting"} => SumOf(Allot, Grant) <= MaxToolCalls

AgentsHold ==
  /\ \A g \in Grant : Unbegun(g)
  /\ \A g \in Grant \ {Root} : Child(g)
  /\ \A r \in Role : RoleHolds(r)
  /\ \A t \in Task : TaskHolds(t)
  /\ at[Root] = "new"

RunInv == RunTypeOK /\ RootHolds /\ AgentsHold /\ Spawning /\ Charges /\ NeverRefusedLate

-----------------------------------------------------------------------------
(* A ledger in which every grant is delegated from the root. *)

Flat(records) ==
  /\ MaxDepth >= 1
  /\ records[Root].issued /\ records[Root].parent = NoParent /\ records[Root].depth = 0
  /\ \A g \in Grant \ {Root} : records[g].issued => records[g].parent = Root /\ records[g].depth = 1

(* The identities of roles and tasks. *)
LEMMA Identities ==
  /\ Root \in Grant /\ Role \subseteq Grant /\ Task \subseteq Grant \ {Root}
  /\ Root \notin Role /\ Root \notin Task /\ Role \cap Task = {}
  /\ Root # NoParent /\ Planner \notin ControlRole /\ ControlRole \subseteq Role
  /\ \A p : RolesOf(p) \subseteq Role
  /\ Planner \in Role /\ Planner # Root
<1>1. Root \notin Role /\ Planner # Root /\ Planner \in Role BY SMT DEF Root, Role, Planner, Validator, Reviewer, Reporter
<1>2. \A p : RolesOf(p) \subseteq Role BY DEF RolesOf, Role
<1> QED BY <1>1, <1>2, RunAssumption, CapabilityAssumption DEF Task, ControlRole

(* The grants are finitely many. *)
LEMMA GrantFinite ==
  Finite(Grant)
BY RunAssumption, FiniteSet

(* A lineage is the grant and the root, and the root's tree is everything.     *)
LEMMA FlatLineage ==
  ASSUME NEW records, Flat(records)
  PROVE  /\ Root \in Issued(records) /\ Tree(records, Root) = Issued(records)
         /\ \A g \in Issued(records) : g # Root =>
              Lineage(records, g) = {g, Root} /\ Tree(records, g) = {g}
<1>0. Root \in Issued(records) BY Identities DEF Flat, Issued
<1>1. Forest(records)
  <2>1. 0 \in 0 .. MaxDepth /\ 1 \in 0 .. MaxDepth /\ 0 + 1 = 1 BY CapabilityAssumption, SMT DEF Flat
  <2>2. ASSUME NEW g \in Issued(records)
        PROVE  /\ records[g].depth \in 0 .. MaxDepth
               /\ records[g].parent = NoParent => records[g].depth = 0
               /\ records[g].parent # NoParent =>
                    /\ records[g].parent \in Issued(records)
                    /\ records[records[g].parent].depth + 1 = records[g].depth
    <3>1. CASE g = Root BY <2>1, <3>1 DEF Flat
    <3>2. CASE g # Root
      <4>1. records[g].parent = Root /\ records[g].depth = 1 BY <3>2 DEF Flat, Issued
      <4>2. records[Root].depth = 0 BY DEF Flat
      <4> QED BY <1>0, <2>1, <4>1, <4>2, Identities
    <3> QED BY <3>1, <3>2
  <2> QED BY <2>2 DEF Forest
<1>2. Lineage(records, Root) = {Root}
  <2>1. records[Root].parent = NoParent BY DEF Flat
  <2> QED BY <1>0, <1>1, <2>1, LineageStep
<1>3. ASSUME NEW g \in Issued(records), g # Root PROVE Lineage(records, g) = {g, Root}
  <2>1. records[g].parent = Root BY <1>3 DEF Flat, Issued
  <2>2. Root # NoParent BY Identities
  <2>3. Lineage(records, g) = {g} \cup Lineage(records, Root) BY <1>1, <2>1, <2>2, LineageStep
  <2> QED BY <1>2, <2>3
<1>4. Tree(records, Root) = Issued(records) BY <1>2, <1>3 DEF Tree
<1>5. ASSUME NEW g \in Issued(records), g # Root PROVE Tree(records, g) = {g}
  BY <1>2, <1>3, <1>5 DEF Tree
<1> QED BY <1>0, <1>3, <1>4, <1>5

(* The ledger's test is the grant's and the root's.                           *)
LEMMA FlatCanConsume ==
  ASSUME NEW records, Flat(records), NEW g \in Issued(records), g # Root,
         ~records[g].revoked, ~records[Root].revoked,
         records[g].remaining > 0, records[Root].remaining > 0
  PROVE  CanConsume(records, g)
<1>1. Lineage(records, g) = {g, Root} BY FlatLineage
<1> QED BY <1>1 DEF CanConsume

(* The invariant's records are such a ledger. *)
LEMMA RunIsFlat ==
  ASSUME RunInv
  PROVE  Flat(rec)
BY DEF RunInv, RootHolds, AgentsHold, Child, Flat

(* What a consumption changes. *)
LEMMA ConsumedRecords ==
  ASSUME RunInv, NEW g \in Issued(rec), g # Root
  PROVE  /\ Consumed(rec, g) \in [Grant -> Record]
         /\ \A h \in Grant \ {g, Root} : Consumed(rec, g)[h] = rec[h]
         /\ \A h \in {g, Root} :
              /\ Consumed(rec, g)[h].issued = rec[h].issued
              /\ Consumed(rec, g)[h].parent = rec[h].parent
              /\ Consumed(rec, g)[h].depth = rec[h].depth
              /\ Consumed(rec, g)[h].scope = rec[h].scope
              /\ Consumed(rec, g)[h].max = rec[h].max
              /\ Consumed(rec, g)[h].delegable = rec[h].delegable
              /\ Consumed(rec, g)[h].revoked = rec[h].revoked
              /\ Consumed(rec, g)[h].remaining = rec[h].remaining - 1
<1>1. Lineage(rec, g) = {g, Root} BY RunIsFlat, FlatLineage
<1>2. rec \in [Grant -> Record] /\ g \in Grant /\ Root \in Grant BY Identities DEF RunInv, RunTypeOK, Issued
<1> DEFINE c == Consumed(rec, g)
<1>3. c = [h \in Grant |-> IF h \in {g, Root}
                           THEN [rec[h] EXCEPT !.remaining = rec[h].remaining - 1]
                           ELSE rec[h]]
  BY <1>1 DEF Consumed
<1> HIDE DEF c
<1>4. \A h \in Grant \ {g, Root} : c[h] = rec[h] BY <1>3
<1>5. ASSUME NEW h \in {g, Root}
      PROVE  /\ c[h] \in Record /\ c[h].issued = rec[h].issued
             /\ c[h].parent = rec[h].parent /\ c[h].depth = rec[h].depth /\ c[h].scope = rec[h].scope
             /\ c[h].max = rec[h].max /\ c[h].delegable = rec[h].delegable
             /\ c[h].revoked = rec[h].revoked /\ c[h].remaining = rec[h].remaining - 1
  <2>1. h \in Grant /\ rec[h] \in Record BY <1>2
  <2>2. c[h] = [rec[h] EXCEPT !.remaining = rec[h].remaining - 1] BY <1>3, <2>1
  <2>3. rec[h].remaining - 1 \in Int BY <2>1, SMT DEF Record
  <2> QED BY <2>1, <2>2, <2>3, SMT DEF Record
<1>6. c \in [Grant -> Record]
  <2>1. \A h \in Grant : c[h] \in Record BY <1>2, <1>4, <1>5
  <2> QED BY <1>3, <2>1
<1> QED BY <1>4, <1>5, <1>6 DEF c

(* What a revocation changes. *)
LEMMA RevokedRecords ==
  ASSUME NEW records \in [Grant -> Record], NEW G
  PROVE  /\ Revoked(records, G) \in [Grant -> Record]
         /\ \A h \in Grant \ G : Revoked(records, G)[h] = records[h]
         /\ \A h \in Grant :
              /\ Revoked(records, G)[h].issued = records[h].issued
              /\ Revoked(records, G)[h].parent = records[h].parent
              /\ Revoked(records, G)[h].depth = records[h].depth
              /\ Revoked(records, G)[h].scope = records[h].scope
              /\ Revoked(records, G)[h].max = records[h].max
              /\ Revoked(records, G)[h].delegable = records[h].delegable
              /\ Revoked(records, G)[h].remaining = records[h].remaining
         /\ \A h \in Grant \cap G : Revoked(records, G)[h].revoked
<1> DEFINE c == Revoked(records, G)
<1>1. c = [h \in Grant |-> IF h \in G THEN [records[h] EXCEPT !.revoked = TRUE] ELSE records[h]]
  BY DEF Revoked
<1> HIDE DEF c
<1>2. \A h \in Grant \ G : c[h] = records[h] BY <1>1
<1>3. ASSUME NEW h \in Grant, h \in G
      PROVE  /\ c[h] \in Record /\ c[h].issued = records[h].issued
             /\ c[h].parent = records[h].parent /\ c[h].depth = records[h].depth
             /\ c[h].scope = records[h].scope /\ c[h].max = records[h].max
             /\ c[h].delegable = records[h].delegable /\ c[h].remaining = records[h].remaining
             /\ c[h].revoked
  <2>1. records[h] \in Record OBVIOUS
  <2>2. c[h] = [records[h] EXCEPT !.revoked = TRUE] BY <1>1, <1>3
  <2> QED BY <2>1, <2>2 DEF Record
<1>4. c \in [Grant -> Record]
  <2>1. \A h \in Grant : c[h] \in Record BY <1>2, <1>3
  <2> QED BY <1>1, <2>1
<1> QED BY <1>2, <1>3, <1>4 DEF c

-----------------------------------------------------------------------------
(* What agents have done and may do, as weights. *)

(* The numbers of an agent, and that it is within what it was allotted.       *)
LEMMA AgentNumbers ==
  RunTypeOK /\ AgentsHold =>
    \A g \in Grant :
      /\ spent[g] \in Nat /\ attempts[g] \in Nat /\ ran[g] \in Nat
      /\ Held[g] \in Nat /\ Entered[g] \in Nat /\ Allot[g] \in Nat
      /\ spent[g] <= attempts[g] /\ ran[g] <= attempts[g]
      /\ Entered[g] <= attempts[g] /\ attempts[g] <= Allot[g]
<1> SUFFICES ASSUME RunTypeOK, AgentsHold, NEW g \in Grant
             PROVE  /\ spent[g] \in Nat /\ attempts[g] \in Nat /\ ran[g] \in Nat
                    /\ Held[g] \in Nat /\ Entered[g] \in Nat /\ Allot[g] \in Nat
                    /\ spent[g] <= attempts[g] /\ ran[g] <= attempts[g]
                    /\ Entered[g] <= attempts[g] /\ attempts[g] <= Allot[g]
  OBVIOUS
<1> DEFINE c == Bit(at[g] = "calling")
           k == Bit(at[g] = "checked")
<1>1. spent[g] \in Nat /\ attempts[g] \in Nat /\ ran[g] \in Nat /\ rec[g] \in Record
  BY DEF RunTypeOK
<1>2. c \in {0, 1} /\ k \in {0, 1} /\ (at[g] # "checked" => k = 0) BY DEF Bit
<1>3. /\ Held[g] = ran[g] + c /\ Entered[g] = attempts[g] - k
      /\ Allot[g] = IF g = Planner THEN attempts[g]
                    ELSE IF g \in ControlRole THEN Calls[g]
                    ELSE IF g = Root THEN 0 ELSE rec[g].max
  BY DEF Held, Entered, Allot
<1> HIDE DEF c, k
<1>4. rec[g].max \in Nat BY <1>1 DEF Record
<1>5. CASE at[g] = "new"
  <2>1. attempts[g] = 0 /\ spent[g] = 0 /\ ran[g] = 0 /\ k = 0
    BY <1>2, <1>5 DEF AgentsHold, Unbegun
  <2>2. Allot[g] \in Nat
    <3>1. g \in ControlRole => Calls[g] \in Nat BY RunAssumption, Identities
    <3> QED BY <1>1, <1>3, <1>4, <3>1, SMT
  <2> QED BY <1>2, <1>3, <2>1, <2>2, SMT
<1>6. CASE at[g] # "new"
  <2>1. g \in Role \/ g \in Task BY <1>6 DEF AgentsHold, Task
  <2>2. g # Root /\ rec[g].issued /\ attempts[g] <= rec[g].max
    <3>1. g # Root BY <1>6 DEF AgentsHold
    <3> QED BY <1>6, <3>1 DEF AgentsHold, Child
  <2>3. CASE g \in Role
    <3>1. RoleHolds(g) BY <2>3 DEF AgentsHold
    <3>2. at[g] # "checked" /\ rec[g].max = Calls[g] /\ spent[g] = attempts[g] /\ ran[g] + c <= attempts[g]
      BY <2>2, <3>1 DEF RoleHolds, c
    <3>3. g = Planner \/ g \in ControlRole BY <2>3 DEF ControlRole
    <3>4. Allot[g] \in Nat /\ attempts[g] <= Allot[g] BY <1>1, <1>3, <1>4, <2>2, <3>2, <3>3, SMT
    <3> QED BY <1>1, <1>2, <1>3, <3>2, <3>4, SMT
  <2>4. CASE g \in Task
    <3>1. TaskHolds(g) BY <2>4 DEF AgentsHold
    <3>2. Allot[g] = rec[g].max BY <1>3, <2>4, Identities
    <3>3. /\ spent[g] + Bit(Active(g)) <= attempts[g]
          /\ ran[g] + Bit(at[g] \in {"checked", "calling", "denied"}) <= attempts[g]
      BY <3>1 DEF TaskHolds
    <3>4. /\ Bit(Active(g)) \in {0, 1} /\ Bit(at[g] \in {"checked", "calling", "denied"}) \in {0, 1}
          /\ at[g] = "checked" => Bit(Active(g)) = 1
      BY DEF Bit, Active
    <3>5. k = 1 => Bit(Active(g)) = 1
      <4>1. k = 1 => at[g] = "checked" BY <1>2, SMT
      <4> QED BY <3>4, <4>1
    <3> HIDE DEF Bit, Active
    <3> QED BY <1>1, <1>2, <1>3, <1>4, <2>2, <3>2, <3>3, <3>4, <3>5, SMT
  <2> QED BY <2>1, <2>3, <2>4
<1> QED BY <1>5, <1>6

Weighable ==
  /\ Weighed(spent, Grant) /\ Weighed(Held, Grant) /\ Weighed(Entered, Grant)
  /\ Weighed(Allot, Grant)

(* They can be added up. *)
LEMMA Weights == RunTypeOK /\ AgentsHold => Weighable
BY AgentNumbers, GrantFinite DEF Weighable, Weighed

Working == phase \in {"wave", "validation", "reporting"}

(* Once the plan is accepted, agents that stay within what they were allotted *)
(* stay within the Campaign's budget; below it, if one of them is below.       *)
LEMMA WithinAllotment ==
  ASSUME RunInv, Working, NEW v, \A g \in Grant : v[g] \in Nat /\ v[g] <= Allot[g]
  PROVE  /\ SumOf(v, Grant) \in Nat /\ SumOf(v, Grant) <= MaxToolCalls
         /\ \A x \in Grant : v[x] < Allot[x] => SumOf(v, Grant) < MaxToolCalls
<1>1. Weighed(Allot, Grant) /\ Weighed(v, Grant) BY Weights, GrantFinite DEF RunInv, Weighable, Weighed
<1>2. SumOf(Allot, Grant) \in Nat /\ SumOf(v, Grant) \in Nat BY <1>1, SumStep
<1>3. SumOf(Allot, Grant) <= MaxToolCalls BY DEF RunInv, Charges, Working
<1>4. SumOf(v, Grant) <= SumOf(Allot, Grant) BY <1>1, SumMonotone
<1>5. ASSUME NEW x \in Grant, v[x] < Allot[x] PROVE SumOf(v, Grant) < SumOf(Allot, Grant)
  BY <1>1, <1>5, SumStrict
<1>6. SumOf(v, Grant) <= MaxToolCalls BY <1>2, <1>3, <1>4, CapabilityAssumption, SMT
<1>7. ASSUME NEW x \in Grant, v[x] < Allot[x] PROVE SumOf(v, Grant) < MaxToolCalls
  <2>1. SumOf(v, Grant) < SumOf(Allot, Grant) BY <1>5, <1>7
  <2> QED BY <1>2, <1>3, <2>1, CapabilityAssumption, SMT
<1> QED BY <1>2, <1>6, <1>7

(* So the Supervisor's grant has a call left for an agent that has, and a      *)
(* budget of the run's own too (check_tool_call, can_consume).                 *)
LEMMA CallsLeft ==
  ASSUME RunInv, Working, NEW x \in Grant
  PROVE  /\ spent[x] < Allot[x] => rec[Root].remaining > 0
         /\ before = 0 /\ Entered[x] < Allot[x] => used < MaxToolCalls
<1>0. \A g \in Grant : /\ spent[g] \in Nat /\ spent[g] <= Allot[g]
                       /\ Entered[g] \in Nat /\ Entered[g] <= Allot[g]
  <2>1. ASSUME NEW g \in Grant PROVE spent[g] <= Allot[g] /\ Entered[g] <= Allot[g]
    <3>1. /\ spent[g] \in Nat /\ attempts[g] \in Nat /\ Entered[g] \in Nat /\ Allot[g] \in Nat
          /\ spent[g] <= attempts[g] /\ Entered[g] <= attempts[g] /\ attempts[g] <= Allot[g]
      BY AgentNumbers DEF RunInv
    <3> QED BY <3>1, SMT
  <2> QED BY <2>1, AgentNumbers DEF RunInv
<1>1. ASSUME spent[x] < Allot[x] PROVE rec[Root].remaining > 0
  <2>1. SumOf(spent, Grant) \in Nat /\ SumOf(spent, Grant) < MaxToolCalls
    BY <1>0, <1>1, WithinAllotment
  <2>2. rec[Root].remaining = MaxToolCalls - SumOf(spent, Grant) BY DEF RunInv, RootHolds
  <2> QED BY <2>1, <2>2, CapabilityAssumption, SMT
<1>2. ASSUME before = 0, Entered[x] < Allot[x] PROVE used < MaxToolCalls
  <2>1. SumOf(Entered, Grant) \in Nat /\ SumOf(Entered, Grant) < MaxToolCalls
    BY <1>0, <1>2, WithinAllotment
  <2>2. used <= 0 + SumOf(Entered, Grant) /\ used \in Int BY <1>2 DEF RunInv, Charges, RunTypeOK
  <2> QED BY <2>1, <2>2, CapabilityAssumption, SMT
<1> QED BY <1>1, <1>2

-----------------------------------------------------------------------------
(* A step of one agent. *)

SameAgent(g) ==
  /\ at'[g] = at[g] /\ attempts'[g] = attempts[g] /\ spent'[g] = spent[g]
  /\ ran'[g] = ran[g] /\ rec'[g] = rec[g]

\* Agent x takes a step.  It may draw on the Supervisor's grant; nobody else
\* and nothing about the phase changes.
OneAgent(x) ==
  /\ \A g \in Grant \ {x, Root} : SameAgent(g)
  /\ at'[Root] = at[Root] /\ attempts'[Root] = attempts[Root]
  /\ spent'[Root] = spent[Root] /\ ran'[Root] = ran[Root]
  /\ rec'[Root].issued = rec[Root].issued /\ rec'[Root].parent = rec[Root].parent
  /\ rec'[Root].depth = rec[Root].depth /\ rec'[Root].delegable = rec[Root].delegable
  /\ rec'[Root].scope = rec[Root].scope /\ rec'[Root].max = rec[Root].max
  /\ rec'[Root].revoked = rec[Root].revoked
  /\ rec'[Root].remaining = rec[Root].remaining - (spent'[x] - spent[x])
  /\ rec'[x].issued = rec[x].issued /\ rec'[x].max = rec[x].max
  /\ phase' = phase /\ plan' = plan /\ next' = next /\ before' = before

\* What the step has to keep of x itself.
KeepsAgent(x) ==
  /\ Unbegun(x)' /\ Child(x)'
  /\ x \in Role => RoleHolds(x)'
  /\ x \in Task => TaskHolds(x)'

(* Nothing about another agent changes. *)
LEMMA OtherAgent ==
  ASSUME NEW g, SameAgent(g), phase' = phase, plan' = plan, next' = next
  PROVE  /\ Unbegun(g) => Unbegun(g)'
         /\ Child(g) => Child(g)'
         /\ RoleHolds(g) => RoleHolds(g)'
         /\ TaskHolds(g) => TaskHolds(g)'
<1>1. at'[g] = at[g] /\ attempts'[g] = attempts[g] /\ spent'[g] = spent[g]
      /\ ran'[g] = ran[g] /\ rec'[g] = rec[g]
  BY DEF SameAgent
<1>2. Unbegun(g) => Unbegun(g)' BY <1>1 DEF Unbegun
<1>3. Child(g) => Child(g)' BY <1>1 DEF Child
<1>4. RoleHolds(g) => RoleHolds(g)' BY <1>1 DEF RoleHolds
<1>5. TaskHolds(g) => TaskHolds(g)'
  <2>1. Wave' = Wave BY DEF Wave
  <2>2. Active(g)' <=> Active(g) BY <1>1 DEF Active
  <2>3. Bit(Active(g)') = Bit(Active(g)) BY <2>2 DEF Bit
  <2> QED BY <1>1, <2>1, <2>2, <2>3 DEF TaskHolds
<1> QED BY <1>2, <1>3, <1>4, <1>5

(* The step keeps every agent's part of the invariant. *)
LEMMA AgentsCarry ==
  ASSUME RunInv, NEW x \in Grant \ {Root}, OneAgent(x), KeepsAgent(x)
  PROVE  AgentsHold'
<1>0. phase' = phase /\ plan' = plan /\ next' = next BY DEF OneAgent
<1>1. ASSUME NEW g \in Grant \ {x, Root}
      PROVE  /\ Unbegun(g) => Unbegun(g)'
             /\ Child(g) => Child(g)'
             /\ RoleHolds(g) => RoleHolds(g)'
             /\ TaskHolds(g) => TaskHolds(g)'
  <2>1. SameAgent(g) BY DEF OneAgent
  <2> QED BY <1>0, <2>1, OtherAgent
<1>2. ASSUME NEW g \in Grant PROVE Unbegun(g)'
  <2>1. CASE g = x BY <2>1 DEF KeepsAgent
  <2>2. CASE g = Root
    <3>1. Unbegun(Root) BY Identities DEF RunInv, AgentsHold
    <3> QED BY <2>2, <3>1 DEF OneAgent, Unbegun
  <2>3. CASE g # x /\ g # Root BY <1>1, <2>3 DEF RunInv, AgentsHold
  <2> QED BY <2>1, <2>2, <2>3
<1>3. ASSUME NEW g \in Grant \ {Root} PROVE Child(g)'
  <2>1. CASE g = x BY <2>1 DEF KeepsAgent
  <2>2. CASE g # x BY <1>1, <2>2 DEF RunInv, AgentsHold
  <2> QED BY <2>1, <2>2
<1>4. ASSUME NEW g \in Role PROVE RoleHolds(g)'
  <2>0. g \in Grant /\ g # Root BY Identities
  <2>1. CASE g = x BY <2>1 DEF KeepsAgent
  <2>2. CASE g # x BY <1>1, <2>0, <2>2 DEF RunInv, AgentsHold
  <2> QED BY <2>1, <2>2
<1>5. ASSUME NEW g \in Task PROVE TaskHolds(g)'
  <2>0. g \in Grant /\ g # Root BY Identities
  <2>1. CASE g = x BY <2>1 DEF KeepsAgent
  <2>2. CASE g # x BY <1>1, <2>0, <2>2 DEF RunInv, AgentsHold
  <2> QED BY <2>1, <2>2
<1>6. at'[Root] = "new" BY DEF RunInv, AgentsHold, OneAgent
<1> QED BY <1>2, <1>3, <1>4, <1>5, <1>6 DEF AgentsHold

(* Who has been spawned does not change. *)
LEMMA SpawningCarries ==
  ASSUME RunInv, NEW x \in Task \cup RolesOf(phase), OneAgent(x), phase # "ended"
  PROVE  Spawning'
<1>0. phase' = phase /\ plan' = plan /\ next' = next BY DEF OneAgent
<1>1. \A g \in Grant \ {x, Root} : at'[g] = at[g] /\ rec'[g] = rec[g]
  BY DEF OneAgent, SameAgent
<1>2. \A g \in Task : rec'[g].issued = rec[g].issued
  <2>1. rec'[x].issued = rec[x].issued BY DEF OneAgent
  <2> QED BY <1>1, <2>1, Identities
<1>3. phase \in {"planning", "wave"} => \A r \in ControlRole : r # x
  <2>1. RolesOf("planning") = {Planner} /\ RolesOf("wave") = {} BY DEF RolesOf
  <2> QED BY <2>1, Identities
<1>4. phase = "validation" => Reporter # x
  <2>1. RolesOf("validation") = {Validator, Reviewer} BY DEF RolesOf
  <2>2. Reporter \notin {Validator, Reviewer} BY SMT DEF Reporter, Validator, Reviewer
  <2>3. Reporter \in Role BY DEF Role
  <2> QED BY <2>1, <2>2, <2>3, Identities
<1>5. phase' = "planning" => \A t \in Task : ~rec'[t].issued
  BY <1>0, <1>2 DEF RunInv, Spawning
<1>6. phase' \in {"planning", "wave"} => \A r \in ControlRole : at'[r] = "new"
  <2>1. phase \in {"planning", "wave"} => \A r \in ControlRole : at[r] = "new"
    BY DEF RunInv, Spawning
  <2>2. ASSUME NEW r \in ControlRole, phase \in {"planning", "wave"} PROVE at'[r] = "new"
    <3>1. r \in Grant /\ r # Root /\ r # x BY <1>3, <2>2, Identities
    <3> QED BY <1>1, <2>1, <2>2, <3>1
  <2> QED BY <1>0, <2>2
<1>7. phase' = "validation" => at'[Reporter] = "new"
  <2>1. Reporter \in Role BY DEF Role
  <2>2. Reporter \in Grant /\ Reporter # Root BY <2>1, Identities
  <2>3. phase = "validation" => at[Reporter] = "new" BY DEF RunInv, Spawning
  <2> QED BY <1>0, <1>1, <1>4, <2>2, <2>3
<1>8. phase' = "wave" => /\ next' \in 1 .. Len(plan') /\ 1 .. Len(plan') \subseteq Task
                         /\ \A t \in 1 .. Len(plan') : rec'[t].issued
  <2>1. ASSUME phase = "wave"
        PROVE  /\ next \in 1 .. Len(plan) /\ 1 .. Len(plan) \subseteq Task
               /\ \A t \in 1 .. Len(plan) : rec[t].issued
    BY <2>1 DEF RunInv, Spawning
  <2>2. ASSUME phase = "wave", NEW t \in 1 .. Len(plan) PROVE rec'[t].issued
    <3>1. t \in Task /\ rec[t].issued BY <2>1, <2>2
    <3> QED BY <1>2, <3>1
  <2> QED BY <1>0, <2>1, <2>2
<1> QED BY <1>0, <1>5, <1>6, <1>7, <1>8 DEF Spawning

(* The charge follows what x holds and has entered with. *)
LEMMA ChargesCarry ==
  ASSUME RunInv, NEW x \in Task \cup RolesOf(phase), phase # "ended",
         RunTypeOK', OneAgent(x), KeepsAgent(x),
         used + Held'[x] <= used' + Held[x],
         used' + Entered[x] <= used + Entered'[x]
  PROVE  Charges'
<1>0. x \in Grant /\ x # Root /\ (x = Planner => phase = "planning")
  <2>1. Planner \in RolesOf(phase) => phase = "planning"
    <3>1. Planner \notin {Validator, Reviewer, Reporter} BY SMT DEF Planner, Validator, Reviewer, Reporter
    <3> QED BY <3>1 DEF RolesOf
  <2> QED BY <2>1, Identities
<1>1. AgentsHold' BY <1>0, AgentsCarry
<1>2. /\ Weighed(Held, Grant) /\ Weighed(Entered, Grant) /\ Weighed(Allot, Grant)
      /\ Weighed(Held', Grant) /\ Weighed(Entered', Grant) /\ Weighed(Allot', Grant)
  <2>1. RunTypeOK' /\ AgentsHold' => Weighable' BY Weights, PTL
  <2> QED BY <1>1, <2>1, Weights DEF RunInv, Weighable
<1>3. ASSUME NEW g \in Grant \ {x}
      PROVE  Held'[g] = Held[g] /\ Entered'[g] = Entered[g] /\ Allot'[g] = Allot[g]
  <2>1. at'[g] = at[g] /\ attempts'[g] = attempts[g] /\ ran'[g] = ran[g]
        /\ rec'[g].max = rec[g].max
    BY DEF OneAgent, SameAgent
  <2>2. Held'[g] = Held[g] BY <2>1 DEF Held
  <2>3. Entered'[g] = Entered[g] BY <2>1 DEF Entered
  <2>4. Allot'[g] = Allot[g] BY <2>1 DEF Allot
  <2> QED BY <2>2, <2>3, <2>4
<1>4. Shifts(Held', Held, Grant, x) /\ Shifts(Entered', Entered, Grant, x)
  BY <1>0, <1>2, <1>3, SumChange
<1>5. /\ SumOf(Held, Grant) \in Nat /\ SumOf(Entered, Grant) \in Nat
      /\ SumOf(Held', Grant) \in Nat /\ SumOf(Entered', Grant) \in Nat
      /\ Held[x] \in Nat /\ Entered[x] \in Nat /\ Held'[x] \in Nat /\ Entered'[x] \in Nat
  BY <1>0, <1>2, SumStep DEF Weighed
<1>6. used \in Int /\ used' \in Int /\ before \in Nat /\ before' = before
  BY DEF RunInv, RunTypeOK, OneAgent
<1>7. before + SumOf(Held, Grant) <= used /\ used <= before + SumOf(Entered, Grant)
  BY DEF RunInv, Charges
<1>8. /\ SumOf(Held', Grant) + Held[x] = SumOf(Held, Grant) + Held'[x]
      /\ SumOf(Entered', Grant) + Entered[x] = SumOf(Entered, Grant) + Entered'[x]
  BY <1>4 DEF Shifts
<1>9. before' + SumOf(Held', Grant) <= used' BY <1>5, <1>6, <1>7, <1>8, SMT
<1>10. used' <= before' + SumOf(Entered', Grant) BY <1>5, <1>6, <1>7, <1>8, SMT
<1>11. Working' => SumOf(Allot', Grant) <= MaxToolCalls
  <2> SUFFICES ASSUME Working' PROVE SumOf(Allot', Grant) <= MaxToolCalls OBVIOUS
  <2>1. phase' = phase /\ Working BY DEF OneAgent, Working
  <2>2. x # Planner BY <1>0, <2>1 DEF Working
  <2>3. Allot'[x] = Allot[x] BY <1>0, <2>2 DEF Allot, OneAgent
  <2>4. \A g \in Grant : Allot'[g] = Allot[g] BY <1>3, <2>3
  <2>5. SumOf(Allot', Grant) = SumOf(Allot, Grant) BY <1>2, <2>4, SumEqual
  <2> QED BY <2>1, <2>5 DEF RunInv, Charges, Working
<1> QED BY <1>9, <1>10, <1>11 DEF Charges, Working

(* A step of one agent keeps the invariant. *)
LEMMA OneAgentCarries ==
  ASSUME RunInv, NEW x \in Task \cup RolesOf(phase), phase # "ended",
         RunTypeOK', OneAgent(x), KeepsAgent(x), NeverRefusedLate',
         used + Held'[x] <= used' + Held[x],
         used' + Entered[x] <= used + Entered'[x]
  PROVE  RunInv'
<1>0. x \in Grant \ {Root} BY Identities
<1>1. AgentsHold' BY <1>0, AgentsCarry
<1>2. Spawning' BY SpawningCarries
<1>3. Charges' BY ChargesCarry
<1>4. RootHolds'
  <2>1. Weighed(spent, Grant) /\ Weighed(spent', Grant)
    <3>1. RunTypeOK' /\ AgentsHold' => Weighable' BY Weights, PTL
    <3> QED BY <1>1, <3>1, Weights DEF RunInv, Weighable
  <2>2. \A g \in Grant \ {x} : spent'[g] = spent[g] BY DEF OneAgent, SameAgent
  <2>3. Shifts(spent', spent, Grant, x) BY <1>0, <2>1, <2>2, SumChange
  <2>4. SumOf(spent, Grant) \in Nat /\ SumOf(spent', Grant) \in Nat /\ spent[x] \in Nat /\ spent'[x] \in Nat
    BY <1>0, <2>1, SumStep DEF Weighed
  <2>5. rec[Root].remaining = MaxToolCalls - SumOf(spent, Grant) BY DEF RunInv, RootHolds
  <2>6. rec'[Root].remaining = rec[Root].remaining - (spent'[x] - spent[x]) BY DEF OneAgent
  <2>7. SumOf(spent', Grant) + spent[x] = SumOf(spent, Grant) + spent'[x] BY <2>3 DEF Shifts
  <2>8. rec'[Root].remaining = MaxToolCalls - SumOf(spent', Grant)
    BY <2>4, <2>5, <2>6, <2>7, CapabilityAssumption, SMT
  <2> QED BY <2>8 DEF RunInv, RootHolds, OneAgent
<1> QED BY <1>1, <1>2, <1>3, <1>4 DEF RunInv

Live == {"checked", "calling", "returned", "denied"}

\* The records after x has consumed its lineage (s = 1) or not (s = 0), and has
\* perhaps been revoked.
RecordsMove(x, s) ==
  \/ s = 0 /\ (rec' = rec \/ rec' = Revoked(rec, {x}))
  \/ s = 1 /\ (rec' = Consumed(rec, x) \/ rec' = Revoked(Consumed(rec, x), {x}))

\* Agent x comes to a, after n attempts, m executed calls and s more consumed.
Move(x, a, n, m, s) ==
  /\ at' = [at EXCEPT ![x] = a] /\ attempts' = [attempts EXCEPT ![x] = n]
  /\ ran' = [ran EXCEPT ![x] = m] /\ spent' = [spent EXCEPT ![x] = spent[x] + s]
  /\ RecordsMove(x, s)
  /\ phase' = phase /\ plan' = plan /\ next' = next /\ before' = before

SameGrant(old, new) ==
  /\ new.issued = old.issued /\ new.parent = old.parent /\ new.depth = old.depth
  /\ new.scope = old.scope /\ new.max = old.max /\ new.delegable = old.delegable

(* What such a step does to the records. *)
LEMMA MovedRecords ==
  ASSUME RunInv, NEW x \in Issued(rec), x # Root, NEW s \in {0, 1}, RecordsMove(x, s)
  PROVE  /\ rec' \in [Grant -> Record]
         /\ \A g \in Grant \ {x, Root} : rec'[g] = rec[g]
         /\ SameGrant(rec[x], rec'[x]) /\ SameGrant(rec[Root], rec'[Root])
         /\ rec'[x].remaining = rec[x].remaining - s
         /\ rec'[Root].remaining = rec[Root].remaining - s
         /\ rec'[Root].revoked = rec[Root].revoked
<1>1. rec \in [Grant -> Record] /\ x \in Grant /\ Root \in Grant
  BY Identities DEF RunInv, RunTypeOK, Issued
<1>2. rec[x].remaining - 0 = rec[x].remaining /\ rec[Root].remaining - 0 = rec[Root].remaining
  <2>1. rec[x] \in Record /\ rec[Root] \in Record BY <1>1
  <2>2. rec[x].remaining \in Int /\ rec[Root].remaining \in Int BY <2>1 DEF Record
  <2> QED BY <2>2, SMT
<1>3. CASE rec' = rec /\ s = 0 BY <1>1, <1>2, <1>3 DEF SameGrant
<1>4. CASE rec' = Revoked(rec, {x}) /\ s = 0
  <2> DEFINE c == Revoked(rec, {x})
  <2>1. /\ c \in [Grant -> Record] /\ \A h \in Grant \ {x} : c[h] = rec[h]
        /\ SameGrant(rec[x], c[x]) /\ c[x].remaining = rec[x].remaining
    <3>1. c \in [Grant -> Record] /\ \A h \in Grant \ {x} : c[h] = rec[h] BY <1>1, RevokedRecords, SMT
    <3>2. SameGrant(rec[x], c[x]) /\ c[x].remaining = rec[x].remaining
      BY <1>1, RevokedRecords, SMT DEF SameGrant
    <3> QED BY <3>1, <3>2
  <2>2. rec' = c /\ c[Root] = rec[Root] BY <1>1, <1>4, <2>1
  <2> HIDE DEF c
  <2>3. SameGrant(rec[Root], c[Root]) BY <2>2 DEF SameGrant
  <2> QED BY <1>2, <1>4, <2>1, <2>2, <2>3
<1>5. ASSUME NEW d, d = Consumed(rec, x)
      PROVE  /\ d \in [Grant -> Record] /\ \A h \in Grant \ {x, Root} : d[h] = rec[h]
             /\ SameGrant(rec[x], d[x]) /\ SameGrant(rec[Root], d[Root])
             /\ d[x].remaining = rec[x].remaining - 1 /\ d[Root].remaining = rec[Root].remaining - 1
             /\ d[Root].revoked = rec[Root].revoked
  BY <1>5, ConsumedRecords DEF SameGrant
<1>6. CASE rec' = Consumed(rec, x) /\ s = 1 BY <1>5, <1>6
<1>7. CASE rec' = Revoked(Consumed(rec, x), {x}) /\ s = 1
  <2> DEFINE d == Consumed(rec, x)
             c == Revoked(d, {x})
  <2>0. /\ d \in [Grant -> Record] /\ \A h \in Grant \ {x, Root} : d[h] = rec[h]
        /\ SameGrant(rec[x], d[x]) /\ SameGrant(rec[Root], d[Root])
        /\ d[x].remaining = rec[x].remaining - 1 /\ d[Root].remaining = rec[Root].remaining - 1
        /\ d[Root].revoked = rec[Root].revoked
    BY <1>5
  <2> HIDE DEF d
  <2>1. /\ c \in [Grant -> Record] /\ \A h \in Grant \ {x} : c[h] = d[h]
        /\ SameGrant(d[x], c[x]) /\ c[x].remaining = d[x].remaining
    <3>1. c \in [Grant -> Record] /\ \A h \in Grant \ {x} : c[h] = d[h] BY <2>0, RevokedRecords, SMT
    <3>2. SameGrant(d[x], c[x]) /\ c[x].remaining = d[x].remaining
      BY <1>1, <2>0, RevokedRecords, SMT DEF SameGrant
    <3> QED BY <3>1, <3>2
  <2>2. rec' = c /\ c[Root] = d[Root] BY <1>1, <1>7, <2>1 DEF d
  <2> HIDE DEF c
  <2>3. SameGrant(rec[x], c[x]) BY <2>0, <2>1 DEF SameGrant
  <2> QED BY <1>7, <2>0, <2>1, <2>2, <2>3
<1> QED BY <1>3, <1>4, <1>6, <1>7 DEF RecordsMove

(* What keeps the invariant in a step of one agent. *)
LEMMA MoveCarries ==
  ASSUME RunInv, NEW x \in Task \cup RolesOf(phase), x \in Issued(rec), phase # "ended",
         NEW a \in At \ {"new"}, NEW n \in Nat, NEW m \in Nat, NEW s \in {0, 1}, Move(x, a, n, m, s),
         used' \in Int, kill' \in BOOLEAN, failing' \in BOOLEAN, refused' \in BOOLEAN,
         NeverRefusedLate',
         n <= rec[x].max,
         used + (m + Bit(a = "calling")) <= used' + Held[x],
         used' + Entered[x] <= used + (n - Bit(a = "checked")),
         ~rec'[x].revoked \/ (x \in Task /\ a \notin Live),
         x \in Role => /\ a \in {"ready", "calling", "failed"} /\ spent[x] + s = n
                       /\ m + Bit(a = "calling") <= n,
         x \in Task => /\ a # "ready" /\ (a \in Live => x \in Wave)
                       /\ (spent[x] + s) + Bit(a \in Live) <= n
                       /\ m + Bit(a \in {"checked", "calling", "denied"}) <= n
  PROVE  RunInv'
<1>0. x \in Grant /\ x # Root /\ Root \in Grant /\ rec[x].issued BY Identities DEF Issued
<1>1. /\ at' = [at EXCEPT ![x] = a] /\ attempts' = [attempts EXCEPT ![x] = n]
      /\ ran' = [ran EXCEPT ![x] = m] /\ spent' = [spent EXCEPT ![x] = spent[x] + s]
      /\ phase' = phase /\ plan' = plan /\ next' = next /\ before' = before
  BY DEF Move
<1>2. /\ rec' \in [Grant -> Record]
      /\ \A g \in Grant \ {x, Root} : rec'[g] = rec[g]
      /\ SameGrant(rec[x], rec'[x]) /\ SameGrant(rec[Root], rec'[Root])
      /\ rec'[x].remaining = rec[x].remaining - s
      /\ rec'[Root].remaining = rec[Root].remaining - s
      /\ rec'[Root].revoked = rec[Root].revoked
  BY <1>0, MovedRecords DEF Move
<1>3. /\ at \in [Grant -> At] /\ attempts \in [Grant -> Nat] /\ ran \in [Grant -> Nat]
      /\ spent \in [Grant -> Nat] /\ rec[x] \in Record
  BY <1>0 DEF RunInv, RunTypeOK
<1>4. spent[x] \in Nat /\ spent[x] + s \in Nat /\ (spent[x] + s) - spent[x] = s
      /\ rec[x].max \in Nat /\ rec[x].remaining \in Int
  <2>1. spent[x] \in Nat /\ rec[x].max \in Nat /\ rec[x].remaining \in Int BY <1>0, <1>3 DEF Record
  <2> QED BY <2>1, SMT
<1>5. at'[x] = a /\ attempts'[x] = n /\ ran'[x] = m /\ spent'[x] = spent[x] + s
  BY <1>0, <1>1, <1>3
<1>6. \A g \in Grant \ {x} : at'[g] = at[g] /\ attempts'[g] = attempts[g] /\ ran'[g] = ran[g]
                             /\ spent'[g] = spent[g]
  BY <1>1, <1>3
<1>7. RunTypeOK'
  <2>1. at' \in [Grant -> At] /\ attempts' \in [Grant -> Nat] /\ ran' \in [Grant -> Nat]
        /\ spent' \in [Grant -> Nat]
    BY <1>0, <1>1, <1>3, <1>4
  <2> QED BY <1>1, <1>2, <2>1 DEF RunInv, RunTypeOK
<1>8. OneAgent(x)
  <2>1. spent'[x] - spent[x] = s BY <1>4, <1>5
  <2>2. \A g \in Grant \ {x, Root} : SameAgent(g) BY <1>2, <1>6 DEF SameAgent
  <2> QED BY <1>0, <1>1, <1>2, <1>6, <2>1, <2>2 DEF OneAgent, SameGrant
<1>9. KeepsAgent(x)
  <2>1. Unbegun(x)' BY <1>5 DEF Unbegun
  <2>2. Child(x)'
    <3>1. rec[x].parent = Root /\ rec[x].depth = 1 /\ rec[x].remaining = rec[x].max - spent[x]
      BY <1>0 DEF RunInv, AgentsHold, Child
    <3>2. rec[x].remaining - s = rec[x].max - (spent[x] + s) BY <1>4, <3>1, SMT
    <3> QED BY <1>0, <1>2, <1>5, <3>1, <3>2 DEF Child, SameGrant
  <2>3. ASSUME x \in Role PROVE RoleHolds(x)'
    <3>0. RoleHolds(x) BY <2>3 DEF RunInv, AgentsHold
    <3>1. rec[x].max = Calls[x] BY <1>0, <3>0 DEF RoleHolds
    <3>2. x \in RolesOf(phase) /\ x \notin Task BY <2>3, Identities
    <3>3. rec'[x].issued /\ rec'[x].max = Calls[x] BY <1>0, <1>2, <3>1 DEF SameGrant
    <3>4. ~rec'[x].revoked BY <3>2
    <3>5. a \in {"ready", "calling", "failed"} /\ spent[x] + s = n /\ m + Bit(a = "calling") <= n
      BY <2>3
    <3> QED BY <1>1, <1>5, <3>2, <3>3, <3>4, <3>5 DEF RoleHolds
  <2>4. ASSUME x \in Task PROVE TaskHolds(x)'
    <3>0. TaskHolds(x) BY <2>4 DEF RunInv, AgentsHold
    <3>1. Wave' = Wave BY <1>1 DEF Wave
    <3>2. Active(x)' <=> a \in Live BY <1>5 DEF Active, Live
    <3>3. Bit(Active(x)') = Bit(a \in Live) BY <3>2 DEF Bit
    <3>4. rec'[x].issued /\ rec'[x].max > 0 BY <1>0, <1>2, <3>0 DEF SameGrant, TaskHolds
    <3>5. /\ a # "ready" /\ (a \in Live => x \in Wave)
          /\ (spent[x] + s) + Bit(a \in Live) <= n
          /\ m + Bit(a \in {"checked", "calling", "denied"}) <= n
      BY <2>4
    <3>6. a \in Live => ~rec'[x].revoked OBVIOUS
    <3> QED BY <1>5, <3>1, <3>2, <3>3, <3>4, <3>5, <3>6 DEF TaskHolds
  <2> QED BY <2>1, <2>2, <2>3, <2>4 DEF KeepsAgent
<1>10. Held'[x] = m + Bit(a = "calling") /\ Entered'[x] = n - Bit(a = "checked")
  BY <1>0, <1>5 DEF Held, Entered
<1> QED BY <1>7, <1>8, <1>9, <1>10, OneAgentCarries

-----------------------------------------------------------------------------
(* The steps of a specialist. *)

(* A variable that does not change, in the form Move uses. *)
LEMMA Still ==
  ASSUME RunInv, NEW x \in Grant
  PROVE  /\ attempts = [attempts EXCEPT ![x] = attempts[x]]
         /\ ran = [ran EXCEPT ![x] = ran[x]]
         /\ spent = [spent EXCEPT ![x] = spent[x] + 0]
<1>1. attempts \in [Grant -> Nat] /\ ran \in [Grant -> Nat] /\ spent \in [Grant -> Nat]
  BY DEF RunInv, RunTypeOK
<1>2. spent[x] + 0 = spent[x] BY <1>1, SMT
<1> QED BY <1>1, <1>2

(* The tasks of a wave are steps of the plan, whose grants were issued.        *)
LEMMA WaveOfPlan ==
  ASSUME RunInv, phase = "wave"
  PROVE  /\ Wave \subseteq 1 .. Len(plan) /\ Wave \subseteq Task
         /\ \A t \in Wave : t \in Issued(rec)
<1>1. /\ next \in 1 .. Len(plan) /\ 1 .. Len(plan) \subseteq Task
      /\ \A t \in 1 .. Len(plan) : rec[t].issued
  BY DEF RunInv, Spawning
<1>2. Len(plan) \in Nat
  <2>1. plan \in Seq(PlannedStep) BY DEF RunInv, RunTypeOK
  <2> QED BY <2>1, SMT
<1>3. next .. Len(plan) \subseteq 1 .. Len(plan) BY <1>1, <1>2, SMT
<1>4. Wave \subseteq 1 .. Len(plan) BY <1>1, <1>3 DEF Wave, WaveFrom
<1> QED BY <1>1, <1>4, Identities DEF Issued

(* What is known of a task of the wave. *)
LEMMA WaveTask ==
  ASSUME RunInv, NEW t \in Wave
  PROVE  /\ phase = "wave" /\ Working /\ t \in Task /\ t \in Issued(rec) /\ t \in Grant /\ t # Root
         /\ Tree(rec, t) = {t} /\ TaskHolds(t) /\ Allot[t] = rec[t].max
         /\ spent[t] \in Nat /\ attempts[t] \in Nat /\ ran[t] \in Nat /\ used \in Int
         /\ rec[t].max \in Nat /\ rec[t].max > 0 /\ attempts[t] <= rec[t].max
         /\ rec[t].remaining = rec[t].max - spent[t]
         /\ Held[t] = ran[t] + Bit(at[t] = "calling")
         /\ Entered[t] = attempts[t] - Bit(at[t] = "checked")
<1>1. phase = "wave" BY DEF Wave
<1>2. t \in Task /\ t \in Issued(rec) BY <1>1, WaveOfPlan
<1>3. t \in Grant /\ t # Root /\ rec[t].issued /\ t \notin Role BY <1>2, Identities DEF Issued
<1>4. Tree(rec, t) = {t} BY <1>2, <1>3, RunIsFlat, FlatLineage
<1>5. TaskHolds(t) /\ Child(t) BY <1>2, <1>3 DEF RunInv, AgentsHold
<1>6. Allot[t] = rec[t].max BY <1>3, Identities DEF Allot
<1>7. spent[t] \in Nat /\ attempts[t] \in Nat /\ ran[t] \in Nat /\ used \in Int /\ rec[t].max \in Nat
  <2>1. rec[t] \in Record BY <1>3 DEF RunInv, RunTypeOK
  <2>2. rec[t].max \in Nat BY <2>1 DEF Record
  <2> QED BY <1>3, <2>2 DEF RunInv, RunTypeOK
<1>8. rec[t].max > 0 /\ attempts[t] <= rec[t].max /\ rec[t].remaining = rec[t].max - spent[t]
  BY <1>3, <1>5 DEF TaskHolds, Child
<1>9. Held[t] = ran[t] + Bit(at[t] = "calling") /\ Entered[t] = attempts[t] - Bit(at[t] = "checked")
  BY <1>3 DEF Held, Entered
<1>10. Working BY <1>1 DEF Working
<1> QED BY <1>1, <1>2, <1>3, <1>4, <1>5, <1>6, <1>7, <1>8, <1>9, <1>10

(* can_consume is true of a task that has a call left.                         *)
LEMMA Affordable ==
  ASSUME RunInv, NEW t \in Wave, ~rec[t].revoked, spent[t] < rec[t].max
  PROVE  CanConsume(rec, t)
<1>1. /\ phase = "wave" /\ Working /\ t \in Issued(rec) /\ t \in Grant /\ t # Root
      /\ Allot[t] = rec[t].max /\ spent[t] \in Nat /\ rec[t].max \in Nat
      /\ rec[t].remaining = rec[t].max - spent[t]
  BY WaveTask
<1>2. rec[t].remaining > 0 BY <1>1, SMT
<1>3. rec[Root].remaining > 0 BY <1>1, CallsLeft
<1>4. ~rec[Root].revoked BY <1>1 DEF RunInv, RootHolds
<1> QED BY <1>1, <1>2, <1>3, <1>4, RunIsFlat, FlatCanConsume

(* What keeps the invariant in a step of a specialist. *)
LEMMA TaskCarries ==
  ASSUME RunInv, NEW t \in Wave, NEW a \in At \ {"new", "ready"}, NEW n \in Nat, NEW m \in Nat,
         NEW s \in {0, 1}, Move(t, a, n, m, s),
         used' \in Int, kill' \in BOOLEAN, failing' \in BOOLEAN, refused' \in BOOLEAN,
         NeverRefusedLate',
         n <= rec[t].max,
         used + (m + Bit(a = "calling")) <= used' + Held[t],
         used' + Entered[t] <= used + (n - Bit(a = "checked")),
         ~rec'[t].revoked \/ a \notin Live,
         (spent[t] + s) + Bit(a \in Live) <= n,
         m + Bit(a \in {"checked", "calling", "denied"}) <= n
  PROVE  RunInv'
<1>1. phase = "wave" /\ t \in Task /\ t \in Issued(rec) BY WaveTask
<1>2. t \notin Role BY <1>1, Identities
<1> HIDE DEF Bit
<1> QED BY <1>1, <1>2, MoveCarries

(* What a Live specialist has: an attempt that is neither consumed nor given up. *)
LEMMA LiveTask ==
  ASSUME RunInv, NEW t \in Wave, at[t] \in Live
  PROVE  /\ ~rec[t].revoked /\ spent[t] + 1 <= attempts[t] /\ CanConsume(rec, t)
<1>1. /\ phase = "wave" /\ TaskHolds(t) /\ t \in Issued(rec) /\ spent[t] \in Nat
      /\ attempts[t] \in Nat /\ rec[t].max \in Nat /\ attempts[t] <= rec[t].max
  BY WaveTask
<1>2. Active(t) BY DEF Active, Live
<1>3. Bit(Active(t)) = 1 BY <1>2 DEF Bit
<1>4. ~rec[t].revoked /\ spent[t] + 1 <= attempts[t] BY <1>1, <1>2, <1>3 DEF TaskHolds, Issued
<1>5. spent[t] < rec[t].max BY <1>1, <1>4, SMT
<1> QED BY <1>4, <1>5, Affordable

(* A specialist starts, or is skipped. *)
LEMMA StartTaskCarries ==
  ASSUME RunInv, NEW t \in Task, StartTask(t), before' = before
  PROVE  RunInv'
<1>1. /\ t \in Wave /\ at[t] = "new" /\ rec' = rec /\ spent' = spent /\ phase' = phase
      /\ plan' = plan /\ next' = next /\ used' = used /\ kill' = kill /\ ran' = ran
  BY DEF StartTask
<1>2. /\ phase = "wave" /\ Working /\ t \in Issued(rec) /\ t \in Grant /\ t # Root /\ TaskHolds(t)
      /\ Allot[t] = rec[t].max /\ used \in Int /\ rec[t].max \in Nat /\ rec[t].max > 0
      /\ Held[t] = ran[t] + Bit(at[t] = "calling")
      /\ Entered[t] = attempts[t] - Bit(at[t] = "checked")
  BY <1>1, WaveTask
<1>3. attempts[t] = 0 /\ spent[t] = 0 /\ ran[t] = 0 BY <1>1, <1>2 DEF RunInv, AgentsHold, Unbegun
<1>4. Bit(at[t] = "calling") = 0 /\ Bit(at[t] = "checked") = 0 BY <1>1 DEF Bit
<1>5. Held[t] = 0 /\ Entered[t] = 0 BY <1>2, <1>3, <1>4, SMT
<1>6. ~rec[t].revoked /\ rec'[t] = rec[t] BY <1>1, <1>2 DEF TaskHolds, Issued
<1>7. CanConsume(rec, t)
  <2>1. spent[t] < rec[t].max BY <1>2, <1>3, SMT
  <2> QED BY <1>1, <1>6, <2>1, Affordable
<1>8. before = 0 => used < MaxToolCalls
  <2>1. Entered[t] < Allot[t] BY <1>2, <1>5, SMT
  <2> QED BY <1>2, <2>1, CallsLeft
<1>9. kill' \in BOOLEAN /\ failing \in BOOLEAN /\ refused \in BOOLEAN BY <1>1 DEF RunInv, RunTypeOK
<1>11. before = 0 => ~refused BY DEF RunInv, NeverRefusedLate
<1>12. 0 + 0 = 0 /\ 0 + 1 = 1 /\ 0 + 0 <= 1 /\ 0 + 0 <= 0 /\ 1 - 1 = 0 /\ 0 - 0 = 0 /\ 1 - 0 = 1
       /\ 0 \in Nat /\ 1 \in Nat /\ (0 + 0) + 1 <= 1 /\ (0 + 0) + 0 <= 1 /\ 0 + 1 <= 1
       /\ (0 + 0) + 0 <= 0 /\ 0 \in {0, 1}
  BY SMT
<1>13. used + 0 <= used + 0 /\ used + 0 <= used + 1 /\ 0 <= rec[t].max /\ 1 <= rec[t].max
  BY <1>2, SMT
<1>14. CASE kill
  <2>1. at' = [at EXCEPT ![t] = "skipped"] /\ attempts' = attempts /\ failing' = failing /\ refused' = refused
    BY <1>14 DEF StartTask
  <2>2. Move(t, "skipped", 0, 0, 0)
    BY <1>1, <1>2, <1>3, <2>1, Still DEF Move, RecordsMove
  <2>3. NeverRefusedLate' BY <1>11, <2>1 DEF NeverRefusedLate
  <2>4. /\ Bit("skipped" = "calling") = 0 /\ Bit("skipped" = "checked") = 0
        /\ Bit("skipped" \in Live) = 0 /\ Bit("skipped" \in {"checked", "calling", "denied"}) = 0
    BY DEF Bit, Live
  <2>5. "skipped" \in At \ {"new", "ready"} /\ "skipped" \notin Live BY DEF At, Live
  <2> QED BY <1>1, <1>2, <1>3, <1>5, <1>6, <1>9, <1>12, <1>13, <2>1, <2>2, <2>3, <2>4, <2>5, TaskCarries
<1>15. CASE ~kill
  <2>1. Attempt(rec, t) BY <1>15 DEF StartTask
  <2>2. CASE used < MaxToolCalls
    <3>1. at' = [at EXCEPT ![t] = "checked"] /\ attempts' = [attempts EXCEPT ![t] = 1]
          /\ failing' = failing /\ refused' = refused
      BY <1>3, <1>7, <1>9, <1>12, <2>1, <2>2 DEF Attempt
    <3>2. Move(t, "checked", 1, 0, 0)
      BY <1>1, <1>2, <1>3, <3>1, Still DEF Move, RecordsMove
    <3>3. NeverRefusedLate' BY <1>11, <3>1 DEF NeverRefusedLate
    <3>4. /\ Bit("checked" = "calling") = 0 /\ Bit("checked" = "checked") = 1
          /\ Bit("checked" \in Live) = 1 /\ Bit("checked" \in {"checked", "calling", "denied"}) = 1
      BY DEF Bit, Live
    <3>5. "checked" \in At \ {"new", "ready"} BY DEF At
    <3> QED BY <1>1, <1>2, <1>3, <1>5, <1>6, <1>9, <1>12, <1>13, <3>1, <3>2, <3>3, <3>4, <3>5, TaskCarries
  <2>3. CASE ~(used < MaxToolCalls)
    <3>1. at' = [at EXCEPT ![t] = "failed"] /\ attempts' = [attempts EXCEPT ![t] = 1]
          /\ failing' = TRUE /\ refused' = TRUE
      BY <1>3, <1>12, <2>1, <2>3 DEF Attempt
    <3>2. Move(t, "failed", 1, 0, 0)
      BY <1>1, <1>2, <1>3, <3>1, Still DEF Move, RecordsMove
    <3>3. NeverRefusedLate' BY <1>8, <2>3 DEF NeverRefusedLate
    <3>4. /\ Bit("failed" = "calling") = 0 /\ Bit("failed" = "checked") = 0
          /\ Bit("failed" \in Live) = 0 /\ Bit("failed" \in {"checked", "calling", "denied"}) = 0
      BY DEF Bit, Live
    <3>5. "failed" \in At \ {"new", "ready"} /\ "failed" \notin Live BY DEF At, Live
    <3> QED BY <1>1, <1>2, <1>3, <1>5, <1>6, <1>9, <1>12, <1>13, <3>1, <3>2, <3>3, <3>4, <3>5, TaskCarries
  <2> QED BY <2>2, <2>3
<1> QED BY <1>14, <1>15

(* A specialist enters the Gateway, or its reservation is refused. *)
LEMMA EnterGatewayCarries ==
  ASSUME RunInv, NEW t \in Task, EnterGateway(t), before' = before
  PROVE  RunInv'
<1>1. /\ t \in Wave /\ at[t] = "checked" /\ rec' = rec /\ spent' = spent /\ phase' = phase
      /\ plan' = plan /\ next' = next /\ attempts' = attempts /\ kill' = kill /\ ran' = ran
  BY DEF EnterGateway
<1>2. /\ Working /\ t \in Grant /\ TaskHolds(t) /\ Allot[t] = rec[t].max
      /\ spent[t] \in Nat /\ attempts[t] \in Nat /\ ran[t] \in Nat /\ used \in Int
      /\ rec[t].max \in Nat /\ attempts[t] <= rec[t].max
      /\ Held[t] = ran[t] + Bit(at[t] = "calling")
      /\ Entered[t] = attempts[t] - Bit(at[t] = "checked")
  BY <1>1, WaveTask
<1>3. Bit(at[t] = "calling") = 0 /\ Bit(at[t] = "checked") = 1
      /\ Bit(at[t] \in {"checked", "calling", "denied"}) = 1
  BY <1>1 DEF Bit
<1>4. ~rec[t].revoked /\ spent[t] + 1 <= attempts[t] BY <1>1, LiveTask DEF Live
<1>5. ran[t] + 1 <= attempts[t] BY <1>2, <1>3 DEF TaskHolds
<1>6. before = 0 => used < MaxToolCalls
  <2>1. Entered[t] < Allot[t] BY <1>2, <1>3, SMT
  <2> QED BY <1>2, <2>1, CallsLeft
<1>7. kill' \in BOOLEAN /\ failing \in BOOLEAN /\ refused \in BOOLEAN BY <1>1 DEF RunInv, RunTypeOK
<1>8. before = 0 => ~refused BY DEF RunInv, NeverRefusedLate
<1>9. 0 \in {0, 1} /\ used + 1 \in Int BY <1>2, SMT
<1>10. CASE used < MaxToolCalls
  <2>1. at' = [at EXCEPT ![t] = "calling"] /\ used' = used + 1 /\ failing' = failing /\ refused' = refused
    BY <1>7, <1>10 DEF EnterGateway
  <2>2. Move(t, "calling", attempts[t], ran[t], 0) BY <1>1, <1>2, <2>1, Still DEF Move, RecordsMove
  <2>3. NeverRefusedLate' BY <1>8, <2>1 DEF NeverRefusedLate
  <2>4. /\ Bit("calling" = "calling") = 1 /\ Bit("calling" = "checked") = 0
        /\ Bit("calling" \in Live) = 1 /\ Bit("calling" \in {"checked", "calling", "denied"}) = 1
    BY DEF Bit, Live
  <2>5. "calling" \in At \ {"new", "ready"} BY DEF At
  <2>6. /\ used + (ran[t] + 1) <= used' + Held[t] /\ used' + Entered[t] <= used + (attempts[t] - 0)
        /\ (spent[t] + 0) + 1 <= attempts[t]
    BY <1>2, <1>3, <1>4, <2>1, SMT
  <2> QED BY <1>1, <1>2, <1>4, <1>5, <1>7, <1>9, <2>1, <2>2, <2>3, <2>4, <2>5, <2>6, TaskCarries
<1>11. CASE ~(used < MaxToolCalls)
  <2>1. at' = [at EXCEPT ![t] = "failed"] /\ used' = used /\ failing' = TRUE /\ refused' = TRUE
    BY <1>11 DEF EnterGateway
  <2>2. Move(t, "failed", attempts[t], ran[t], 0) BY <1>1, <1>2, <2>1, Still DEF Move, RecordsMove
  <2>3. NeverRefusedLate' BY <1>6, <1>11 DEF NeverRefusedLate
  <2>4. /\ Bit("failed" = "calling") = 0 /\ Bit("failed" = "checked") = 0
        /\ Bit("failed" \in Live) = 0 /\ Bit("failed" \in {"checked", "calling", "denied"}) = 0
    BY DEF Bit, Live
  <2>5. "failed" \in At \ {"new", "ready"} /\ "failed" \notin Live BY DEF At, Live
  <2>6. /\ used + (ran[t] + 0) <= used' + Held[t] /\ used' + Entered[t] <= used + (attempts[t] - 0)
        /\ (spent[t] + 0) + 0 <= attempts[t] /\ ran[t] + 0 <= attempts[t]
    BY <1>2, <1>3, <1>4, <1>5, <2>1, SMT
  <2> QED BY <1>1, <1>2, <1>7, <1>9, <2>1, <2>2, <2>3, <2>4, <2>5, <2>6, TaskCarries
<1> QED BY <1>10, <1>11

(* The Gateway returns, with the call executed or not. *)
LEMMA GatewayReturnsCarries ==
  ASSUME RunInv, NEW t \in Task, NEW executed \in BOOLEAN, GatewayReturns(t, executed), before' = before
  PROVE  RunInv'
<1>1. /\ t \in Wave /\ at[t] = "calling" /\ rec' = rec /\ spent' = spent /\ phase' = phase
      /\ plan' = plan /\ next' = next /\ attempts' = attempts /\ kill' = kill
      /\ failing' = failing /\ refused' = refused
  BY DEF GatewayReturns
<1>2. /\ t \in Grant /\ TaskHolds(t)
      /\ spent[t] \in Nat /\ attempts[t] \in Nat /\ ran[t] \in Nat /\ used \in Int
      /\ attempts[t] <= rec[t].max
      /\ Held[t] = ran[t] + Bit(at[t] = "calling")
      /\ Entered[t] = attempts[t] - Bit(at[t] = "checked")
  BY <1>1, WaveTask
<1>3. Bit(at[t] = "calling") = 1 /\ Bit(at[t] = "checked") = 0
      /\ Bit(at[t] \in {"checked", "calling", "denied"}) = 1
  BY <1>1 DEF Bit
<1>4. ~rec[t].revoked /\ spent[t] + 1 <= attempts[t] BY <1>1, LiveTask DEF Live
<1>5. ran[t] + 1 <= attempts[t] BY <1>2, <1>3 DEF TaskHolds
<1>6. kill' \in BOOLEAN /\ failing' \in BOOLEAN /\ refused' \in BOOLEAN BY <1>1 DEF RunInv, RunTypeOK
<1>7. NeverRefusedLate' BY <1>1 DEF RunInv, NeverRefusedLate
<1>8. 0 \in {0, 1} /\ used - 1 \in Int /\ ran[t] + 1 \in Nat BY <1>2, SMT
<1>9. CASE executed
  <2>1. at' = [at EXCEPT ![t] = "returned"] /\ used' = used /\ ran' = [ran EXCEPT ![t] = ran[t] + 1]
    BY <1>9 DEF GatewayReturns
  <2>2. Move(t, "returned", attempts[t], ran[t] + 1, 0) BY <1>1, <1>2, <2>1, Still DEF Move, RecordsMove
  <2>4. /\ Bit("returned" = "calling") = 0 /\ Bit("returned" = "checked") = 0
        /\ Bit("returned" \in Live) = 1 /\ Bit("returned" \in {"checked", "calling", "denied"}) = 0
    BY DEF Bit, Live
  <2>5. "returned" \in At \ {"new", "ready"} BY DEF At
  <2>6. /\ used + ((ran[t] + 1) + 0) <= used' + Held[t] /\ used' + Entered[t] <= used + (attempts[t] - 0)
        /\ (spent[t] + 0) + 1 <= attempts[t] /\ (ran[t] + 1) + 0 <= attempts[t]
    BY <1>2, <1>3, <1>4, <1>5, <2>1, SMT
  <2> QED BY <1>1, <1>2, <1>4, <1>6, <1>7, <1>8, <2>1, <2>2, <2>4, <2>5, <2>6, TaskCarries
<1>10. CASE ~executed
  <2>1. at' = [at EXCEPT ![t] = "denied"] /\ used' = used - 1 /\ ran' = ran
    BY <1>10 DEF GatewayReturns
  <2>2. Move(t, "denied", attempts[t], ran[t], 0) BY <1>1, <1>2, <2>1, Still DEF Move, RecordsMove
  <2>4. /\ Bit("denied" = "calling") = 0 /\ Bit("denied" = "checked") = 0
        /\ Bit("denied" \in Live) = 1 /\ Bit("denied" \in {"checked", "calling", "denied"}) = 1
    BY DEF Bit, Live
  <2>5. "denied" \in At \ {"new", "ready"} BY DEF At
  <2>6. /\ used + (ran[t] + 0) <= used' + Held[t] /\ used' + Entered[t] <= used + (attempts[t] - 0)
        /\ (spent[t] + 0) + 1 <= attempts[t]
    BY <1>2, <1>3, <1>4, <1>5, <2>1, SMT
  <2> QED BY <1>1, <1>2, <1>4, <1>5, <1>6, <1>7, <1>8, <2>1, <2>2, <2>4, <2>5, <2>6, TaskCarries
<1> QED BY <1>9, <1>10

(* A task that gives up: what it held stays charged. *)
LEMMA GivesUp ==
  ASSUME RunInv, NEW t \in Wave, NEW a \in {"failed", "done"},
         at' = [at EXCEPT ![t] = a],
         rec' = rec \/ rec' = Revoked(rec, Tree(rec, t)),
         kill' \in BOOLEAN, failing' \in BOOLEAN,
         UNCHANGED <<spent, phase, plan, next, attempts, used, ran, refused, before>>
  PROVE  RunInv'
<1>1. /\ spent' = spent /\ phase' = phase /\ plan' = plan /\ next' = next /\ attempts' = attempts
      /\ used' = used /\ ran' = ran /\ refused' = refused /\ before' = before
  OBVIOUS
<1>2. /\ t \in Grant /\ Tree(rec, t) = {t}
      /\ spent[t] \in Nat /\ attempts[t] \in Nat /\ ran[t] \in Nat /\ used \in Int
      /\ attempts[t] <= rec[t].max
      /\ Held[t] = ran[t] + Bit(at[t] = "calling")
      /\ Entered[t] = attempts[t] - Bit(at[t] = "checked")
  BY WaveTask
<1>3. Bit(at[t] = "calling") \in {0, 1} /\ Bit(at[t] = "checked") \in {0, 1} BY DEF Bit
<1>4. spent[t] <= attempts[t] /\ ran[t] <= attempts[t] BY <1>2, AgentNumbers DEF RunInv
<1>5. Move(t, a, attempts[t], ran[t], 0) BY <1>1, <1>2, Still DEF Move, RecordsMove
<1>6. refused' \in BOOLEAN BY <1>1 DEF RunInv, RunTypeOK
<1>7. NeverRefusedLate'
  <2>1. before = 0 => ~refused BY DEF RunInv, NeverRefusedLate
  <2> QED BY <1>1, <2>1, SMT DEF NeverRefusedLate
<1>8. 0 \in {0, 1} OBVIOUS
<1>9. /\ Bit(a = "calling") = 0 /\ Bit(a = "checked") = 0
      /\ Bit(a \in Live) = 0 /\ Bit(a \in {"checked", "calling", "denied"}) = 0
  BY DEF Bit, Live
<1>10. a \in At \ {"new", "ready"} /\ a \notin Live BY DEF At, Live
<1>11. /\ used + (ran[t] + 0) <= used' + Held[t] /\ used' + Entered[t] <= used + (attempts[t] - 0)
       /\ (spent[t] + 0) + 0 <= attempts[t] /\ ran[t] + 0 <= attempts[t]
  BY <1>1, <1>2, <1>3, <1>4, SMT
<1> QED BY <1>1, <1>2, <1>5, <1>6, <1>7, <1>8, <1>9, <1>10, <1>11, TaskCarries

(* The Gateway raises, the task is stopped, or its call was not executed. *)
LEMMA GivingUpCarries ==
  ASSUME RunInv, NEW t \in Task, before' = before,
         GatewayRaises(t) \/ StopTask(t) \/ \E stop \in BOOLEAN : ResumeDenied(t, stop)
  PROVE  RunInv'
<1>0. kill \in BOOLEAN /\ failing \in BOOLEAN BY DEF RunInv, RunTypeOK
<1>1. CASE GatewayRaises(t)
  <2>1. kill' \in BOOLEAN /\ failing' \in BOOLEAN BY <1>0, <1>1 DEF GatewayRaises
  <2> QED BY <1>1, <2>1, GivesUp DEF GatewayRaises
<1>2. CASE StopTask(t)
  <2>1. kill' \in BOOLEAN /\ failing' \in BOOLEAN BY <1>0, <1>2 DEF StopTask
  <2> QED BY <1>2, <2>1, GivesUp DEF StopTask
<1>3. ASSUME NEW stop \in BOOLEAN, ResumeDenied(t, stop) PROVE RunInv'
  <2>1. kill' \in BOOLEAN /\ failing' \in BOOLEAN BY <1>0, <1>3 DEF ResumeDenied
  <2> QED BY <1>3, <2>1, GivesUp DEF ResumeDenied
<1> QED BY <1>1, <1>2, <1>3

\* What is left of a limit m when the agents hold b of it, and one of them, which
\* holds x, takes y in its place: the sum becomes a.
LEMMA LeftOver ==
  ASSUME NEW m \in Int, NEW a \in Nat, NEW b \in Nat, NEW x \in Nat, NEW y \in Nat, a + x = b + y
  PROVE  /\ a <= m /\ x = 0 => y <= m - b /\ y <= m
         /\ a < m /\ y = x + 1 => (m - b) - 1 > 0
BY SMT

(* A specialist that may retry can pay for two calls more: the one it was      *)
(* executed and the next.                                                     *)
LEMMA CanRetry ==
  ASSUME RunInv, NEW t \in Wave, at[t] = "returned", attempts[t] < rec[t].max
  PROVE  CanConsume(Consumed(rec, t), t)
<1>1. /\ phase = "wave" /\ Working /\ t \in Issued(rec) /\ t \in Grant /\ t # Root
      /\ Allot[t] = rec[t].max /\ spent[t] \in Nat /\ rec[t].max \in Nat /\ attempts[t] \in Nat
      /\ rec[t].remaining = rec[t].max - spent[t]
  BY WaveTask
<1>2. ~rec[t].revoked /\ spent[t] + 1 <= attempts[t] BY LiveTask DEF Live
<1>3. ~rec[Root].revoked /\ rec[Root].remaining = MaxToolCalls - SumOf(spent, Grant)
  BY <1>1 DEF RunInv, RootHolds
<1> DEFINE c == Consumed(rec, t)
           v == [spent EXCEPT ![t] = spent[t] + 1]
<1>4. /\ \A h \in Grant \ {t, Root} : c[h] = rec[h]
      /\ \A h \in {t, Root} :
           /\ c[h].issued = rec[h].issued /\ c[h].parent = rec[h].parent /\ c[h].depth = rec[h].depth
           /\ c[h].revoked = rec[h].revoked /\ c[h].remaining = rec[h].remaining - 1
  BY <1>1, ConsumedRecords
<1> HIDE DEF c
<1>5. Flat(c)
  <2>1. Flat(rec) BY RunIsFlat
  <2>2. ASSUME NEW g \in Grant \ {Root}, c[g].issued PROVE c[g].parent = Root /\ c[g].depth = 1
    <3>1. c[g].issued = rec[g].issued /\ c[g].parent = rec[g].parent /\ c[g].depth = rec[g].depth
      BY <1>4
    <3> QED BY <2>1, <2>2, <3>1 DEF Flat
  <2>3. c[Root].issued /\ c[Root].parent = NoParent /\ c[Root].depth = 0 BY <1>4, <2>1 DEF Flat
  <2>4. MaxDepth >= 1 BY <2>1 DEF Flat
  <2> QED BY <2>2, <2>3, <2>4 DEF Flat
<1>6. t \in Issued(c) /\ ~c[t].revoked /\ ~c[Root].revoked BY <1>1, <1>2, <1>3, <1>4 DEF Issued
<1>7. c[t].remaining > 0
  <2>1. c[t].remaining = rec[t].remaining - 1 BY <1>4
  <2> QED BY <1>1, <1>2, <2>1, SMT
<1>8. c[Root].remaining > 0
  <2>0. spent \in [Grant -> Nat] BY DEF RunInv, RunTypeOK
  <2>1. v[t] = spent[t] + 1 /\ \A g \in Grant \ {t} : v[g] = spent[g] BY <1>1, <2>0
  <2>2. spent[t] + 1 \in Nat /\ spent[t] + 1 < Allot[t] /\ spent[t] + 1 <= Allot[t] BY <1>1, <1>2, SMT
  <2>3. ASSUME NEW g \in Grant PROVE v[g] \in Nat /\ v[g] <= Allot[g]
    <3>1. CASE g = t BY <2>1, <2>2, <3>1
    <3>2. CASE g # t
      <4>1. /\ spent[g] \in Nat /\ attempts[g] \in Nat /\ Allot[g] \in Nat
            /\ spent[g] <= attempts[g] /\ attempts[g] <= Allot[g]
        BY AgentNumbers DEF RunInv
      <4>2. v[g] = spent[g] BY <2>1, <3>2
      <4> QED BY <4>1, <4>2, SMT
    <3> QED BY <3>1, <3>2
  <2>4. v[t] < Allot[t] BY <2>1, <2>2
  <2> HIDE DEF v
  <2>5. SumOf(v, Grant) \in Nat /\ SumOf(v, Grant) < MaxToolCalls
    BY <1>1, <2>3, <2>4, WithinAllotment
  <2>6. Weighed(v, Grant) /\ Weighed(spent, Grant) BY <2>0, <2>3, GrantFinite DEF Weighed
  <2>7. Shifts(v, spent, Grant, t) BY <1>1, <2>1, <2>6, SumChange
  <2>8. SumOf(v, Grant) + spent[t] = SumOf(spent, Grant) + v[t] BY <2>7 DEF Shifts
  <2>9. SumOf(spent, Grant) \in Nat BY <2>6, SumStep
  <2>10. c[Root].remaining = rec[Root].remaining - 1 BY <1>4
  <2>11. MaxToolCalls \in Int /\ spent[t] \in Nat /\ v[t] \in Nat BY <1>1, <2>0, <2>3, CapabilityAssumption, SMT
  <2> QED BY <1>3, <2>1, <2>5, <2>8, <2>9, <2>10, <2>11, LeftOver
<1> QED BY <1>1, <1>5, <1>6, <1>7, <1>8, FlatCanConsume DEF c

(* A specialist resumes with an executed call. *)
LEMMA ResumeCarries ==
  ASSUME RunInv, NEW t \in Task, NEW success \in BOOLEAN, NEW stop \in BOOLEAN,
         Resume(t, success, stop), before' = before
  PROVE  RunInv'
<1>1. /\ t \in Wave /\ at[t] = "returned" /\ phase' = phase /\ plan' = plan /\ next' = next
      /\ used' = used /\ ran' = ran
  BY DEF Resume
<1>2. /\ Working /\ t \in Grant /\ t # Root /\ t \in Issued(rec) /\ TaskHolds(t)
      /\ Allot[t] = rec[t].max /\ Tree(rec, t) = {t}
      /\ spent[t] \in Nat /\ attempts[t] \in Nat /\ ran[t] \in Nat /\ used \in Int
      /\ rec[t].max \in Nat /\ attempts[t] <= rec[t].max
      /\ Held[t] = ran[t] + Bit(at[t] = "calling")
      /\ Entered[t] = attempts[t] - Bit(at[t] = "checked")
  BY <1>1, WaveTask
<1>3. Bit(at[t] = "calling") = 0 /\ Bit(at[t] = "checked") = 0 BY <1>1 DEF Bit
<1>4. ~rec[t].revoked /\ spent[t] + 1 <= attempts[t] /\ CanConsume(rec, t) BY <1>1, LiveTask DEF Live
<1>5. ran[t] <= attempts[t] BY <1>2, AgentNumbers DEF RunInv
<1>6. spent' = [spent EXCEPT ![t] = spent[t] + 1] /\ kill' = (kill \/ stop) BY <1>4 DEF Resume
<1>7. kill' \in BOOLEAN /\ failing \in BOOLEAN /\ refused \in BOOLEAN BY <1>6 DEF RunInv, RunTypeOK
<1>8. before = 0 => ~refused BY DEF RunInv, NeverRefusedLate
<1>9. 1 \in {0, 1} OBVIOUS
<1>10. CASE success \/ ~MayRetry(t)
  <2>1. rec' = Revoked(Consumed(rec, t), {t}) /\ at' = [at EXCEPT ![t] = "done"]
        /\ attempts' = attempts /\ failing' = failing /\ refused' = refused
    BY <1>2, <1>4, <1>10 DEF Resume
  <2>2. Move(t, "done", attempts[t], ran[t], 1) BY <1>1, <1>2, <1>6, <2>1, Still DEF Move, RecordsMove
  <2>3. NeverRefusedLate' BY <1>8, <2>1 DEF NeverRefusedLate
  <2>4. /\ Bit("done" = "calling") = 0 /\ Bit("done" = "checked") = 0
        /\ Bit("done" \in Live) = 0 /\ Bit("done" \in {"checked", "calling", "denied"}) = 0
    BY DEF Bit, Live
  <2>5. "done" \in At \ {"new", "ready"} /\ "done" \notin Live BY DEF At, Live
  <2>6. /\ used + (ran[t] + 0) <= used' + Held[t] /\ used' + Entered[t] <= used + (attempts[t] - 0)
        /\ (spent[t] + 1) + 0 <= attempts[t] /\ ran[t] + 0 <= attempts[t]
    BY <1>1, <1>2, <1>3, <1>4, <1>5, SMT
  <2> QED BY <1>1, <1>2, <1>7, <1>9, <2>1, <2>2, <2>3, <2>4, <2>5, <2>6, TaskCarries
<1>11. CASE ~(success \/ ~MayRetry(t))
  <2>1. rec' = Consumed(rec, t) /\ Attempt(Consumed(rec, t), t) BY <1>4, <1>11 DEF Resume
  <2>2. attempts[t] < rec[t].max BY <1>11 DEF MayRetry
  <2>3. CanConsume(Consumed(rec, t), t) BY <1>1, <2>2, CanRetry
  <2>4. before = 0 => used < MaxToolCalls
    <3>1. Entered[t] < Allot[t] BY <1>2, <1>3, <2>2, SMT
    <3> QED BY <1>2, <3>1, CallsLeft
  <2>5. attempts' = [attempts EXCEPT ![t] = attempts[t] + 1] BY <2>1 DEF Attempt
  <2>6. attempts[t] + 1 \in Nat /\ attempts[t] + 1 <= rec[t].max BY <1>2, <2>2, SMT
  <2>7. ~rec'[t].revoked
    <3>1. Consumed(rec, t)[t].revoked = rec[t].revoked BY <1>2, ConsumedRecords
    <3> QED BY <1>4, <2>1, <3>1
  <2>8. CASE used < MaxToolCalls
    <3>1. at' = [at EXCEPT ![t] = "checked"] /\ failing' = failing /\ refused' = refused
      BY <1>7, <2>1, <2>3, <2>8 DEF Attempt
    <3>2. Move(t, "checked", attempts[t] + 1, ran[t], 1)
      BY <1>1, <1>2, <1>6, <2>1, <2>5, <3>1, Still DEF Move, RecordsMove
    <3>3. NeverRefusedLate' BY <1>8, <3>1 DEF NeverRefusedLate
    <3>4. /\ Bit("checked" = "calling") = 0 /\ Bit("checked" = "checked") = 1
          /\ Bit("checked" \in Live) = 1 /\ Bit("checked" \in {"checked", "calling", "denied"}) = 1
      BY DEF Bit, Live
    <3>5. "checked" \in At \ {"new", "ready"} BY DEF At
    <3>6. /\ used + (ran[t] + 0) <= used' + Held[t]
          /\ used' + Entered[t] <= used + ((attempts[t] + 1) - 1)
          /\ (spent[t] + 1) + 1 <= attempts[t] + 1 /\ ran[t] + 1 <= attempts[t] + 1
      BY <1>1, <1>2, <1>3, <1>4, <1>5, SMT
    <3> QED BY <1>1, <1>2, <1>7, <1>9, <2>6, <2>7, <3>1, <3>2, <3>3, <3>4, <3>5, <3>6, TaskCarries
  <2>9. CASE ~(used < MaxToolCalls)
    <3>1. at' = [at EXCEPT ![t] = "failed"] /\ failing' = TRUE /\ refused' = TRUE
      BY <2>1, <2>9 DEF Attempt
    <3>2. Move(t, "failed", attempts[t] + 1, ran[t], 1)
      BY <1>1, <1>2, <1>6, <2>1, <2>5, <3>1, Still DEF Move, RecordsMove
    <3>3. NeverRefusedLate' BY <2>4, <2>9 DEF NeverRefusedLate
    <3>4. /\ Bit("failed" = "calling") = 0 /\ Bit("failed" = "checked") = 0
          /\ Bit("failed" \in Live) = 0 /\ Bit("failed" \in {"checked", "calling", "denied"}) = 0
      BY DEF Bit, Live
    <3>5. "failed" \in At \ {"new", "ready"} /\ "failed" \notin Live BY DEF At, Live
    <3>6. /\ used + (ran[t] + 0) <= used' + Held[t]
          /\ used' + Entered[t] <= used + ((attempts[t] + 1) - 0)
          /\ (spent[t] + 1) + 0 <= attempts[t] + 1 /\ ran[t] + 0 <= attempts[t] + 1
      BY <1>1, <1>2, <1>3, <1>4, <1>5, SMT
    <3> QED BY <1>1, <1>2, <1>7, <1>9, <2>6, <2>7, <3>1, <3>2, <3>3, <3>4, <3>5, <3>6, TaskCarries
  <2> QED BY <2>8, <2>9
<1> QED BY <1>10, <1>11

(* Every step of a specialist keeps the invariant. *)
LEMMA TaskStepCarries ==
  ASSUME RunInv, NEW t \in Task, TaskStep(t), before' = before
  PROVE  RunInv'
BY StartTaskCarries, EnterGatewayCarries, GatewayReturnsCarries, GivingUpCarries, ResumeCarries
   DEF TaskStep

-----------------------------------------------------------------------------
(* The end of a run. *)

(* Nobody is in a call when the wave is over and no Provider is called.        *)
LEMMA Idle ==
  ASSUME RunInv, \A t \in Wave : at[t] \notin Live, \A r \in RolesOf(phase) : at[r] # "calling",
         NEW g \in Grant
  PROVE  at[g] \notin Live
<1>1. CASE g = Root BY <1>1 DEF RunInv, AgentsHold, Live
<1>2. CASE g \in Role
  <2>1. RoleHolds(g) BY <1>2 DEF RunInv, AgentsHold
  <2> QED BY <2>1 DEF RoleHolds, Live
<1>3. CASE g \in Task
  <2>1. TaskHolds(g) BY <1>3 DEF RunInv, AgentsHold
  <2> QED BY <2>1 DEF TaskHolds, Active, Live
<1> QED BY <1>1, <1>2, <1>3 DEF Task

\* Nobody is in a call afterwards; a call in flight was drained.
Drained ==
  \A g \in Grant : /\ at'[g] \in At /\ at'[g] \notin Live
                   /\ at'[g] = at[g] \/ (at[g] = "calling" /\ at'[g] = "failed")

(* The end keeps the agents' part of the invariant. *)
LEMMA AgentsEnd ==
  ASSUME RunInv, phase' = "ended", Drained, rec \in [Grant -> Record],
         rec' = Revoked(rec, Issued(rec)),
         spent' = spent, attempts' = attempts, ran' = ran
  PROVE  AgentsHold'
<1>1. ASSUME NEW g \in Grant
      PROVE  /\ rec'[g].issued = rec[g].issued /\ rec'[g].parent = rec[g].parent
             /\ rec'[g].depth = rec[g].depth /\ rec'[g].max = rec[g].max
             /\ rec'[g].remaining = rec[g].remaining
             /\ ~rec[g].issued => rec'[g] = rec[g]
  <2>1. /\ Revoked(rec, Issued(rec))[g].issued = rec[g].issued
        /\ Revoked(rec, Issued(rec))[g].parent = rec[g].parent
        /\ Revoked(rec, Issued(rec))[g].depth = rec[g].depth
        /\ Revoked(rec, Issued(rec))[g].max = rec[g].max
        /\ Revoked(rec, Issued(rec))[g].remaining = rec[g].remaining
    BY RevokedRecords, SMT
  <2>2. ~rec[g].issued => Revoked(rec, Issued(rec))[g] = rec[g] BY DEF Revoked, Issued
  <2> QED BY <2>1, <2>2
<1>2. ASSUME NEW g \in Grant
      PROVE  /\ at'[g] \notin Live
             /\ at'[g] = at[g] \/ (at[g] = "calling" /\ at'[g] = "failed")
  BY DEF Drained
<1>3. ASSUME NEW g \in Grant PROVE Unbegun(g)'
  <2>1. Unbegun(g) BY DEF RunInv, AgentsHold
  <2> QED BY <1>2, <2>1 DEF Unbegun
<1>4. ASSUME NEW g \in Grant \ {Root} PROVE Child(g)'
  <2>1. Child(g) BY DEF RunInv, AgentsHold
  <2> QED BY <1>1, <1>2, <2>1 DEF Child
<1>5. ASSUME NEW r \in Role PROVE RoleHolds(r)'
  <2>0. r \in Grant BY Identities
  <2>1. RoleHolds(r) BY DEF RunInv, AgentsHold
  <2>2. RolesOf(phase') = {} BY DEF RolesOf
  <2>3. at'[r] # "calling" /\ Bit(at'[r] = "calling") = 0 BY <1>2, <2>0 DEF Live, Bit
  <2>4. ran[r] + 0 <= attempts[r]
    <3>1. ran[r] \in Nat /\ attempts[r] \in Nat /\ ran[r] <= attempts[r] BY <2>0, AgentNumbers DEF RunInv
    <3> QED BY <3>1, SMT
  <2>5. /\ at'[r] \in {"new", "ready", "calling", "failed"} /\ (rec'[r].issued <=> at'[r] # "new")
        /\ rec'[r].issued => rec'[r].max = Calls[r]
    BY <1>1, <1>2, <2>0, <2>1 DEF RoleHolds
  <2>6. spent'[r] = attempts'[r] BY <2>1 DEF RoleHolds
  <2> QED BY <2>2, <2>3, <2>4, <2>5, <2>6 DEF RoleHolds
<1>6. ASSUME NEW t \in Task PROVE TaskHolds(t)'
  <2>0. t \in Grant BY Identities
  <2>1. TaskHolds(t) BY DEF RunInv, AgentsHold
  <2>2. ~Active(t)' /\ at'[t] \notin {"checked", "calling", "denied"} BY <1>2, <2>0 DEF Active, Live
  <2>3. Bit(Active(t)') = 0 /\ Bit(at'[t] \in {"checked", "calling", "denied"}) = 0 BY <2>2 DEF Bit
  <2>4. spent[t] + 0 <= attempts[t] /\ ran[t] + 0 <= attempts[t]
    <3>1. /\ spent[t] \in Nat /\ ran[t] \in Nat /\ attempts[t] \in Nat
          /\ spent[t] <= attempts[t] /\ ran[t] <= attempts[t]
      BY <2>0, AgentNumbers DEF RunInv
    <3> QED BY <3>1, SMT
  <2>5. at'[t] # "ready" /\ (rec'[t].issued => rec'[t].max > 0)
    BY <1>1, <1>2, <2>0, <2>1 DEF TaskHolds
  <2> QED BY <2>2, <2>3, <2>4, <2>5 DEF TaskHolds
<1>7. at'[Root] = "new" BY <1>2, Identities DEF RunInv, AgentsHold
<1> QED BY <1>3, <1>4, <1>5, <1>6, <1>7 DEF AgentsHold

(* The end of the run keeps the invariant. *)
LEMMA EndCarries ==
  ASSUME RunInv, End, Drained, at' \in [Grant -> At], NeverRefusedLate',
         spent' = spent, attempts' = attempts, used' = used, before' = before, ran' = ran,
         plan' \in Seq(PlannedStep), next' \in Nat, kill' \in BOOLEAN, failing' \in BOOLEAN,
         refused' \in BOOLEAN
  PROVE  RunInv'
<1>1. phase' = "ended" /\ rec' = Revoked(rec, Issued(rec)) /\ Root \in Issued(rec)
  BY RunIsFlat, FlatLineage DEF End
<1>2. rec \in [Grant -> Record] /\ Root \in Grant BY Identities DEF RunInv, RunTypeOK
<1>3. AgentsHold' BY <1>1, <1>2, AgentsEnd
<1>4. rec' \in [Grant -> Record] BY <1>1, <1>2, RevokedRecords, SMT
<1>5. RunTypeOK' BY <1>1, <1>4 DEF RunInv, RunTypeOK, Phase
<1>6. RootHolds'
  <2>1. /\ rec'[Root].issued = rec[Root].issued /\ rec'[Root].parent = rec[Root].parent
        /\ rec'[Root].depth = rec[Root].depth /\ rec'[Root].max = rec[Root].max
        /\ rec'[Root].remaining = rec[Root].remaining /\ rec'[Root].scope = rec[Root].scope
        /\ rec'[Root].delegable = rec[Root].delegable
    BY <1>1, <1>2, RevokedRecords, SMT
  <2> QED BY <1>1, <2>1 DEF RunInv, RootHolds
<1>7. Spawning'
  <2>1. ASSUME NEW g \in Grant, rec'[g].issued PROVE rec'[g].revoked
    <3>1. rec'[g].issued = rec[g].issued BY <1>1, <1>2, RevokedRecords, SMT
    <3>2. g \in Issued(rec) BY <2>1, <3>1 DEF Issued
    <3> QED BY <1>1, <1>2, <3>2, RevokedRecords, SMT
  <2> QED BY <1>1, <2>1 DEF Spawning, Issued
<1>8. Charges'
  <2>1. Weighable' /\ Weighable
    <3>1. RunTypeOK' /\ AgentsHold' => Weighable' BY Weights, PTL
    <3> QED BY <1>3, <1>5, <3>1, Weights DEF RunInv
  <2>2. ASSUME NEW g \in Grant PROVE Held'[g] <= Held[g] /\ Entered[g] <= Entered'[g]
    <3> DEFINE c == Bit(at[g] = "calling")
               k == Bit(at[g] = "checked")
    <3>1. /\ ran[g] \in Nat /\ attempts[g] \in Nat BY DEF RunInv, RunTypeOK
    <3>2. c \in {0, 1} /\ k \in {0, 1} BY DEF Bit
    <3>3. at'[g] # "calling" /\ at'[g] # "checked" BY DEF Drained, Live
    <3>4. Bit(at'[g] = "calling") = 0 /\ Bit(at'[g] = "checked") = 0 BY <3>3 DEF Bit
    <3>5. Held[g] = ran[g] + c /\ Entered[g] = attempts[g] - k BY DEF Held, Entered
    <3>6. Held'[g] = ran[g] + 0 /\ Entered'[g] = attempts[g] - 0 BY <3>4 DEF Held, Entered
    <3> HIDE DEF c, k
    <3> QED BY <3>1, <3>2, <3>5, <3>6, SMT
  <2>3. SumOf(Held', Grant) <= SumOf(Held, Grant) /\ SumOf(Entered, Grant) <= SumOf(Entered', Grant)
    BY <2>1, <2>2, SumMonotone DEF Weighable
  <2>4. /\ SumOf(Held, Grant) \in Nat /\ SumOf(Entered, Grant) \in Nat
        /\ SumOf(Held', Grant) \in Nat /\ SumOf(Entered', Grant) \in Nat
    BY <2>1, SumStep DEF Weighable
  <2>5. used \in Int /\ before \in Nat /\ before + SumOf(Held, Grant) <= used
        /\ used <= before + SumOf(Entered, Grant)
    BY DEF RunInv, RunTypeOK, Charges
  <2>6. before' + SumOf(Held', Grant) <= used' /\ used' <= before' + SumOf(Entered', Grant)
    BY <2>3, <2>4, <2>5, SMT
  <2> QED BY <1>1, <2>6 DEF Charges
<1> QED BY <1>3, <1>5, <1>6, <1>7, <1>8 DEF RunInv

(* It is enough that nobody is in a call before. *)
LEMMA IdleEnds ==
  ASSUME RunInv, End, \A g \in Grant : at[g] \notin Live, NeverRefusedLate',
         at' = at, spent' = spent, attempts' = attempts, used' = used, before' = before, ran' = ran,
         plan' \in Seq(PlannedStep), next' \in Nat, kill' \in BOOLEAN, failing' \in BOOLEAN,
         refused' \in BOOLEAN
  PROVE  RunInv'
<1>1. at' \in [Grant -> At] BY DEF RunInv, RunTypeOK
<1>2. Drained BY <1>1 DEF Drained
<1> QED BY <1>1, <1>2, EndCarries

=============================================================================
