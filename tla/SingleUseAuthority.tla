------------------------- MODULE SingleUseAuthority -------------------------
(***************************************************************************)
(* The promise behind every "dispatch once" journal of the repository: an  *)
(* authority is spent at most once, the effect it pays for happens at most *)
(* once and only under a spent authority, and the authority is settled for *)
(* good with the result of that very effect.  No processes, files, retries *)
(* or crashes: an authority that was spent may stay unsettled for ever.    *)
(***************************************************************************)
EXTENDS Naturals

CONSTANTS Keys, NoResult

VARIABLES stage,    \* free, spent or settled
          effects,  \* how often the effect happened
          result    \* what a settled authority is settled with, else NoResult

authority == <<stage, effects, result>>

Init ==
  /\ stage = [k \in Keys |-> "free"]
  /\ effects = [k \in Keys |-> 0]
  /\ result = [k \in Keys |-> NoResult]

Spend(k) ==
  /\ stage[k] = "free"
  /\ stage' = [stage EXCEPT ![k] = "spent"]
  /\ UNCHANGED <<effects, result>>

Act(k) ==
  /\ stage[k] = "spent"
  /\ effects[k] = 0
  /\ effects' = [effects EXCEPT ![k] = 1]
  /\ UNCHANGED <<stage, result>>

Settle(k) ==
  /\ stage[k] = "spent"
  /\ effects[k] = 1
  /\ stage' = [stage EXCEPT ![k] = "settled"]
  /\ result' = [result EXCEPT ![k] = result'[k]]
  /\ result'[k] # NoResult
  /\ UNCHANGED effects

Next == \E k \in Keys : Spend(k) \/ Act(k) \/ Settle(k)

Spec == Init /\ [][Next]_authority

=============================================================================
