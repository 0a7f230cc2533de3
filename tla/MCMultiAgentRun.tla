--------------------------- MODULE MCMultiAgentRun ---------------------------
(* Bounded instance of MultiAgentRun for TLC. *)
EXTENDS MultiAgentRun

Agents == -4 .. 3

Tools == {"t1"}

\* Three steps; all of them may ask for a retry, and at least one may share a wave.
ThreeSteps ==
  {<<a, b, c>> : a \in {[parallel |-> TRUE, low |-> TRUE]}, b \in PlannedStep, c \in {s \in PlannedStep : s.low}}

\* The Planner may call its model twice; there is no Reviewer.
TwoForPlanner == [r \in Role |-> IF r = Planner THEN 2 ELSE IF r = Reviewer THEN 0 ELSE 1]

FreshOrShared == {0, 4}

=============================================================================
