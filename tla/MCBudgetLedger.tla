--------------------------- MODULE MCBudgetLedger ---------------------------
(* BudgetLedger on a small instance. *)
EXTENDS BudgetLedger, TLC

BothAccounts == {"campaign", "dedicated"}

\* One model call with one token, and one Tool call.
SmallLimit == [a \in Account |-> Use(1, 1, 1)]

\* The time of the dedicated account is up while the Campaign still has some,
\* so that it refuses a call the Campaign has already been charged for.
ShortDuration == [a \in Account |-> IF a = "campaign" THEN 3 ELSE 2]

Symmetric == Permutations(Owner)

\* A fenced ledger stays fenced until its process dies: no action and no
\* property looks at the controllers behind it, so states that differ only in
\* them count as one.
UsableState ==
  <<[o \in Owner |-> IF ctl[o].failed THEN "fenced" ELSE ctl[o]],
    head, call, clock, owed>>
=============================================================================
