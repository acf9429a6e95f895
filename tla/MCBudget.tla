-------------------------------- MODULE MCBudget --------------------------------
EXTENDS BudgetEnforcement

CONSTANTS big, small, k1, k2

\* Budget 1 is on the model big, 2 on the model small, 3 on the whole tenant.
MCApplies == [m \in {big, small} |-> IF m = big THEN {1, 3} ELSE {2, 3}]
MCCost    == [m \in {big, small} |-> IF m = big THEN 2 ELSE 1]
MCCheaper == [m \in {big, small} |-> IF m = big THEN small ELSE NoModel]
MCNoCheaper == [m \in {big, small} |-> NoModel]
MCSegments == [k \in {k1, k2} |-> IF k = k1 THEN 2 ELSE 1]
MCLimit   == [b \in {1, 2, 3} |-> IF b = 3 THEN 4 ELSE 3]
=============================================================================
