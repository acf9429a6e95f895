------------------------------ MODULE BudgetLedger ------------------------------
(***************************************************************************)
(* What the budget gate promises of one tenant: a request is admitted in   *)
(* one step, at a moment when what is outstanding on each of its budgets   *)
(* leaves room for its estimate, or an approved override still covers it;  *)
(* what it reserved is returned once.                                      *)
(***************************************************************************)
EXTENDS Naturals

CONSTANTS Budgets, Keys, Limit, Costs

VARIABLES
  held,         \* the budgets and keys with a reservation that has not ended
  outstanding,  \* the sum reserved on each budget
  allowance     \* what the override still covers

vars == <<held, outstanding, allowance>>

Init == held = {} /\ outstanding = [b \in Budgets |-> 0] /\ allowance = 0

(* An override is approved for an amount, or is used up or lapses. *)
Allow == allowance' \in Nat /\ UNCHANGED <<held, outstanding>>

Add(k, B, cost) ==
  /\ held \cap (B \X {k}) = {} /\ held' = held \cup (B \X {k})
  /\ outstanding' = [b \in Budgets |-> IF b \in B THEN outstanding[b] + cost
                                                  ELSE outstanding[b]]

Admit(k, B, cost) ==
  /\ \A b \in B : outstanding[b] + cost < Limit[b]
  /\ Add(k, B, cost) /\ UNCHANGED allowance

AdmitOver(k, B, cost) ==
  /\ cost <= allowance /\ allowance' \in 0 .. allowance - cost
  /\ Add(k, B, cost)

(* Every reservation of a key ends together. *)
End(k) ==
  /\ held \cap (Budgets \X {k}) # {} /\ held' = held \ (Budgets \X {k})
  /\ \A b \in Budgets : outstanding'[b] <= outstanding[b]
  /\ \A b \in Budgets : <<b, k>> \notin held => outstanding'[b] = outstanding[b]
  /\ UNCHANGED allowance

Next ==
  \/ Allow
  \/ \E k \in Keys, B \in SUBSET Budgets, cost \in Costs : Admit(k, B, cost) \/ AdmitOver(k, B, cost)
  \/ \E k \in Keys : End(k)

Spec == Init /\ [][Next]_vars
=============================================================================
