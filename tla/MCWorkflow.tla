------------------------------ MODULE MCWorkflow ------------------------------
(* Two tasks that need approval and run side by side, one of them with a     *)
(* timeout and a retry, and one that depends on both; the same tasks in a    *)
(* chain, the last depending on both others; or the first alone, and two     *)
(* that depend on a task the workflow lacks.                                 *)
EXTENDS WorkflowEngine

CONSTANTS draft, review, publish, absent

MCPlans == {[t \in Tasks |-> IF t = publish THEN {draft, review} ELSE {}],
            [t \in Tasks |-> IF t = draft THEN {} ELSE IF t = review THEN {draft}
                             ELSE {draft, review}],
            [t \in Tasks |-> IF t = draft THEN {} ELSE {absent}]}

MCRetryCount == [t \in Tasks |-> IF t = draft THEN 1 ELSE 0]
===============================================================================
