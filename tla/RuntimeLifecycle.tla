--------------------------- MODULE RuntimeLifecycle ---------------------------
(***************************************************************************)
(* What a runtime execution promises its readers, without workers, leases  *)
(* or tasks: one status that follows the transition table, one terminal    *)
(* event that agrees with it, and an attempt number that grows only when a *)
(* running execution is reclaimed.                                         *)
(***************************************************************************)
EXTENDS Naturals

CONSTANT MaxAttempts    \* RUNTIME_MAX_RECOVERY_ATTEMPTS

VARIABLES
  status,    \* RuntimeExecution.status, "ABSENT" before the row exists
  attempt,   \* RuntimeExecution.attempt
  outcome    \* aggregate status of the durable terminal event, or "none"

vars == <<status, attempt, outcome>>

Waiting  == {"WAITING_FOR_INPUT", "WAITING_FOR_APPROVAL"}
Terminal == {"COMPLETED", "FAILED", "CANCELLED", "TIMED_OUT"}

Init == status = "ABSENT" /\ attempt = 1 /\ outcome = "none"

Create == status = "ABSENT" /\ status' = "PENDING" /\ UNCHANGED <<attempt, outcome>>

Begin == status = "PENDING" /\ status' = "RUNNING" /\ UNCHANGED <<attempt, outcome>>

Pause == status = "RUNNING" /\ status' \in Waiting /\ UNCHANGED <<attempt, outcome>>

Resume == status \in Waiting /\ status' = "RUNNING" /\ UNCHANGED <<attempt, outcome>>

Reclaim ==
  /\ status = "RUNNING" /\ attempt < MaxAttempts
  /\ attempt' = attempt + 1
  /\ UNCHANGED <<status, outcome>>

\* a waiting execution can neither complete nor, as modelled, fail
Settle ==
  /\ \/ status = "PENDING" /\ status' = "CANCELLED"
     \/ status = "RUNNING" /\ status' \in Terminal
     \/ status \in Waiting /\ status' \in {"CANCELLED", "TIMED_OUT"}
  /\ outcome' = status'
  /\ UNCHANGED attempt

Next == Create \/ Begin \/ Pause \/ Resume \/ Reclaim \/ Settle

Spec == Init /\ [][Next]_vars
=============================================================================
