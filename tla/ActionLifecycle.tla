---------------------------- MODULE ActionLifecycle ----------------------------
(***************************************************************************)
(* What the action center promises of one proposed action: a version is    *)
(* approved before it is executed, the external change is made at most     *)
(* once, it is verified after it was made, and a terminal status is kept.  *)
(***************************************************************************)
EXTENDS Naturals

VARIABLES
  status,   \* the status its readers see
  version,  \* how many times the action has been written
  done      \* has the external change been made?

vars == <<status, version, done>>

Editable == {"DRAFT", "CHANGES_REQUESTED"}
Open     == Editable \cup {"PENDING_APPROVAL", "APPROVED", "FAILED", "VERIFICATION_FAILED"}

Init == status = "DRAFT" /\ version = 1 /\ done = FALSE

Become(from, to) ==
  /\ status \in from
  /\ status' \in to
  /\ UNCHANGED version

Edit ==
  /\ status \in Editable /\ status' = "DRAFT"
  /\ version' = version + 1
  /\ UNCHANGED done

Submit == Become(Editable, {"PENDING_APPROVAL"}) /\ UNCHANGED done

Decide == /\ Become({"PENDING_APPROVAL"}, {"APPROVED", "REJECTED", "CHANGES_REQUESTED"})
          /\ UNCHANGED done

(* An approved action, or a failed one that is retried. *)
Execute ==
  /\ ~done
  /\ \/ Become({"APPROVED", "FAILED"}, {"VERIFYING"}) /\ done' = TRUE
     \/ Become({"APPROVED", "FAILED"}, {"FAILED"}) /\ UNCHANGED done

Verify == Become({"VERIFYING"}, {"VERIFIED", "VERIFICATION_FAILED"}) /\ UNCHANGED done

Cancel == Become(Open, {"CANCELLED"}) /\ UNCHANGED done

Expire == Become({"PENDING_APPROVAL", "APPROVED", "FAILED"}, {"EXPIRED"}) /\ UNCHANGED done

Next == Edit \/ Submit \/ Decide \/ Execute \/ Verify \/ Cancel \/ Expire

Spec == Init /\ [][Next]_vars
=============================================================================
