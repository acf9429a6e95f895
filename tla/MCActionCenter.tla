---------------------------- MODULE MCActionCenter ----------------------------
(***************************************************************************)
(* Small instances of ActionCenter.  The users other than the requester    *)
(* are interchangeable, and so are the idempotency keys and the requests   *)
(* in flight.                                                              *)
(***************************************************************************)
EXTENDS ActionCenter, TLC

Symmetry == Permutations(Actors \ ({Requester} \cup Admins \cup Assignees))
              \cup Permutations(Keys) \cup Permutations(Requests)
=============================================================================
