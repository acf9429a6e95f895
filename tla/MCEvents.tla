------------------------------- MODULE MCEvents -------------------------------
(* Three writers and one client: clients only read, so they are independent. *)
EXTENDS RuntimeEvents

CONSTANTS w1, w2, w3, c1
===============================================================================
