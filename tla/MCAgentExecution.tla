--------------------------- MODULE MCAgentExecution ---------------------------
(* The requester, an approver and a third user; two requests at once. *)
EXTENDS AgentExecution

CONSTANTS ann, bob, eve, r1, r2
===============================================================================
