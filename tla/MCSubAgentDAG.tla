--------------------------- MODULE MCSubAgentDAG ---------------------------
(* Every graph of three tasks with dependency lists of length two or less. *)
EXTENDS SubAgentDAG
CONSTANTS t1, t2, t3
=============================================================================
