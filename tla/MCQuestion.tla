----------------------------- MODULE MCQuestion -----------------------------
(* Instances of Question for TLC: two questions and two clients. *)
EXTENDS Question
CONSTANTS q1, q2, tui, web
=============================================================================
