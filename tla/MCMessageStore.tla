--------------------------- MODULE MCMessageStore ---------------------------
(* Calls on one session for TLC: three messages are created while one call *)
(* of each other kind runs.                                                *)
EXTENDS MessageStore

CONSTANTS c1, c2, c3, up, del, aft, idx

MCop == (c1 :> [kind |-> "create"]) @@ (c2 :> [kind |-> "create"])
     @@ (c3 :> [kind |-> "create"])
     @@ (up :> [kind |-> "update", id |-> c1]) @@ (del :> [kind |-> "delete", id |-> c2])
     @@ (aft :> [kind |-> "after", id |-> c2]) @@ (idx :> [kind |-> "index", n |-> 1])

\* Bound: how many calls overlap.
TwoAtATime == Cardinality({w \in Writers : pc[w] \notin Over \cup {"idle"}}) <= 2
=============================================================================
