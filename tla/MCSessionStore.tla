--------------------------- MODULE MCSessionStore ---------------------------
(* Calls on one session for TLC, at least one of each kind.                *)
EXTENDS SessionStore, TLC

CONSTANTS new, s1, s2, inc, ren, ttl, del, get

MCkind == [c \in Calls |->
    CASE c = new -> "create" [] c \in {s1, s2} -> "save" [] c = inc -> "increment"
      [] c = ren -> "rename" [] c = ttl -> "title" [] c = del -> "delete" [] c = get -> "lookup"]

\* The two Saves are alike.
Symm == Permutations({s1, s2})
=============================================================================
