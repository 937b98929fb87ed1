------------------------------- MODULE MCTurn -------------------------------
(* Turn for TLC, with the one text g1 of guidance.                         *)
EXTENDS Turn

CONSTANT g1

\* Two calls of a step are tried in the first one, and before any crash.
FewCalls ==
    cur # NoMessage =>
        Cardinality(cur.calls) <= IF step = 1 /\ crashes = 0 THEN 2 ELSE 1
=============================================================================
