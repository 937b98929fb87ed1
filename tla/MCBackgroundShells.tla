------------------------- MODULE MCBackgroundShells -------------------------
(* Instances of BackgroundShells for TLC: three jobs of two sessions, with *)
(* room for two jobs and two notifications.                                *)
EXTENDS BackgroundShells

CONSTANTS j1, j2, j3, s1, s2

MCsession == [j \in Jobs |-> IF j = j3 THEN s2 ELSE s1]

\* The jobs of session s1 are interchangeable.
Symmetric == {[j \in Jobs |-> j],
              [j \in Jobs |-> IF j = j1 THEN j2 ELSE IF j = j2 THEN j1 ELSE j]}

\* The shutdown meets two jobs; without it there are three.
ShutdownMeetsTwo == killAll = "no" \/ \E j \in Jobs : proc[j] = "new"
=============================================================================
