---------------------------- MODULE MCPermission ----------------------------
(* Instances of Permission for TLC: two equal requests of one session, one *)
(* of another session, and one that a hook approves.                       *)
EXTENDS Permission

CONSTANTS r1, r2, r3, r4, k1, k2, s1, s2, tui

MCkey == [r \in Requests |-> IF r \in {r3, r4} THEN k2 ELSE k1]
MCsession == [k \in Keys |-> IF k = k1 THEN s1 ELSE s2]
=============================================================================
