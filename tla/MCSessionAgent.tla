--------------------------- MODULE MCSessionAgent ---------------------------
(* Instances of SessionAgent for TLC: three or four prompts, of which the  *)
(* configurations choose the forced ones, and one goroutine of each other  *)
(* kind.                                                                   *)
EXTENDS SessionAgent

CONSTANTS a, b, c, d, cancel, clear, summary

FourCalls  == {a, b, c, d}
ThreeCalls == {a, b, c}
TwoCalls   == {a, b}
=============================================================================
