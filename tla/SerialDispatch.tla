--------------------------- MODULE SerialDispatch ---------------------------
(***************************************************************************)
(* What the dispatcher of a session promises: one turn at a time, the      *)
(* prompts that came during a turn wait in line, and a turn that goes on   *)
(* to the next prompt takes the one that has waited longest.  A prompt is  *)
(* taken once: what had its turn, or was cleared, does not come back.      *)
(***************************************************************************)
EXTENDS Sequences, SequencesExt

CONSTANTS Prompts, Nobody

VARIABLES
    line,   \* prompts that wait, the first in line first
    turn,   \* the prompt that has its turn
    past    \* prompts that had their turn or were cleared

Init == line = <<>> /\ turn = Nobody /\ past = {}

Fresh == Prompts \ (past \cup ToSet(line))

\* A prompt that finds the session idle has its turn at once, also before
\* prompts that the end of an earlier turn has left in line.
GoFirst(c) ==
    /\ turn = Nobody /\ c \in Fresh
    /\ turn' = c /\ past' = past \cup {c}
    /\ UNCHANGED line

Wait(c) ==
    /\ turn # Nobody /\ c \in Fresh
    /\ line' = Append(line, c)
    /\ UNCHANGED <<turn, past>>

GoOn ==
    /\ turn # Nobody /\ line # <<>>
    /\ Head(line) \notin past
    /\ turn' = Head(line) /\ line' = Tail(line)
    /\ past' = past \cup {Head(line)}

Stop == turn # Nobody /\ turn' = Nobody /\ UNCHANGED <<line, past>>

Clear ==
    /\ line' = <<>> /\ past' = past \cup ToSet(line)
    /\ UNCHANGED turn

Next ==
    \/ \E c \in Prompts : GoFirst(c) \/ Wait(c)
    \/ GoOn \/ Stop \/ Clear

Spec == Init /\ [][Next]_<<line, turn, past>>
=============================================================================
