----------------------------- MODULE MessageLog -----------------------------
(***************************************************************************)
(* What the message store of a session promises: a log of messages that    *)
(* grows at its end.  A change of older messages takes a view of the log   *)
(* and later puts an edit of that view in the log's place, whatever has    *)
(* happened to the log in the meantime.  A crash can only spoil the end.   *)
(***************************************************************************)
EXTENDS Naturals, Sequences, SequencesExt

CONSTANT Callers    \* calls, also the names of messages and of their versions

VARIABLES
    log,    \* the messages a reader gets, in order
    view,   \* the log as each call has read it
    cut     \* a crash has left the end of the log unfinished

New(m) == [id |-> m, ver |-> m]
Init == log = <<>> /\ view = [c \in Callers |-> <<>>] /\ cut = FALSE

Create(c) ==
    /\ ~cut
    /\ log' = Append(log, New(c))
    /\ UNCHANGED <<view, cut>>

\* The first message after a crash is lost, with the one the crash cut.
CreateAfterCut ==
    /\ cut /\ cut' = FALSE
    /\ log' = log \/ log' = SubSeq(log, 1, Len(log) - 1)
    /\ UNCHANGED view

\* A crash cuts the end; one that follows another may take the message the
\* first one cut.
Crash ==
    /\ cut' = TRUE
    /\ log' = log \/ (cut /\ log' = SubSeq(log, 1, Len(log) - 1))
    /\ UNCHANGED view

Read(c) ==
    /\ view' = [view EXCEPT ![c] = log]
    /\ UNCHANGED <<log, cut>>

\* The caller gives up, or dies.
Forget(c) ==
    /\ view' = [view EXCEPT ![c] = <<>>]
    /\ UNCHANGED <<log, cut>>

\* Another version of a message, one message less, or the first n.
Updated(s, m, v) ==
    [k \in DOMAIN s |-> IF s[k].id = m THEN [id |-> m, ver |-> v] ELSE s[k]]
Edits(c, s) ==
    {Updated(s, m, c) : m \in Callers} \cup {RemoveAt(s, n) : n \in DOMAIN s}
        \cup {SubSeq(s, 1, n) : n \in 0..Len(s)}

Replace(c) ==
    /\ log' \in Edits(c, view[c])
    /\ view' = [view EXCEPT ![c] = <<>>]
    /\ cut' = FALSE

Next ==
    \/ \E c \in Callers : Create(c) \/ Read(c) \/ Forget(c) \/ Replace(c)
    \/ CreateAfterCut \/ Crash

Spec == Init /\ [][Next]_<<log, view, cut>>
=============================================================================
