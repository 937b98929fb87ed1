---------------------------- MODULE MessageStore ----------------------------
(***************************************************************************)
(* The messages of one session: internal/store keeps them in a file with   *)
(* one JSON line per message.  A new message is appended under a lock; any *)
(* other change reads the file, and then replaces it under the lock by an  *)
(* edited copy.  The process may crash at any point.                       *)
(*                                                                         *)
(* The lock is an flock of a sidecar file, exclusive for writers and       *)
(* shared for readers, which the system releases when its holder dies.  A  *)
(* WriteAll goes through a temporary file and a rename: whenever it        *)
(* crashes, the file is the old one or the new one, so it is one step.     *)
(*                                                                         *)
(* A writer is one call with its process; a message has the name of the    *)
(* call that created it, a version that of the call that wrote it.         *)
(***************************************************************************)
EXTENDS Naturals, Sequences, FiniteSets, SequencesExt

CONSTANTS
    Writers,
    op,         \* [Writers -> records with a kind and its argument]
    MaxCrashes  \* bound

Kinds == {"create", "update", "delete", "after", "index"}

ASSUME OpsOK == \A w \in Writers :
    /\ op[w].kind \in Kinds
    /\ op[w].kind \in {"update", "delete", "after"} => op[w].id \in Writers
    /\ op[w].kind = "index" => op[w].n \in Nat

VARIABLES
    msgs,       \* the readable lines, in order
    bad,        \* a terminated line of the file cannot be read
    last,       \* the last line: "closed", "open" (no newline), "torn" (a part)
    pc,
    snapshot,   \* what a rewrite has read and not yet written
    acked,      \* calls that have returned without error
    removed,    \* messages that calls were asked to remove when they replaced the file
    revived,    \* history: messages a rewrite brought back from its older reading
    dropped,    \* history: messages a rewrite dropped, younger than its reading
    crashes

history == <<acked, removed, revived, dropped, crashes>>
vars == <<msgs, bad, last, pc, snapshot, history>>

-----------------------------------------------------------------------------
New(w) == [id |-> w, ver |-> w]
ButLast(s) == SubSeq(s, 1, Len(s) - 1)
Has(s, m) == \E k \in DOMAIN s : s[k].id = m
Ids(s) == {s[k].id : k \in DOMAIN s}
\* The first n messages of s, or all if there are fewer.
Prefix(s, n) == SubSeq(s, 1, IF n <= Len(s) THEN n ELSE Len(s))
\* Where the message m of s is: messages have different names.
Position(s, m) == CHOOSE k \in DOMAIN s : s[k].id = m

Without(s, m) == IF Has(s, m) THEN RemoveAt(s, Position(s, m)) ELSE s

\* Fault: the message itself goes with those behind it.
UpTo_DropsTarget(s, m) == Prefix(s, Position(s, m) - 1)
\* Fault: one message behind it stays.
UpTo_KeepsOneMore(s, m) == Prefix(s, Position(s, m) + 1)
\* DeleteAfterMessage keeps the messages up to m.
UpTo(s, m) == Prefix(s, Position(s, m))

\* What the call w writes when it has read s.
Edit(w, s) ==
    CASE op[w].kind = "update" ->
             [k \in DOMAIN s |-> IF s[k].id = op[w].id
                                 THEN [id |-> op[w].id, ver |-> w] ELSE s[k]]
      [] op[w].kind = "delete" -> Without(s, op[w].id)
      [] op[w].kind = "after"  -> UpTo(s, op[w].id)
      [] op[w].kind = "index"  -> Prefix(s, op[w].n + 1)

\* The messages the call w is asked to remove from s.
Asked(w, s) ==
    CASE op[w].kind = "delete" -> {op[w].id}
      [] op[w].kind = "after"  -> {s[k].id : k \in {i \in DOMAIN s : i > Position(s, op[w].id)}}
      [] op[w].kind = "index"  -> {s[k].id : k \in {i \in DOMAIN s : i > op[w].n + 1}}
      [] OTHER -> {}

-----------------------------------------------------------------------------
Over == {"done", "failed", "dead"}
\* The lock is held across a step only between a line and its newline.
Free == \A w \in Writers : pc[w] # "line"

Goes(w, label) == pc' = [pc EXCEPT ![w] = label]

-----------------------------------------------------------------------------
(* Append *)

\* Fault: the file is opened at its start, so a line covers an older one.
AppendLine_Covers(w) ==
    IF last = "closed"
    THEN /\ msgs' = IF msgs = <<>> THEN <<New(w)>> ELSE Append(ButLast(msgs), New(w))
         /\ last' = "open"
    ELSE /\ msgs' = IF last = "open" THEN ButLast(msgs) ELSE msgs
         /\ last' = "torn"

\* The encoded message goes to the end of the file.  Behind a line without
\* newline it becomes a part of that line, which nothing can read then.
AppendLine(w) ==
    IF last = "closed"
    THEN msgs' = Append(msgs, New(w)) /\ last' = "open"
    ELSE /\ msgs' = IF last = "open" THEN ButLast(msgs) ELSE msgs
         /\ last' = "torn"

CreateWrites(w) ==
    /\ op[w].kind = "create" /\ pc[w] = "idle"
    /\ Free
    /\ AppendLine(w)
    /\ Goes(w, "line")
    /\ UNCHANGED <<bad, snapshot, history>>

\* The newline, the sync and the release of the lock.
CreateEnds(w) ==
    /\ pc[w] = "line"
    /\ last' = "closed"
    /\ bad' = (bad \/ last = "torn")
    /\ Goes(w, "written")
    /\ UNCHANGED <<msgs, snapshot, history>>

-----------------------------------------------------------------------------
(* Update, Delete, DeleteAfter, DeleteAfterMessage *)

\* Delete first looks its message up, in a reading that skips bad lines.
DeleteFinds(w) ==
    /\ op[w].kind = "delete" /\ pc[w] = "idle"
    /\ Free
    /\ Goes(w, IF Has(msgs, op[w].id) THEN "found" ELSE "failed")
    /\ UNCHANGED <<msgs, bad, last, snapshot, history>>

\* ReadAll, which gives up at the first line it cannot read, and the search
\* for the message.
RewriteReads(w) ==
    /\ \/ op[w].kind = "delete" /\ pc[w] = "found"
       \/ op[w].kind \in {"update", "after", "index"} /\ pc[w] = "idle"
    /\ Free
    /\ IF \/ bad \/ last = "torn"
          \/ op[w].kind \in {"update", "after"} /\ ~Has(msgs, op[w].id)
       THEN Goes(w, "failed") /\ UNCHANGED snapshot
       ELSE Goes(w, "read") /\ snapshot' = [snapshot EXCEPT ![w] = msgs]
    /\ UNCHANGED <<msgs, bad, last, history>>

\* WriteAll replaces the file by the edited copy, of complete lines, whatever has
\* been written since it was read.
RewriteReplaces(w) ==
    /\ pc[w] = "read"
    /\ Free
    /\ msgs' = Edit(w, snapshot[w])
    /\ bad' = FALSE /\ last' = "closed"
    /\ Goes(w, "written")
    /\ removed' = removed \cup Asked(w, snapshot[w])
    /\ revived' = revived \cup (Ids(snapshot[w]) \ Ids(msgs))
    /\ dropped' = dropped \cup (Ids(msgs) \ Ids(snapshot[w]))
    /\ snapshot' = [snapshot EXCEPT ![w] = <<>>]
    /\ UNCHANGED <<acked, crashes>>

-----------------------------------------------------------------------------
(* Return and crash *)

Returns(w) ==
    /\ pc[w] = "written"
    /\ Goes(w, "done")
    /\ acked' = acked \cup {w}
    /\ UNCHANGED <<msgs, bad, last, snapshot, removed, revived, dropped, crashes>>

\* The process dies.  What it was appending may be in the file in part.
Crash(w) ==
    /\ crashes < MaxCrashes
    /\ pc[w] \notin Over
    /\ \/ UNCHANGED <<msgs, last>>
       \/ /\ op[w].kind = "create" /\ pc[w] = "idle" /\ Free
          /\ last' = "torn"
          /\ msgs' = IF last = "open" THEN ButLast(msgs) ELSE msgs
    /\ Goes(w, "dead")
    /\ crashes' = crashes + 1
    /\ snapshot' = [snapshot EXCEPT ![w] = <<>>]
    /\ UNCHANGED <<bad, acked, removed, revived, dropped>>

Step(w) ==
    \/ CreateWrites(w) \/ CreateEnds(w)
    \/ DeleteFinds(w) \/ RewriteReads(w) \/ RewriteReplaces(w)
    \/ Returns(w) \/ Crash(w)

Init ==
    /\ msgs = <<>> /\ bad = FALSE /\ last = "closed"
    /\ pc = [w \in Writers |-> "idle"]
    /\ snapshot = [w \in Writers |-> <<>>]
    /\ acked = {} /\ removed = {} /\ revived = {} /\ dropped = {} /\ crashes = 0

Next == \E w \in Writers : Step(w)

Spec == Init /\ [][Next]_vars

-----------------------------------------------------------------------------
(* Properties *)

Line == [id : Writers, ver : Writers]

\* Types of the file and of the calls.
TypeOK ==
    /\ msgs \in Seq(Line) /\ bad \in BOOLEAN /\ last \in {"closed", "open", "torn"}
    /\ pc \in [Writers -> Over \cup {"idle", "line", "found", "read", "written"}]
    /\ snapshot \in [Writers -> Seq(Line)]
    /\ \A s \in {acked, removed, revived, dropped} : s \subseteq Writers
    /\ crashes \in 0..MaxCrashes

Created == {w \in acked : op[w].kind = "create"}

\* Create says "append+fsync for durability": a message whose Create has
\* returned is listed until a call is asked to remove it, unless a rewrite that
\* had read the file before it was appended replaced the file after.  Apart from
\* that a crash may cost one message at most, the next one that is appended
\* behind the torn line.
LossBounded ==
    Cardinality((Created \ (removed \cup dropped)) \ Ids(msgs)) <= crashes

\* A message that a call has removed is never listed again, whatever calls and
\* crashes follow, unless a rewrite had read it before and writes it back.
RemovedStays == removed \cap Ids(msgs) \subseteq revived

\* The calls of the store are steps on a log: each appends one message, or puts
\* an edit of one earlier state in the log's place.  Only a crash spoils the
\* log, and only at its end.
Log == INSTANCE MessageLog WITH
    Callers <- Writers,
    log <- msgs,
    view <- snapshot,
    cut <- last # "closed" /\ Free

ImplementsLog == Log!Spec
=============================================================================
