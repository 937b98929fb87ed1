-------------------------------- MODULE Turn --------------------------------
(***************************************************************************)
(* The transcript of a session: what the callbacks of a turn's stream      *)
(* store (core/agent/lifecycle), the debouncer through which they update   *)
(* an assistant message (core/app), the clean-up of a turn that fails, the *)
(* guidance a user gives meanwhile, and the prompt the next turn builds.   *)
(*                                                                         *)
(* The store is the file of MessageStore: a new message is appended, an    *)
(* update reads all messages and writes them back as it has read them, and *)
(* a crash may leave the last line without its end.  The stream updates,   *)
(* and so do timers of the debouncer, each in a goroutine of its own.  The *)
(* library that runs the stream (fantasy) is external: it calls back in    *)
(* order and fails or is cancelled between two callbacks.                  *)
(***************************************************************************)
EXTENDS Naturals, Sequences, FiniteSets, SequencesExt

CONSTANTS
    Guidance,   \* texts for Inject
    MaxTurns,   \* bound
    MaxSteps,   \* bound: model steps of a turn
    MaxCalls,   \* bound: tool calls of a step
    MaxCrashes  \* bound

ASSUME TurnBounds ==
    MaxTurns \in Nat /\ MaxSteps \in Nat /\ MaxCalls \in Nat /\
    MaxCrashes \in Nat

\* Prompts are named by the numbers of their turns.
ASSUME TextsOK == Guidance \cap Nat = {}

VARIABLES
    store,      \* messages of the session that can be read, in order
    last,       \* the last line: "closed", "open" (no newline), "torn" (a part)
    bad,        \* a terminated line of the file cannot be read
    pc,         \* of the stream goroutine
    cont,       \* where it goes on after an update
    turn, step, made,   \* turns, steps of this turn, assistant messages
    cur,        \* currentAssistant
    answered,   \* calls of this step whose results have been stored
    writes,     \* versions the stream has to write
    read,       \* what its update has read
    todo, listed,       \* clean-up: calls to look at, calls with a result
    pending,    \* debouncer: versions waiting for their timer
    flush,      \* versions that timers' goroutines have taken
    flushed,    \* and what they have read for them
    buffer,     \* a.injected
    stored,     \* texts that Inject has stored
    given,      \* texts whose Inject has returned
    joined,     \* texts stored in a line that cannot be read
    seen,       \* user messages and texts the model has been given
    clobbered,  \* history: an update has overwritten something newer
    revived,    \* history: calls whose results an update has brought back
    crashes

stream == <<pc, cont, turn, step, made, cur, answered, writes, read, todo, listed>>
file == <<store, last, bad>>
timer == <<flush, flushed>>
guide == <<buffer, stored, given, joined>>
lost == <<clobbered, revived>>
vars == <<file, stream, pending, timer, guide, seen, lost, crashes>>

NoMessage == [role |-> "none"]

-----------------------------------------------------------------------------
(* Messages *)

User(x) == [role |-> "user", of |-> x]
Result(cs) == [role |-> "tool", of |-> cs]
\* The version of assistant message n with no parts.
Empty(n) == [role |-> "assistant", of |-> n, text |-> FALSE,
             calls |-> {}, closed |-> {}, finish |-> FALSE]

Assistants(s) == {s[k] : k \in {i \in DOMAIN s : s[i].role = "assistant"}}
Has(s, m) == \E e \in Assistants(s) : e.of = m.of
Users(s) == {s[k].of : k \in {i \in DOMAIN s : s[i].role = "user"}}
CallsIn(s) == UNION {e.calls : e \in Assistants(s)}
ResultsIn(s) == UNION {s[k].of : k \in {i \in DOMAIN s : s[i].role = "tool"}}

\* Update replaces the parts of the one message.
Replace(s, m) ==
    [k \in DOMAIN s |->
        IF s[k].role = "assistant" /\ s[k].of = m.of THEN m ELSE s[k]]

\* Is e a newer version than m?
Newer(e, m) ==
    \/ ~(e.calls \subseteq m.calls /\ e.closed \subseteq m.closed)
    \/ e.finish /\ ~m.finish
    \/ e.text /\ ~m.text
\* Writing m over the messages r changes what others have stored since.
Overwrites(r, m) ==
    r # store \/ \E e \in Assistants(store) : e.of = m.of /\ Newer(e, m)

-----------------------------------------------------------------------------
(* The file *)

ButLast(s) == SubSeq(s, 1, Len(s) - 1)
\* What can still be read of s with something else behind its last line.
Terminated(s) == IF last = "open" THEN ButLast(s) ELSE s

\* Create appends a line.  Behind a line without its newline it becomes a part of
\* that line, which nothing can read then.
Create(m) ==
    /\ store' = IF last = "closed" THEN Append(store, m) ELSE Terminated(store)
    /\ bad' = (bad \/ last # "closed")
    /\ last' = "closed"

\* Can Update read all lines, and is its message m among them?
Updatable(m) == ~bad /\ last # "torn" /\ Has(store, m)

\* Update replaces the file by what it has read, with the new version m.
Rewrites(r, m) ==
    /\ store' = Replace(r, m) /\ bad' = FALSE /\ last' = "closed"
    /\ clobbered' = (clobbered \/ Overwrites(r, m))
    /\ revived' = revived \cup (ResultsIn(r) \ ResultsIn(store))

-----------------------------------------------------------------------------
(* The prompt *)

\* Fault: a call without a stored result stays without one.
Prepared_NoSynthetic(s, k) ==
    CASE s[k].role = "user" -> <<s[k]>>
      [] s[k].role = "tool" ->
             LET known == s[k].of \cap CallsIn(s)
             IN  IF known = {} THEN <<>> ELSE <<Result(known)>>
      [] s[k].role = "assistant" ->
             IF s[k].calls = {} /\ ~s[k].text THEN <<>> ELSE <<s[k]>>

\* What message k becomes: an assistant message without content is left out,
\* results of unknown calls are dropped, calls without result get one.
Prepared(s, k) ==
    CASE s[k].role = "user" -> <<s[k]>>
      [] s[k].role = "tool" ->
             LET known == s[k].of \cap CallsIn(s)
             IN  IF known = {} THEN <<>> ELSE <<Result(known)>>
      [] s[k].role = "assistant" ->
             LET orphans == s[k].calls \ ResultsIn(s)
             IN  IF s[k].calls = {} /\ ~s[k].text THEN <<>>
                 ELSE IF orphans = {} THEN <<s[k]>> ELSE <<s[k], Result(orphans)>>

preparePrompt(s) == FlattenSeq([k \in DOMAIN s |-> Prepared(s, k)])

-----------------------------------------------------------------------------
(* A turn *)

\* runTurn lists the messages, and then stores the prompt.
TurnBegins ==
    /\ pc = "over" /\ turn < MaxTurns
    /\ turn' = turn + 1
    /\ seen' = seen \cup Users(preparePrompt(store))
    /\ pc' = "prompt"
    /\ UNCHANGED <<file, cont, step, made, cur, answered, writes, read, todo,
                   listed, pending, timer, guide, lost, crashes>>

StorePrompt ==
    /\ pc = "prompt"
    /\ Create(User(turn))
    /\ seen' = seen \cup {turn}
    /\ pc' = "prepare"
    /\ UNCHANGED <<cont, turn, step, made, cur, answered, writes, read, todo,
                   listed, pending, timer, guide, lost, crashes>>

\* Fault: the guidance is taken for the message, not for the buffer.
Drain_Forgets == buffer' = {} /\ UNCHANGED seen
\* prepareStep drains the guidance buffer for the model.
Drain == buffer' = {} /\ seen' = seen \cup buffer

\* It then creates the message that the step streams into.
PrepareStep ==
    /\ pc = "prepare" /\ step < MaxSteps
    /\ Drain
    /\ step' = step + 1 /\ made' = made + 1
    /\ cur' = Empty(made')
    /\ Create(cur')
    /\ answered' = {}
    /\ pc' = "stream"
    /\ UNCHANGED <<cont, turn, writes, read, todo, listed, pending, timer,
                   stored, given, joined, lost, crashes>>

\* messageUpdateDebouncer.Update: a version with tool calls or a finish is
\* written at once, behind one that waits; any other waits for its timer.
Update(m, next) ==
    LET waiting == {p \in pending : p.of = m.of}
    IN  /\ cur' = m
        /\ IF m.finish \/ m.calls # {}
           THEN /\ pending' = pending \ waiting
                /\ writes' = SetToSeq(waiting) \o <<m>>
                /\ pc' = "fetch" /\ cont' = next
           ELSE /\ pending' = (pending \ waiting) \cup {m}
                /\ pc' = next /\ UNCHANGED <<cont, writes>>
        /\ UNCHANGED <<file, turn, step, made, read, listed, timer, guide,
                       seen, lost, crashes>>

TextDelta ==
    /\ pc = "stream" /\ ~cur.text
    /\ Update([cur EXCEPT !.text = TRUE], "stream")
    /\ UNCHANGED <<answered, todo>>

ToolInputStart(c) ==
    /\ pc = "stream" /\ c \notin cur.calls /\ answered = {}
    /\ Update([cur EXCEPT !.calls = @ \cup {c}], "stream")
    /\ UNCHANGED <<answered, todo>>

ToolCall(c) ==
    /\ pc = "stream" /\ c \in cur.calls \ cur.closed
    /\ Update([cur EXCEPT !.closed = @ \cup {c}], "stream")
    /\ UNCHANGED <<answered, todo>>

\* onToolResult appends a message of its own.
ToolResult(c) ==
    /\ pc = "stream" /\ c \in cur.closed \ answered
    /\ Create(Result({c}))
    /\ answered' = answered \cup {c}
    /\ UNCHANGED <<pc, cont, turn, step, made, cur, writes, read, todo, listed,
                   pending, timer, guide, seen, lost, crashes>>

\* A step with tool calls is followed by another one, unless a stop condition
\* or a tool ends the turn.
StepFinishes ==
    /\ pc = "stream" /\ cur.calls = cur.closed /\ cur.closed = answered
    /\ \E next \in (IF cur.calls # {} THEN {"prepare", "over"} ELSE {"over"}) :
           Update([cur EXCEPT !.finish = TRUE], next)
    /\ UNCHANGED <<answered, todo>>

-----------------------------------------------------------------------------
(* The stream's updates of the store *)

\* The turn goes on at label; its locals end with it.
GoesOn(label) ==
    /\ pc' = label
    /\ IF label = "over"
       THEN /\ cur' = NoMessage /\ step' = 0
            /\ answered' = {} /\ listed' = {} /\ todo' = {}
       ELSE UNCHANGED <<cur, step, answered, listed, todo>>

\* An update of a message that is gone, or of a file with a line that cannot be
\* read, is an error: it fails the stream, and ends the clean-up.  Only the
\* error of the last write counts.
UpdateReads ==
    /\ pc = "fetch"
    /\ IF Updatable(Head(writes))
       THEN GoesOn("write") /\ read' = store /\ UNCHANGED writes
       ELSE /\ writes' = Tail(writes)
            /\ GoesOn(IF writes' # <<>> THEN "fetch"
                      ELSE IF cont \in {"clean", "end"} THEN "over" ELSE "broken")
            /\ UNCHANGED read
    /\ UNCHANGED <<file, cont, turn, made, pending, timer, guide, seen,
                   lost, crashes>>

UpdateWrites ==
    /\ pc = "write"
    /\ Rewrites(read, Head(writes))
    /\ read' = <<>> /\ writes' = Tail(writes)
    /\ IF writes' # <<>>
       THEN GoesOn("fetch") /\ UNCHANGED cont
       ELSE GoesOn(IF cont = "end" THEN "over" ELSE cont) /\ cont' = "over"
    /\ UNCHANGED <<turn, made, pending, timer, guide, seen, crashes>>

-----------------------------------------------------------------------------
(* A turn that fails or is cancelled *)

StreamFails ==
    /\ pc \in {"prepare", "stream"}
    /\ pc' = "broken"
    /\ UNCHANGED <<file, cont, turn, step, made, cur, answered, writes, read,
                   todo, listed, pending, timer, guide, seen, lost,
                   crashes>>

\* Without an assistant message there is nothing to clean up.
CleanupLists ==
    /\ pc = "broken"
    /\ IF cur = NoMessage
       THEN GoesOn("over")
       ELSE /\ pc' = "clean" /\ todo' = cur.calls /\ listed' = ResultsIn(store)
            /\ UNCHANGED <<cur, step, answered>>
    /\ UNCHANGED <<file, cont, turn, made, writes, read, pending, timer,
                   guide, seen, lost, crashes>>

\* Fault: calls whose input was cut off get no result.
CleanupCall_SkipsOpen(c) ==
    /\ pc = "clean" /\ c \in todo
    /\ \/ /\ c \notin cur.closed
          /\ Update([cur EXCEPT !.closed = @ \cup {c}], "clean")
          /\ todo' = todo \ {c}
          /\ UNCHANGED answered
       \/ /\ c \in cur.closed
          /\ IF c \in listed THEN UNCHANGED file ELSE Create(Result({c}))
          /\ todo' = todo \ {c}
          /\ UNCHANGED <<pc, cont, turn, step, made, cur, answered, writes,
                         read, listed, pending, timer, guide, seen, lost,
                         crashes>>

\* Every call is finished, and gets a result unless it has one.
CleanupCall(c) ==
    /\ pc = "clean" /\ c \in todo
    /\ \/ /\ c \notin cur.closed
          /\ Update([cur EXCEPT !.closed = @ \cup {c}], "clean")
          /\ UNCHANGED <<answered, todo>>
       \/ /\ c \in cur.closed
          /\ IF c \in listed THEN UNCHANGED file ELSE Create(Result({c}))
          /\ todo' = todo \ {c}
          /\ UNCHANGED <<pc, cont, turn, step, made, cur, answered, writes,
                         read, listed, pending, timer, guide, seen, lost,
                         crashes>>

CleanupEnds ==
    /\ pc = "clean" /\ todo = {}
    /\ Update([cur EXCEPT !.finish = TRUE], "end")
    /\ UNCHANGED <<answered, todo>>

-----------------------------------------------------------------------------
(* The debouncer's timers, each with a goroutine of its own *)

FlushTakes(p) ==
    /\ p \in pending
    /\ flush' = flush \cup {p} /\ pending' = pending \ {p}
    /\ UNCHANGED <<file, stream, flushed, guide, seen, lost, crashes>>

FlushReads(p) ==
    /\ p \in flush
    /\ flush' = flush \ {p}
    /\ IF Updatable(p)
       THEN flushed' = flushed \cup {[msg |-> p, on |-> store]}
       ELSE UNCHANGED flushed
    /\ UNCHANGED <<file, stream, pending, guide, seen, lost, crashes>>

FlushWrites(f) ==
    /\ f \in flushed
    /\ flushed' = flushed \ {f}
    /\ Rewrites(f.on, f.msg)
    /\ UNCHANGED <<stream, pending, flush, guide, seen, crashes>>

-----------------------------------------------------------------------------
(* Inject, and a crash *)

InjectStores(g) ==
    /\ g \notin stored
    /\ Create(User(g))
    /\ stored' = stored \cup {g}
    /\ joined' = IF last = "closed" THEN joined \ {g} ELSE joined \cup {g}
    /\ UNCHANGED <<stream, pending, timer, buffer, given, seen, lost,
                   crashes>>

InjectBuffers(g) ==
    /\ g \in stored \ given
    /\ buffer' = buffer \cup {g} /\ given' = given \cup {g}
    /\ UNCHANGED <<file, stream, pending, timer, stored, joined, seen,
                   lost, crashes>>

\* The calls of step n have names of their own.
CallsOf(n) == {<<n, i>> : i \in 1..MaxCalls}

\* What the program may be in the middle of appending.
Appending ==
    (IF pc = "prompt" THEN {User(turn)} ELSE {})
    \cup (IF pc = "prepare" /\ step < MaxSteps THEN {Empty(made + 1)} ELSE {})
    \cup {Result({c}) : c \in {d \in CallsOf(made) :
              \/ pc = "stream" /\ d \in cur.closed \ answered
              \/ pc = "clean" /\ d \in (todo \cap cur.closed) \ listed}}
    \cup {User(g) : g \in Guidance \ stored}

\* A message without its newline, or a part of it, may be at the end of the file.
BreaksOff(m) ==
    \/ /\ last = "closed" /\ last' = "open"
       /\ store' = Append(store, m)
       /\ made' = IF m.role = "assistant" THEN m.of ELSE made
    \/ /\ last' = "torn"
       /\ store' = Terminated(store)
       /\ UNCHANGED made

\* The program dies and is started again; the file is what is left.
Restart ==
    /\ crashes < MaxCrashes
    /\ crashes' = crashes + 1
    /\ \/ UNCHANGED <<store, last, made>>
       \/ \E m \in Appending : BreaksOff(m)
    /\ GoesOn("over")
    /\ writes' = <<>> /\ read' = <<>> /\ cont' = "over"
    /\ pending' = {} /\ flush' = {} /\ flushed' = {}
    /\ buffer' = {} /\ stored' = given
    /\ UNCHANGED <<bad, turn, given, joined, seen, lost>>

-----------------------------------------------------------------------------
Init ==
    /\ store = <<>> /\ last = "closed" /\ bad = FALSE
    /\ pc = "over" /\ cont = "over"
    /\ turn = 0 /\ step = 0 /\ made = 0
    /\ cur = NoMessage /\ answered = {} /\ writes = <<>> /\ read = <<>>
    /\ todo = {} /\ listed = {}
    /\ pending = {} /\ flush = {} /\ flushed = {}
    /\ buffer = {} /\ stored = {} /\ given = {} /\ joined = {} /\ seen = {}
    /\ clobbered = FALSE /\ revived = {} /\ crashes = 0

Next ==
    \/ TurnBegins \/ StorePrompt \/ PrepareStep
    \/ TextDelta \/ StepFinishes
    \/ \E c \in CallsOf(made) : ToolInputStart(c) \/ ToolCall(c) \/ ToolResult(c)
    \/ UpdateReads \/ UpdateWrites
    \/ StreamFails \/ CleanupLists \/ CleanupEnds
    \/ \E c \in CallsOf(made) : CleanupCall(c)
    \/ \E p \in pending : FlushTakes(p)
    \/ \E p \in flush : FlushReads(p)
    \/ \E f \in flushed : FlushWrites(f)
    \/ \E g \in Guidance : InjectStores(g) \/ InjectBuffers(g)
    \/ Restart

Spec == Init /\ [][Next]_vars

-----------------------------------------------------------------------------
(* Properties *)

Labels == {"over", "prompt", "prepare", "stream", "fetch", "write",
           "broken", "clean"}

\* Types of the transcript and of the turn.
TypeOK ==
    /\ \A k \in DOMAIN store : store[k].role \in {"user", "assistant", "tool"}
    /\ pc \in Labels /\ cont \in Labels \cup {"end"}
    /\ turn \in 0..MaxTurns /\ step \in 0..MaxSteps /\ made \in Nat
    /\ \A p \in pending : p.role = "assistant" /\ ~p.finish /\ p.calls = {}
    /\ Len(writes) <= 2
    /\ buffer \subseteq given /\ given \subseteq stored /\ stored \subseteq Guidance
    /\ joined \subseteq Guidance
    /\ last \in {"closed", "open", "torn"} /\ bad \in BOOLEAN
    /\ clobbered \in BOOLEAN /\ crashes \in 0..MaxCrashes

\* Where the results of a call are in a prompt.
AnsweredAt(h, c) == {j \in DOMAIN h : h[j].role = "tool" /\ c \in h[j].of}

\* Whatever was lost to an overlapping update, a failure or a crash, the next
\* prompt has a result for every call, behind the message of the call and before
\* the next assistant message, and no result without a call.  It has only one,
\* unless an update brought a result back that the store no longer had: the
\* clean-up may have stored another one before.
PromptWellFormed ==
    pc = "over" =>
        LET h == preparePrompt(store)
        IN  /\ \A i \in DOMAIN h : h[i].role = "assistant" =>
                   \A c \in h[i].calls :
                       /\ AnsweredAt(h, c) # {}
                       /\ c \notin revived => \A j, l \in AnsweredAt(h, c) : j = l
                       /\ \A j \in AnsweredAt(h, c) :
                             i < j /\ \A k \in i + 1 .. j : h[k].role # "assistant"
            /\ \A j \in DOMAIN h : h[j].role = "tool" => h[j].of \subseteq CallsIn(h)

\* A turn that is over has left every assistant message finished and every
\* call with a stored result, cancelled and failed turns included, unless an
\* update overwrote newer messages or the program crashed.
TranscriptComplete ==
    pc = "over" /\ ~clobbered /\ crashes = 0 =>
        /\ \A e \in Assistants(store) : e.finish /\ e.calls = e.closed
        /\ CallsIn(store) = ResultsIn(store)

\* Guidance whose Inject has returned before a model step begins has reached
\* the model, in the prompt or in a step, unless it was overwritten in the
\* store and then lost from memory by a crash.  Without that it takes two
\* crashes to lose it: one to leave a line open, to which its own is joined,
\* and one to empty the buffer.
GuidanceSeen ==
    [][PrepareStep /\ ~(clobbered /\ crashes > 0) =>
           \A g \in given \ seen' : g \in joined /\ crashes > 1]_vars

\* "Idle sessions simply get the message stored (the next Run picks it up from
\* history)": guidance is not buffered once the model has it in its prompt.
GuidanceOnce == buffer \cap seen = {}
=============================================================================
