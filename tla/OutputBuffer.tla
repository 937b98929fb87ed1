---------------------------- MODULE OutputBuffer ----------------------------
(***************************************************************************)
(* One output stream of a background job: the syncBuffer of                *)
(* internal/core/shellruntime/shell, which keeps the first bytes of the    *)
(* stream and the last ones, and the guard that cancels a job whose stream *)
(* grows past a limit.                                                     *)
(*                                                                         *)
(* A byte is its position in the stream, so head and tail are sequences of *)
(* numbers and what they hold can be compared with what was written.  The  *)
(* other stream of the job is a second instance; sb.mu makes a Write one   *)
(* step, while the callback of the guard runs in a goroutine of its own.   *)
(***************************************************************************)
EXTENDS Naturals, Sequences

CONSTANTS
    Half,       \* backgroundOutputHalfBytes
    KillLimit,  \* sb.killLimit
    MaxChunk,   \* bound: bytes of one Write
    MaxTotal    \* bound: bytes of the stream

ASSUME SizesOK ==
    /\ Half \in Nat \ {0} /\ KillLimit \in Nat \ {0}
    /\ MaxChunk \in Nat /\ MaxTotal \in Nat

VARIABLES
    head,       \* stable prefix
    tail,       \* rolling suffix
    omitted,    \* bytes reported as dropped from the middle
    total,      \* bytes ever written
    overflowed, \* the guard has fired
    firing,     \* onOverflow goroutines that have not run yet
    stopped     \* the job's context is cancelled

bufferVars == <<head, tail, omitted, total, overflowed, firing, stopped>>

-----------------------------------------------------------------------------
\* The bytes i+1, ..., j of the stream.
Bytes(i, j) == [k \in 1..(j - i) |-> i + k]
\* The last n elements of s.
LastOf(s, n) == [k \in 1..n |-> s[Len(s) - n + k]]

\* Fault: a large chunk replaces the tail only when it exceeds its budget.
appendTail_KeepsFullTail(p) ==
    IF Len(p) > Half
    THEN /\ omitted' = omitted + (Len(p) - Half)
         /\ tail' = LastOf(p, Half)
    ELSE /\ omitted' = omitted
         /\ tail' = tail \o p

\* appendTailLocked: a chunk that fills the budget replaces the tail, a
\* smaller one pushes the oldest bytes of the tail out.
appendTail(p) ==
    IF Len(p) >= Half
    THEN /\ omitted' = omitted + (Len(p) - Half)
         /\ tail' = LastOf(p, Half)
    ELSE LET joined == tail \o p
         IN  IF Len(joined) > Half
             THEN /\ omitted' = omitted + (Len(joined) - Half)
                  /\ tail' = LastOf(joined, Half)
             ELSE /\ omitted' = omitted
                  /\ tail' = joined

\* Fault: the chunk goes to the tail whole, its part in the head included.
Store_NoCut(n) ==
    /\ head' = IF Len(head) < Half
               THEN head \o Bytes(total, total + (IF n <= Half - Len(head)
                                                  THEN n ELSE Half - Len(head)))
               ELSE head
    /\ IF Len(head) < Half /\ n <= Half - Len(head)
       THEN UNCHANGED <<tail, omitted>>
       ELSE appendTail(Bytes(total, total + n))

\* A chunk of n bytes fills the head first; what is left goes to the tail.
Store(n) ==
    LET room == Half - Len(head)
    IN  IF Len(head) < Half /\ n <= room
        THEN /\ head' = head \o Bytes(total, total + n)
             /\ UNCHANGED <<tail, omitted>>
        ELSE /\ head' = head \o Bytes(total, total + room)
             /\ appendTail(Bytes(total + room, total + n))

\* Fault: the flag is not set, so every later Write fires again.
Guard_Refires(n) ==
    /\ firing' = IF total + n >= KillLimit THEN firing + 1 ELSE firing
    /\ UNCHANGED overflowed

\* The compare-and-swap on overflowed fires the callback once.
Guard(n) ==
    IF total + n >= KillLimit /\ ~overflowed
    THEN overflowed' = TRUE /\ firing' = firing + 1
    ELSE UNCHANGED <<overflowed, firing>>

Write(n) ==
    /\ total + n <= MaxTotal
    /\ total' = total + n
    /\ Guard(n)
    /\ Store(n)
    /\ UNCHANGED stopped

\* onOverflow, in its goroutine: bgShell.cancel().
Overflow ==
    /\ firing > 0
    /\ firing' = firing - 1
    /\ stopped' = TRUE
    /\ UNCHANGED <<head, tail, omitted, total, overflowed>>

BufferInit ==
    /\ head = <<>> /\ tail = <<>>
    /\ omitted = 0 /\ total = 0
    /\ overflowed = FALSE /\ firing = 0 /\ stopped = FALSE

BufferNext == (\E n \in 0..MaxChunk : Write(n)) \/ Overflow

BufferSpec == BufferInit /\ [][BufferNext]_bufferVars

-----------------------------------------------------------------------------
(* Properties *)

\* Types of the buffer's state.
BufferTypes ==
    /\ head \in Seq(Nat) /\ tail \in Seq(Nat)
    /\ omitted \in Nat /\ total \in Nat /\ firing \in Nat
    /\ overflowed \in BOOLEAN /\ stopped \in BOOLEAN

\* How many bytes the head and the tail have room for.
HeadSize == IF total < Half THEN total ELSE Half
TailSize == IF total - HeadSize < Half THEN total - HeadSize ELSE Half

\* The buffer is "a stable head plus a rolling tail": however the stream is
\* cut into chunks, it holds the first Half bytes and the last Half bytes of
\* the rest, as many as there are, each once and in order.
HeadThenTail ==
    /\ head = Bytes(0, HeadSize)
    /\ tail = Bytes(total - TailSize, total)

\* The marker never claims more bytes than are missing.
NeverOvercounts == omitted <= total - (HeadSize + TailSize)

\* "fire once": a job is cancelled by its output exactly when the stream has
\* reached the limit, by one call of the callback.
FiresOnce ==
    /\ overflowed <=> total >= KillLimit
    /\ firing + (IF stopped THEN 1 ELSE 0) = (IF overflowed THEN 1 ELSE 0)

\* "every byte ever observed (head+tail+omitted)".
EveryByteCounted == total = Len(head) + Len(tail) + omitted
=============================================================================
