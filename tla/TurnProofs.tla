----------------------------- MODULE TurnProofs -----------------------------
(***************************************************************************)
(* Proofs about Turn, for any guidance and any numbers of turns, steps,    *)
(* tool calls and crashes: every prompt is well-formed, whatever updates   *)
(* overlapped, failed or were cut by a crash; a turn that is over leaves   *)
(* nothing open, unless something was overwritten or the program crashed;  *)
(* and guidance reaches the model.                                         *)
(*                                                                         *)
(* preparePrompt is a FlattenSeq, which is defined by recursion: what it   *)
(* computes is proved by induction, as the least counterexample.  From     *)
(* there on a prompt is known by where the entries of each message stand,  *)
(* and that it is well-formed follows from the order of the stored         *)
(* messages alone (Ordered), which every step keeps.                       *)
(***************************************************************************)
EXTENDS Turn, FiniteSetTheorems, WellFoundedInduction, SequenceTheorems, TLAPS

-----------------------------------------------------------------------------
(* What FlattenSeq computes *)

\* A set of natural numbers has a least one: the induction of this module.
LEMMA Least ==
  ASSUME NEW T \in SUBSET Nat, T # {}
  PROVE  \E n \in T : \A m \in T : ~(m < n)
<1> DEFINE R == {ss \in Nat \X Nat : ss[1] < ss[2]}
<1>1. IsWellFoundedOn(R, Nat)
  <2>1. R = OpToRel(<, Nat)
    BY DEF OpToRel
  <2> QED BY <2>1, NatLessThanWellFounded
<1>2. PICK x \in T : \A y \in T : <<y, x>> \notin R
  <2> HIDE DEF R
  <2> QED BY <1>1, WFMin
<1>3. \A y \in T : ~(y < x)
  <2> TAKE y \in T
  <2>1. <<y, x>> \in Nat \X Nat /\ <<y, x>>[1] = y /\ <<y, x>>[2] = x
    OBVIOUS
  <2> QED BY <1>2, <2>1
<1> QED BY <1>3

\* f[i] is the first i sequences of ss in one.
Joins(f, ss, n) ==
    f = [i \in 1..n |-> IF i = 1 THEN ss[i] ELSE f[i-1] \o ss[i]]

\* The recursion has a solution.
LEMMA JoinsExist ==
  ASSUME NEW ss, NEW n \in Nat
  PROVE  \E f : Joins(f, ss, n)
<1> DEFINE T == {k \in Nat : ~ \E f : Joins(f, ss, k)}
<1> SUFFICES ASSUME T # {} PROVE FALSE
  OBVIOUS
<1>1. PICK k \in T : \A m \in T : ~(m < k)
  BY Least
<1>2. k # 0
  <2>1. Joins(<<>>, ss, 0)
    BY DEF Joins
  <2> QED BY <2>1
<1>3. PICK f : Joins(f, ss, k-1)
  <2>1. k - 1 \in Nat /\ k - 1 \notin T
    BY <1>1, <1>2
  <2> QED BY <2>1
<1> DEFINE g == [i \in 1..k |->
      IF i < k THEN f[i] ELSE IF i = 1 THEN ss[i] ELSE f[i-1] \o ss[i]]
<1>4. \A i \in 1..k : g[i] = IF i = 1 THEN ss[i] ELSE g[i-1] \o ss[i]
  <2> TAKE i \in 1..k
  <2>1. CASE i = k
    BY <2>1
  <2>2. CASE i < k
    <3>1. i \in 1..(k-1)
      BY <2>2
    <3>2. f[i] = [j \in 1..(k-1) |-> IF j = 1 THEN ss[j] ELSE f[j-1] \o ss[j]][i]
      BY <1>3, Zenon DEF Joins
    <3>3. f[i] = IF i = 1 THEN ss[i] ELSE f[i-1] \o ss[i]
      BY <3>1, <3>2
    <3> QED BY <2>2, <3>3
  <2> QED BY <2>1, <2>2
<1>5. Joins(g, ss, k)
  <2>1. g = [i \in 1..k |-> g[i]]
    OBVIOUS
  <2> HIDE DEF g
  <2>2. [i \in 1..k |-> g[i]] = [i \in 1..k |-> IF i = 1 THEN ss[i] ELSE g[i-1] \o ss[i]]
    BY <1>4
  <2> QED BY <2>1, <2>2, Zenon DEF Joins
<1> QED BY <1>1, <1>5

LEMMA FlattenIsJoin ==
  ASSUME NEW ss, Len(ss) \in Nat \ {0}
  PROVE  \E f : Joins(f, ss, Len(ss)) /\ FlattenSeq(ss) = f[Len(ss)]
<1> DEFINE F == CHOOSE f : Joins(f, ss, Len(ss))
<1>1. Joins(F, ss, Len(ss))
  BY JoinsExist, Zenon
<1>2. FlattenSeq(ss) = F[Len(ss)]
  BY Zenon DEF FlattenSeq, Joins
<1> QED BY <1>1, <1>2

\* h is the first n sequences of ss, one behind the other; the k-th comes
\* behind position start[k].
Blocks(h, ss, n, start) ==
    /\ start \in [1..n -> Nat]
    /\ \A k \in 1..n :
          /\ start[k] + Len(ss[k]) <= Len(h)
          /\ \A q \in 1..Len(ss[k]) : h[start[k] + q] = ss[k][q]
    /\ \A k, l \in 1..n : k < l => start[k] + Len(ss[k]) <= start[l]
    /\ \A p \in 1..Len(h) : \E k \in 1..n : \E q \in 1..Len(ss[k]) : p = start[k] + q

\* One more sequence is one more block.
LEMMA OneMoreBlock ==
  ASSUME NEW S, NEW ss, NEW n \in Nat, NEW h \in Seq(S), NEW start,
         Blocks(h, ss, n, start), \A k \in 1..n+1 : ss[k] \in Seq(S)
  PROVE  /\ h \o ss[n+1] \in Seq(S)
         /\ Blocks(h \o ss[n+1], ss, n+1,
                   [k \in 1..n+1 |-> IF k <= n THEN start[k] ELSE Len(h)])
<1> DEFINE t == ss[n+1]
           h2 == h \o t
           st == [k \in 1..n+1 |-> IF k <= n THEN start[k] ELSE Len(h)]
<1>1. /\ t \in Seq(S) /\ Len(t) \in Nat /\ Len(h) \in Nat
      /\ h2 \in Seq(S) /\ Len(h2) = Len(h) + Len(t)
      /\ \A p \in 1..Len(h) : h2[p] = h[p]
      /\ \A q \in 1..Len(t) : h2[Len(h) + q] = t[q]
  <2>1. t \in Seq(S)
    OBVIOUS
  <2> HIDE DEF t
  <2> QED BY <2>1, ConcatProperties
<1>2. \A k \in 1..n+1 : Len(ss[k]) \in Nat
  OBVIOUS
<1>3. st \in [1..n+1 -> Nat] /\ st[n+1] = Len(h) /\ \A k \in 1..n : st[k] = start[k]
  BY <1>1 DEF Blocks
<1>4. t = ss[n+1]
  OBVIOUS
<1> HIDE DEF st, h2, t
<1>5. \A k \in 1..n+1 :
         /\ st[k] + Len(ss[k]) <= Len(h2)
         /\ \A q \in 1..Len(ss[k]) : h2[st[k] + q] = ss[k][q]
  <2> TAKE k \in 1..n+1
  <2>1. CASE k = n+1
    <3>1. ss[k] = t /\ st[k] = Len(h)
      BY <1>3, <1>4, <2>1
    <3> QED BY <1>1, <3>1
  <2>2. CASE k \in 1..n
    <3>1. start[k] \in Nat /\ start[k] + Len(ss[k]) <= Len(h)
      BY <2>2 DEF Blocks
    <3>2. ASSUME NEW q \in 1..Len(ss[k])
          PROVE  h2[start[k] + q] = ss[k][q]
      <4>1. start[k] + q \in 1..Len(h)
        BY <1>1, <1>2, <3>1
      <4>2. h[start[k] + q] = ss[k][q]
        BY <2>2 DEF Blocks
      <4> QED BY <1>1, <4>1, <4>2
    <3>3. st[k] = start[k] /\ Len(ss[k]) \in Nat
      BY <1>2, <1>3, <2>2
    <3>4. st[k] + Len(ss[k]) <= Len(h2)
      BY <1>1, <3>1, <3>3
    <3> QED BY <3>2, <3>3, <3>4
  <2> QED BY <2>1, <2>2
<1>6. \A k, l \in 1..n+1 : k < l => st[k] + Len(ss[k]) <= st[l]
  <2> SUFFICES ASSUME NEW k \in 1..n+1, NEW l \in 1..n+1, k < l
               PROVE  st[k] + Len(ss[k]) <= st[l]
    OBVIOUS
  <2>1. k \in 1..n
    OBVIOUS
  <2>2. CASE l = n+1
    BY <1>3, <2>1, <2>2 DEF Blocks
  <2>3. CASE l \in 1..n
    BY <1>3, <2>1, <2>3 DEF Blocks
  <2> QED BY <2>2, <2>3
<1>7. \A p \in 1..Len(h2) : \E k \in 1..n+1 : \E q \in 1..Len(ss[k]) : p = st[k] + q
  <2> TAKE p \in 1..Len(h2)
  <2>1. CASE p \in 1..Len(h)
    <3>1. PICK k \in 1..n : \E q \in 1..Len(ss[k]) : p = start[k] + q
      BY <2>1 DEF Blocks
    <3>2. k \in 1..n+1
      OBVIOUS
    <3> QED BY <1>3, <3>1, <3>2
  <2>2. CASE p > Len(h)
    <3>1. p - Len(h) \in 1..Len(t) /\ p = Len(h) + (p - Len(h))
      BY <1>1, <2>2
    <3>2. n+1 \in 1..n+1
      OBVIOUS
    <3> QED BY <1>3, <1>4, <3>1, <3>2
  <2>3. p \in 1..Len(h) \/ p > Len(h)
    BY <1>1
  <2> QED BY <2>1, <2>2, <2>3
<1>8. Blocks(h2, ss, n+1, st)
  BY <1>3, <1>5, <1>6, <1>7 DEF Blocks
<1> QED BY <1>1, <1>4, <1>8 DEF st, h2

LEMMA JoinBlocks ==
  ASSUME NEW S, NEW n \in Nat, NEW ss, \A k \in 1..n : ss[k] \in Seq(S),
         NEW f, Joins(f, ss, n), NEW i \in 1..n
  PROVE  f[i] \in Seq(S) /\ \E start : Blocks(f[i], ss, i, start)
<1> DEFINE Good(k) == f[k] \in Seq(S) /\ \E start : Blocks(f[k], ss, k, start)
           T == {k \in 1..n : ~Good(k)}
<1> SUFFICES ASSUME T # {} PROVE FALSE
  OBVIOUS
<1>1. PICK k \in T : \A m \in T : ~(m < k)
  <2>1. T \in SUBSET Nat
    OBVIOUS
  <2> HIDE DEF T
  <2> QED BY <2>1, Least
<1>2. \A m \in 1..n : f[m] = IF m = 1 THEN ss[m] ELSE f[m-1] \o ss[m]
  <2> TAKE m \in 1..n
  <2>1. f[m] = [j \in 1..n |-> IF j = 1 THEN ss[j] ELSE f[j-1] \o ss[j]][m]
    BY Zenon DEF Joins
  <2> QED BY <2>1
<1>3. CASE k = 1
  <2>1. f[1] = ss[1] /\ ss[1] \in Seq(S)
    BY <1>2, <1>3
  <2>2. Blocks(f[1], ss, 1, [j \in 1..1 |-> 0])
    BY <2>1 DEF Blocks
  <2> QED BY <1>3, <2>1, <2>2
<1>4. CASE k > 1
  <2>1. k - 1 \in 1..n /\ k - 1 \notin T /\ (k - 1) + 1 = k /\ k - 1 \in Nat
    <3>1. k \in 1..n /\ k - 1 < k
      BY <1>1
    <3> HIDE DEF Good
    <3> QED BY <1>1, <1>4, <3>1
  <2>2. Good(k - 1)
    BY <2>1
  <2>3. PICK start : Blocks(f[k-1], ss, k-1, start)
    BY <2>2
  <2>4. f[k] = f[k-1] \o ss[k]
    <3>1. k \in 1..n /\ k # 1
      BY <1>1, <1>4
    <3> QED BY <1>2, <3>1
  <2>5. Good((k-1) + 1)
    <3>1. \A j \in 1..(k-1)+1 : ss[j] \in Seq(S)
      OBVIOUS
    <3>2. /\ f[k-1] \o ss[(k-1)+1] \in Seq(S)
          /\ \E st : Blocks(f[k-1] \o ss[(k-1)+1], ss, (k-1)+1, st)
      BY <2>1, <2>2, <2>3, <3>1, OneMoreBlock
    <3> QED BY <2>1, <2>4, <3>2
  <2> QED BY <2>1, <2>5
<1> QED BY <1>3, <1>4

\* FlattenSeq puts the sequences one behind the other.
LEMMA FlattenBlocks ==
  ASSUME NEW S, NEW ss \in Seq(Seq(S))
  PROVE  /\ FlattenSeq(ss) \in Seq(S)
         /\ \E start : Blocks(FlattenSeq(ss), ss, Len(ss), start)
<1>1. CASE ss = <<>>
  <2>1. FlattenSeq(ss) = <<>>
    BY <1>1 DEF FlattenSeq
  <2>2. \E start : Blocks(<<>>, ss, 0, start)
    <3>1. Blocks(<<>>, ss, 0, [k \in 1..0 |-> 0])
      BY DEF Blocks
    <3> QED BY <3>1
  <2>3. Len(ss) = 0 /\ <<>> \in Seq(S)
    BY <1>1
  <2> QED BY <2>1, <2>2, <2>3
<1>2. CASE ss # <<>>
  <2>1. Len(ss) \in Nat \ {0} /\ Len(ss) \in 1..Len(ss) /\ Len(ss) \in Nat
    BY <1>2
  <2>2. PICK f : Joins(f, ss, Len(ss)) /\ FlattenSeq(ss) = f[Len(ss)]
    BY <2>1, FlattenIsJoin
  <2>3. \A k \in 1..Len(ss) : ss[k] \in Seq(S)
    OBVIOUS
  <2>4. /\ f[Len(ss)] \in Seq(S)
        /\ \E start : Blocks(f[Len(ss)], ss, Len(ss), start)
    BY <2>1, <2>2, <2>3, JoinBlocks
  <2> QED BY <2>2, <2>4
<1> QED BY <1>1, <1>2

-----------------------------------------------------------------------------
(* Messages *)

\* A version of assistant message i, for i up to n; its calls are those of i.
Shapes ==
    [role : {"assistant"}, of : Nat, text : BOOLEAN, calls : SUBSET (Nat \X Nat),
     closed : SUBSET (Nat \X Nat), finish : BOOLEAN]
Versions(n) ==
    {m \in Shapes :
        m.of \in 1..n /\ m.calls \subseteq CallsOf(m.of) /\ m.closed \subseteq m.calls}
Texts == [role : {"user"}, of : Nat \cup Guidance]
ResultsTo(n) == {Result({c}) : c \in UNION {CallsOf(i) : i \in 1..n}}
\* What the store can hold when n assistant messages have been made.
Messages(n) == Versions(n) \cup Texts \cup ResultsTo(n)

\* m is the result of call c.
Answers(m, c) == m = Result({c}) /\ m.role = "tool" /\ m.of = {c}

LEMMA MessageKinds ==
  ASSUME NEW n \in Nat, NEW m \in Messages(n)
  PROVE  /\ m.role \in {"user", "assistant", "tool"}
         /\ m.role = "user" => m \in Texts
         /\ m.role = "assistant" => m \in Versions(n)
         /\ m.role = "tool" => \E i \in 1..n : \E c \in CallsOf(i) : Answers(m, c)
<1>1. CASE m \in Versions(n)
  BY <1>1 DEF Versions, Shapes
<1>2. CASE m \in Texts
  BY <1>2 DEF Texts
<1>3. CASE m \in ResultsTo(n)
  <2>1. PICK i \in 1..n : \E c \in CallsOf(i) : m = Result({c})
    BY <1>3 DEF ResultsTo
  <2>2. PICK c \in CallsOf(i) : m = Result({c})
    BY <2>1
  <2>3. Answers(m, c)
    BY <2>2 DEF Result, Answers
  <2>4. m.role = "tool"
    BY <2>3 DEF Answers
  <2> QED BY <2>3, <2>4
<1> QED BY <1>1, <1>2, <1>3 DEF Messages

\* The messages of a list are in order: assistant messages by their numbers,
\* and the results of a call behind its message and before the next one.
Ordered(s) ==
    /\ \A k, l \in DOMAIN s :
          s[k].role = "assistant" /\ s[l].role = "assistant" /\ k < l =>
             s[k].of < s[l].of
    /\ \A k, l \in DOMAIN s :
          s[k].role = "assistant" /\ s[l].role = "tool" =>
             \A c \in s[l].of : (k < l => s[k].of <= c[1]) /\ (l < k => c[1] < s[k].of)

\* No call but those of R has two results.
Single(s, R) ==
    \A k, l \in DOMAIN s :
        s[k].role = "tool" /\ s[l].role = "tool" /\ s[k].of = s[l].of =>
            k = l \/ s[k].of \subseteq R

LEMMA CallListed ==
  ASSUME NEW s, NEW c
  PROVE  c \in CallsIn(s) <=> \E k \in DOMAIN s : s[k].role = "assistant" /\ c \in s[k].calls
BY DEF CallsIn, Assistants

LEMMA ResultListed ==
  ASSUME NEW n \in Nat, NEW s \in Seq(Messages(n)), NEW c
  PROVE  c \in ResultsIn(s) <=> \E k \in DOMAIN s : s[k].role = "tool" /\ s[k].of = {c}
<1>1. ASSUME NEW k \in DOMAIN s, s[k].role = "tool" PROVE c \in s[k].of <=> s[k].of = {c}
  <2>1. s[k] \in Messages(n)
    OBVIOUS
  <2>2. PICK i \in 1..n : \E d \in CallsOf(i) : Answers(s[k], d)
    BY <1>1, <2>1, MessageKinds
  <2> QED BY <2>2 DEF Answers
<1>2. c \in ResultsIn(s) <=> \E k \in DOMAIN s : s[k].role = "tool" /\ c \in s[k].of
  BY DEF ResultsIn
<1> QED BY <1>1, <1>2

-----------------------------------------------------------------------------
(* The prompt *)

Entries == Shapes \cup Texts \cup [role : {"tool"}, of : SUBSET (Nat \X Nat)]

\* What a message of the store becomes, by its role.
LEMMA PreparedUser ==
  ASSUME NEW n \in Nat, NEW s \in Seq(Messages(n)), NEW k \in DOMAIN s, s[k].role = "user"
  PROVE  Prepared(s, k) = <<s[k]>> /\ s[k] \in Entries
<1>1. s[k] \in Texts
  <2>1. s[k] \in Messages(n)
    OBVIOUS
  <2> QED BY <2>1, MessageKinds
<1> QED BY <1>1 DEF Prepared, Entries

LEMMA PreparedTool ==
  ASSUME NEW n \in Nat, NEW s \in Seq(Messages(n)), NEW k \in DOMAIN s, s[k].role = "tool"
  PROVE  \E c \in Nat \X Nat :
            /\ s[k] = Result({c}) /\ s[k].of = {c} /\ s[k] \in Entries
            /\ Prepared(s, k) = IF c \in CallsIn(s) THEN <<s[k]>> ELSE <<>>
<1>1. s[k] \in Messages(n)
  OBVIOUS
<1>2. PICK i \in 1..n : \E c \in CallsOf(i) : Answers(s[k], c)
  BY <1>1, MessageKinds
<1>3. PICK c \in CallsOf(i) : s[k] = Result({c}) /\ s[k].of = {c}
  BY <1>2 DEF Answers
<1>4. c \in Nat \X Nat
  BY DEF CallsOf
<1>5. s[k] \in Entries
  BY <1>3, <1>4 DEF Entries, Result
<1>6. CASE c \in CallsIn(s)
  <2>1. s[k].of \cap CallsIn(s) = {c} /\ {c} # {}
    BY <1>3, <1>6
  <2> QED BY <1>3, <1>4, <1>5, <1>6, <2>1 DEF Prepared
<1>7. CASE c \notin CallsIn(s)
  <2>1. s[k].of \cap CallsIn(s) = {}
    BY <1>3, <1>7
  <2> QED BY <1>3, <1>4, <1>5, <1>7, <2>1 DEF Prepared
<1> QED BY <1>6, <1>7

LEMMA PreparedAssistant ==
  ASSUME NEW n \in Nat, NEW s \in Seq(Messages(n)), NEW k \in DOMAIN s,
         s[k].role = "assistant"
  PROVE  /\ s[k] \in Versions(n) /\ s[k] \in Entries
         /\ Result(s[k].calls \ ResultsIn(s)) \in Entries
         /\ \/ s[k].calls = {} /\ Prepared(s, k) = <<>>
            \/ s[k].calls \subseteq ResultsIn(s) /\ Prepared(s, k) = <<s[k]>>
            \/ /\ ~(s[k].calls \subseteq ResultsIn(s))
               /\ Prepared(s, k) = <<s[k], Result(s[k].calls \ ResultsIn(s))>>
<1>1. s[k] \in Versions(n)
  <2>1. s[k] \in Messages(n)
    OBVIOUS
  <2> QED BY <2>1, MessageKinds
<1>2. s[k] \in Entries
  BY <1>1 DEF Versions, Entries
<1>3. Result(s[k].calls \ ResultsIn(s)) \in Entries
  BY <1>1 DEF Versions, Shapes, Entries, Result
<1>4. s[k].calls \ ResultsIn(s) = {} <=> s[k].calls \subseteq ResultsIn(s)
  OBVIOUS
<1> QED BY <1>1, <1>2, <1>3, <1>4 DEF Prepared

\* What a message becomes: the message itself or nothing, and then perhaps the
\* result of its calls that have none.
Becomes(p, s, k) ==
    /\ p \in Seq(Entries)
    /\ \A q \in 1..Len(p) :
          \/ q = 1 /\ p[q] = s[k] /\ (s[k].role = "tool" => s[k].of \subseteq CallsIn(s))
          \/ /\ q = 2 /\ s[k].role = "assistant"
             /\ p[q] = Result(s[k].calls \ ResultsIn(s))
    /\ s[k].role = "user" => Len(p) >= 1
    /\ s[k].role = "tool" /\ s[k].of \subseteq CallsIn(s) => Len(p) >= 1
    /\ s[k].role = "assistant" /\ s[k].calls # {} => Len(p) >= 1
    /\ s[k].role = "assistant" /\ ~(s[k].calls \subseteq ResultsIn(s)) => Len(p) >= 2

LEMMA PreparedBecomes ==
  ASSUME NEW n \in Nat, NEW s \in Seq(Messages(n)), NEW k \in DOMAIN s
  PROVE  Becomes(Prepared(s, k), s, k)
<1>1. s[k] \in Messages(n)
  OBVIOUS
<1>2. CASE s[k].role = "user"
  <2>1. Prepared(s, k) = <<s[k]>> /\ s[k] \in Entries
    BY <1>2, PreparedUser
  <2> QED BY <1>2, <2>1 DEF Becomes
<1>3. CASE s[k].role = "tool"
  <2>1. PICK c \in Nat \X Nat :
            /\ s[k] = Result({c}) /\ s[k].of = {c} /\ s[k] \in Entries
            /\ Prepared(s, k) = IF c \in CallsIn(s) THEN <<s[k]>> ELSE <<>>
    BY <1>3, PreparedTool
  <2>2. s[k].of \subseteq CallsIn(s) <=> c \in CallsIn(s)
    BY <2>1
  <2>3. s[k] \in Entries
    BY <2>1
  <2>4. CASE c \in CallsIn(s)
    <3>1. Prepared(s, k) = <<s[k]>>
      BY <2>1, <2>4
    <3> QED BY <1>3, <2>2, <2>3, <2>4, <3>1 DEF Becomes
  <2>5. CASE c \notin CallsIn(s)
    <3>1. Prepared(s, k) = <<>>
      BY <2>1, <2>5
    <3> QED BY <1>3, <2>2, <2>5, <3>1 DEF Becomes
  <2> QED BY <2>4, <2>5
<1>4. CASE s[k].role = "assistant"
  <2> DEFINE r == Result(s[k].calls \ ResultsIn(s))
  <2>1. /\ s[k] \in Entries /\ r \in Entries
        /\ \/ s[k].calls = {} /\ Prepared(s, k) = <<>>
           \/ s[k].calls \subseteq ResultsIn(s) /\ Prepared(s, k) = <<s[k]>>
           \/ ~(s[k].calls \subseteq ResultsIn(s)) /\ Prepared(s, k) = <<s[k], r>>
    BY <1>4, PreparedAssistant
  <2>2. r = Result(s[k].calls \ ResultsIn(s))
    OBVIOUS
  <2> HIDE DEF r
  <2>3. CASE s[k].calls = {} /\ Prepared(s, k) = <<>>
    BY <1>4, <2>3 DEF Becomes
  <2>4. CASE s[k].calls \subseteq ResultsIn(s) /\ Prepared(s, k) = <<s[k]>>
    BY <1>4, <2>1, <2>4 DEF Becomes
  <2>5. CASE ~(s[k].calls \subseteq ResultsIn(s)) /\ Prepared(s, k) = <<s[k], r>>
    <3>1. PICK p : p = Prepared(s, k)
      OBVIOUS
    <3>2. p \in Seq(Entries) /\ Len(p) = 2 /\ p[1] = s[k] /\ p[2] = r
      BY <2>1, <2>5, <3>1
    <3>3. \A q \in 1..Len(p) : (q = 1 /\ p[q] = s[k]) \/ (q = 2 /\ p[q] = r)
      BY <3>2
    <3>4. s[k].role # "tool" /\ s[k].role # "user"
      BY <1>4
    <3>5. Becomes(p, s, k)
      BY <1>4, <2>2, <3>2, <3>3, <3>4 DEF Becomes
    <3> QED BY <3>1, <3>5
  <2> QED BY <2>1, <2>3, <2>4, <2>5
<1> QED BY <1>1, <1>2, <1>3, <1>4, MessageKinds

\* h holds what the messages of s become, one behind the other: what message k
\* becomes, p[k], comes behind position start[k].
Laid(h, s, p, start) ==
    /\ h \in Seq(Entries) /\ start \in [DOMAIN s -> Nat]
    /\ \A k \in DOMAIN s : Becomes(p[k], s, k) /\ Len(p[k]) \in Nat
    /\ \A k, l \in DOMAIN s : k < l => start[k] + Len(p[k]) <= start[l]
    /\ \A j \in DOMAIN h : \E k \in DOMAIN s : \E q \in 1..Len(p[k]) :
          j = start[k] + q /\ h[j] = p[k][q]
    /\ \A k \in DOMAIN s : \A q \in 1..Len(p[k]) :
          start[k] + q \in DOMAIN h /\ h[start[k] + q] = p[k][q]

LEMMA PromptIsLaid ==
  ASSUME NEW n \in Nat, NEW s \in Seq(Messages(n))
  PROVE  \E p : \E start : Laid(preparePrompt(s), s, p, start)
<1> DEFINE p == [k \in DOMAIN s |-> Prepared(s, k)]
           h == FlattenSeq(p)
<1>1. \A k \in DOMAIN s : Becomes(p[k], s, k) /\ p[k] \in Seq(Entries) /\ Len(p[k]) \in Nat
  <2> TAKE k \in DOMAIN s
  <2>1. Becomes(Prepared(s, k), s, k)
    BY PreparedBecomes
  <2>2. p[k] = Prepared(s, k)
    OBVIOUS
  <2> HIDE DEF p
  <2>3. Becomes(p[k], s, k)
    BY <2>1, <2>2
  <2>4. p[k] \in Seq(Entries)
    BY <2>3 DEF Becomes
  <2> QED BY <2>3, <2>4
<1>2. DOMAIN s = 1..Len(s) /\ Len(s) \in Nat
  OBVIOUS
<1>3. p \in Seq(Seq(Entries)) /\ Len(p) = Len(s)
  <2>1. p \in [1..Len(s) -> Seq(Entries)]
    BY <1>1, <1>2
  <2> HIDE DEF p
  <2> QED BY <1>2, <2>1
<1>4. preparePrompt(s) = h
  BY DEF preparePrompt
<1> HIDE DEF p
<1>5. h \in Seq(Entries) /\ \E start : Blocks(h, p, Len(s), start)
  BY <1>3, FlattenBlocks
<1> HIDE DEF h
<1>6. PICK start : Blocks(h, p, Len(s), start)
  BY <1>5
<1>7. start \in [DOMAIN s -> Nat] /\ DOMAIN h = 1..Len(h) /\ Len(h) \in Nat
  BY <1>2, <1>5, <1>6 DEF Blocks
<1>8. \A k, l \in DOMAIN s : k < l => start[k] + Len(p[k]) <= start[l]
  BY <1>2, <1>6 DEF Blocks
<1>9. \A k \in DOMAIN s : \A q \in 1..Len(p[k]) :
          start[k] + q \in DOMAIN h /\ h[start[k] + q] = p[k][q]
  <2> TAKE k \in DOMAIN s
  <2> TAKE q \in 1..Len(p[k])
  <2>1. start[k] + Len(p[k]) <= Len(h) /\ h[start[k] + q] = p[k][q]
    BY <1>2, <1>6 DEF Blocks
  <2>2. start[k] \in Nat /\ Len(p[k]) \in Nat
    BY <1>1, <1>7
  <2> QED BY <1>7, <2>1, <2>2
<1>10. \A j \in DOMAIN h : \E k \in DOMAIN s : \E q \in 1..Len(p[k]) :
          j = start[k] + q /\ h[j] = p[k][q]
  <2> TAKE j \in DOMAIN h
  <2>1. PICK k \in DOMAIN s : \E q \in 1..Len(p[k]) : j = start[k] + q
    BY <1>2, <1>6, <1>7 DEF Blocks
  <2>2. PICK q \in 1..Len(p[k]) : j = start[k] + q
    BY <2>1
  <2>3. h[j] = p[k][q]
    BY <1>9, <2>2
  <2> QED BY <2>2, <2>3
<1>11. Laid(h, s, p, start)
  BY <1>1, <1>5, <1>7, <1>8, <1>9, <1>10 DEF Laid
<1> QED BY <1>4, <1>11

\* Entry j of a prompt stands for message k: it is that message, or the result
\* of the calls of k that have none.
StandsFor(h, j, s, start, k) ==
    \/ /\ j = start[k] + 1 /\ h[j] = s[k]
       /\ s[k].role = "tool" => s[k].of \subseteq CallsIn(s)
    \/ /\ s[k].role = "assistant" /\ j = start[k] + 2
       /\ h[j] = Result(s[k].calls \ ResultsIn(s))

LEMMA LaidEntry ==
  ASSUME NEW s, NEW h, NEW p, NEW start, Laid(h, s, p, start), NEW j \in DOMAIN h
  PROVE  \E k \in DOMAIN s : StandsFor(h, j, s, start, k)
<1>1. PICK k \in DOMAIN s : \E q \in 1..Len(p[k]) : j = start[k] + q /\ h[j] = p[k][q]
  BY DEF Laid
<1>2. PICK q \in 1..Len(p[k]) : j = start[k] + q /\ h[j] = p[k][q]
  BY <1>1
<1>3. \/ q = 1 /\ p[k][q] = s[k] /\ (s[k].role = "tool" => s[k].of \subseteq CallsIn(s))
      \/ /\ q = 2 /\ s[k].role = "assistant"
         /\ p[k][q] = Result(s[k].calls \ ResultsIn(s))
  BY DEF Laid, Becomes
<1>4. StandsFor(h, j, s, start, k)
  BY <1>2, <1>3 DEF StandsFor
<1> QED BY <1>4

\* A prompt holds the message, before what it holds of a later one.
Stands(s, k) ==
    \/ s[k].role = "user"
    \/ s[k].role = "tool" /\ s[k].of \subseteq CallsIn(s)
    \/ s[k].role = "assistant" /\ s[k].calls # {}
Placed(h, s, start, k) ==
    /\ start[k] + 1 \in DOMAIN h /\ h[start[k] + 1] = s[k]
    /\ \A l \in DOMAIN s : k < l => start[k] + 1 <= start[l]
    /\ s[k].role = "assistant" /\ ~(s[k].calls \subseteq ResultsIn(s)) =>
          /\ start[k] + 2 \in DOMAIN h
          /\ h[start[k] + 2] = Result(s[k].calls \ ResultsIn(s))

LEMMA LaidMessage ==
  ASSUME NEW s, NEW h, NEW p, NEW start, Laid(h, s, p, start),
         NEW k \in DOMAIN s, Stands(s, k)
  PROVE  Placed(h, s, start, k)
<1>1. start[k] \in Nat /\ Len(p[k]) \in Nat /\ \A l \in DOMAIN s : start[l] \in Nat
  BY DEF Laid
<1>2. /\ \A q \in 1..Len(p[k]) : start[k] + q \in DOMAIN h /\ h[start[k] + q] = p[k][q]
      /\ \A l \in DOMAIN s : k < l => start[k] + Len(p[k]) <= start[l]
      /\ Becomes(p[k], s, k)
  BY DEF Laid
<1>3. Len(p[k]) >= 1
  BY <1>2 DEF Becomes, Stands
<1>4. p[k][1] = s[k]
  BY <1>1, <1>2, <1>3 DEF Becomes
<1>5. ASSUME s[k].role = "assistant", ~(s[k].calls \subseteq ResultsIn(s))
      PROVE  Len(p[k]) >= 2 /\ p[k][2] = Result(s[k].calls \ ResultsIn(s))
  <2>1. Len(p[k]) >= 2
    BY <1>2, <1>5 DEF Becomes
  <2>2. 2 \in 1..Len(p[k]) /\ ~(2 = 1)
    BY <1>1, <2>1
  <2>3. p[k][2] = Result(s[k].calls \ ResultsIn(s))
    BY <1>2, <2>2 DEF Becomes
  <2> QED BY <2>1, <2>3
<1> QED BY <1>1, <1>2, <1>3, <1>4, <1>5 DEF Placed

\* In an ordered list, the message of a call is the only one with the number
\* the call names.
LEMMA CallsNumber ==
  ASSUME NEW n \in Nat, NEW s \in Seq(Messages(n)), Ordered(s),
         NEW k \in DOMAIN s, s[k].role = "assistant", NEW c \in s[k].calls
  PROVE  /\ c[1] = s[k].of /\ s[k].of \in Nat
         /\ \A l \in DOMAIN s : s[l].role = "assistant" /\ c \in s[l].calls => l = k
<1>1. ASSUME NEW l \in DOMAIN s, s[l].role = "assistant", c \in s[l].calls
      PROVE  c[1] = s[l].of /\ s[l].of \in Nat
  <2>1. s[l] \in Versions(n)
    <3>1. s[l] \in Messages(n)
      OBVIOUS
    <3> QED BY <1>1, <3>1, MessageKinds
  <2> QED BY <1>1, <2>1 DEF Versions, Shapes, CallsOf
<1>2. ASSUME NEW l \in DOMAIN s, s[l].role = "assistant", c \in s[l].calls
      PROVE  l = k
  <2>1. s[l].of = s[k].of /\ s[k].of \in Nat
    BY <1>1, <1>2
  <2>2. k \in Nat /\ l \in Nat
    OBVIOUS
  <2>3. ~(k < l)
    BY <1>2, <2>1 DEF Ordered
  <2>4. ~(l < k)
    BY <1>2, <2>1 DEF Ordered
  <2> QED BY <2>2, <2>3, <2>4
<1> QED BY <1>1, <1>2

\* Where the result of a call of message k can be in a prompt.
AnswerPlace(s, start, k, c, j) ==
    /\ c \notin ResultsIn(s) => j = start[k] + 2
    /\ c \in ResultsIn(s) =>
          \E l \in DOMAIN s : s[l].role = "tool" /\ s[l].of = {c} /\ j = start[l] + 1

LEMMA AnsweredAtOne ==
  ASSUME NEW n \in Nat, NEW s \in Seq(Messages(n)), Ordered(s),
         NEW h, NEW p, NEW start, Laid(h, s, p, start),
         NEW k \in DOMAIN s, s[k].role = "assistant", NEW c \in s[k].calls,
         NEW j \in AnsweredAt(h, c)
  PROVE  AnswerPlace(s, start, k, c, j)
<1>1. j \in DOMAIN h /\ h[j].role = "tool" /\ c \in h[j].of
  BY DEF AnsweredAt
<1>2. PICK l \in DOMAIN s : StandsFor(h, j, s, start, l)
  BY <1>1, LaidEntry
<1>3. CASE j = start[l] + 1 /\ h[j] = s[l]
  <2>1. s[l] \in Messages(n)
    OBVIOUS
  <2>2. s[l].role = "tool" /\ c \in s[l].of
    BY <1>1, <1>3
  <2>3. PICK i \in 1..n : \E d \in CallsOf(i) : Answers(s[l], d)
    BY <2>1, <2>2, MessageKinds
  <2>4. s[l].of = {c}
    BY <2>2, <2>3 DEF Answers
  <2>5. c \in ResultsIn(s)
    BY <2>2, <2>4, ResultListed
  <2> QED BY <1>3, <2>2, <2>4, <2>5 DEF AnswerPlace
<1>4. CASE /\ s[l].role = "assistant" /\ j = start[l] + 2
           /\ h[j] = Result(s[l].calls \ ResultsIn(s))
  <2>1. c \in s[l].calls /\ c \notin ResultsIn(s)
    BY <1>1, <1>4 DEF Result
  <2>2. l = k
    BY <1>4, <2>1, CallsNumber
  <2> QED BY <1>4, <2>1, <2>2 DEF AnswerPlace
<1> QED BY <1>2, <1>3, <1>4 DEF StandsFor

\* The answer at j to a call of message k is behind it, and before the next one.
Behind(h, start, k, j) ==
    start[k] + 1 < j /\ \A m \in start[k] + 2 .. j : h[m].role # "assistant"

\* A call without a stored result is answered right behind its message.
LEMMA OrphanAnswered ==
  ASSUME NEW n \in Nat, NEW s \in Seq(Messages(n)), Ordered(s),
         NEW h, NEW p, NEW start, Laid(h, s, p, start),
         NEW k \in DOMAIN s, s[k].role = "assistant", NEW c \in s[k].calls,
         c \notin ResultsIn(s)
  PROVE  \E j : AnsweredAt(h, c) = {j} /\ Behind(h, start, k, j)
<1>1. Stands(s, k) /\ ~(s[k].calls \subseteq ResultsIn(s))
  BY DEF Stands
<1>2. /\ start[k] + 2 \in DOMAIN h
      /\ h[start[k] + 2] = Result(s[k].calls \ ResultsIn(s))
  BY <1>1, LaidMessage DEF Placed
<1>3. h[start[k] + 2].role = "tool" /\ c \in h[start[k] + 2].of
  BY <1>2 DEF Result
<1>4. AnsweredAt(h, c) = {start[k] + 2}
  <2>1. start[k] + 2 \in AnsweredAt(h, c)
    BY <1>2, <1>3 DEF AnsweredAt
  <2>2. \A j \in AnsweredAt(h, c) : j = start[k] + 2
    BY AnsweredAtOne DEF AnswerPlace
  <2> QED BY <2>1, <2>2
<1>5. start[k] \in Nat
  BY DEF Laid
<1>6. \A m \in start[k] + 2 .. start[k] + 2 : h[m].role # "assistant"
  <2> TAKE m \in start[k] + 2 .. start[k] + 2
  <2>1. m = start[k] + 2
    BY <1>5
  <2> QED BY <1>3, <2>1
<1>7. start[k] + 1 < start[k] + 2
  BY <1>5
<1> QED BY <1>4, <1>6, <1>7 DEF Behind

\* A stored result of a call answers it, behind its message.
LEMMA ResultAnswers ==
  ASSUME NEW n \in Nat, NEW s \in Seq(Messages(n)), Ordered(s),
         NEW h, NEW p, NEW start, Laid(h, s, p, start),
         NEW k \in DOMAIN s, s[k].role = "assistant", NEW c \in s[k].calls,
         NEW l \in DOMAIN s, s[l].role = "tool", s[l].of = {c}
  PROVE  start[l] + 1 \in AnsweredAt(h, c) /\ Behind(h, start, k, start[l] + 1)
<1>1. s[l].role = "tool" /\ s[l].of = {c}
  OBVIOUS
<1>2. c \in CallsIn(s)
  BY CallListed
<1>3. Stands(s, k) /\ Stands(s, l)
  BY <1>1, <1>2 DEF Stands
<1>4. /\ start[l] + 1 \in DOMAIN h /\ h[start[l] + 1] = s[l]
      /\ \A x \in DOMAIN s : l < x => start[l] + 1 <= start[x]
      /\ \A x \in DOMAIN s : k < x => start[k] + 1 <= start[x]
  <2>1. Placed(h, s, start, k) /\ Placed(h, s, start, l)
    BY <1>3, LaidMessage, Zenon
  <2> QED BY <2>1 DEF Placed
<1>5. /\ \A x \in DOMAIN s : x \in Nat /\ start[x] \in Nat
      /\ k \in Nat /\ l \in Nat /\ start[k] \in Nat /\ start[l] \in Nat
  BY DEF Laid
<1>6. c[1] = s[k].of /\ s[k].of \in Nat
  BY CallsNumber
<1>7. k < l
  <2>1. ~(l < k)
    BY <1>1, <1>6 DEF Ordered
  <2>2. l # k
    BY <1>1
  <2> QED BY <1>5, <2>1, <2>2
<1>8. start[l] + 1 \in AnsweredAt(h, c)
  BY <1>1, <1>4 DEF AnsweredAt
<1>9. ASSUME NEW m \in start[k] + 2 .. start[l] + 1, h[m].role = "assistant"
      PROVE  FALSE
  <2>1. m \in DOMAIN h
    <3>1. DOMAIN h = 1..Len(h) /\ Len(h) \in Nat
      BY DEF Laid
    <3> QED BY <1>4, <1>5, <3>1
  <2>2. PICK x \in DOMAIN s : StandsFor(h, m, s, start, x)
    BY <2>1, LaidEntry
  <2>3. m = start[x] + 1 /\ s[x].role = "assistant"
    BY <1>9, <2>2 DEF StandsFor, Result
  <2>4. CASE x < k
    <3>1. start[x] <= start[k]
      <4>1. start[x] + Len(p[x]) <= start[k] /\ Len(p[x]) \in Nat
        BY <2>4 DEF Laid
      <4> QED BY <1>5, <4>1
    <3> QED BY <1>5, <2>3, <3>1
  <2>5. CASE x = k
    BY <1>5, <2>3, <2>5
  <2>6. CASE k < x /\ x < l
    <3>1. s[k].of < s[x].of
      BY <2>3, <2>6 DEF Ordered
    <3>2. s[x].of <= c[1]
      BY <1>1, <2>3, <2>6 DEF Ordered
    <3>3. s[x].of \in Nat
      <4>1. s[x] \in Messages(n)
        OBVIOUS
      <4>2. s[x] \in Versions(n)
        BY <2>3, <4>1, MessageKinds
      <4> QED BY <4>2 DEF Versions, Shapes
    <3> QED BY <1>6, <3>1, <3>2, <3>3
  <2>7. CASE x = l
    BY <1>1, <2>3, <2>7
  <2>8. CASE l < x
    BY <1>4, <1>5, <2>3, <2>8
  <2> QED BY <1>5, <2>4, <2>5, <2>6, <2>7, <2>8
<1>10. start[k] + 1 < start[l] + 1
  BY <1>4, <1>5, <1>7
<1> QED BY <1>8, <1>9, <1>10 DEF Behind

\* A call is answered behind its message, and once if its result is single.
LEMMA CallAnswered ==
  ASSUME NEW n \in Nat, NEW s \in Seq(Messages(n)), Ordered(s), NEW R, Single(s, R),
         NEW h, NEW p, NEW start, Laid(h, s, p, start),
         NEW k \in DOMAIN s, s[k].role = "assistant", NEW c \in s[k].calls
  PROVE  /\ AnsweredAt(h, c) # {}
         /\ c \notin R => \A i, j \in AnsweredAt(h, c) : i = j
         /\ \A j \in AnsweredAt(h, c) : Behind(h, start, k, j)
<1>1. CASE c \notin ResultsIn(s)
  <2>1. PICK j : AnsweredAt(h, c) = {j} /\ Behind(h, start, k, j)
    BY <1>1, OrphanAnswered
  <2> QED BY <2>1
<1>2. CASE c \in ResultsIn(s)
  <2>1. PICK l \in DOMAIN s : s[l].role = "tool" /\ s[l].of = {c}
    BY <1>2, ResultListed
  <2>2. start[l] + 1 \in AnsweredAt(h, c)
    BY <2>1, ResultAnswers
  <2>3. ASSUME NEW j \in AnsweredAt(h, c)
        PROVE  \E x \in DOMAIN s : s[x].role = "tool" /\ s[x].of = {c} /\ j = start[x] + 1
    <3>1. AnswerPlace(s, start, k, c, j)
      BY AnsweredAtOne, Zenon
    <3> QED BY <1>2, <3>1 DEF AnswerPlace
  <2>4. ASSUME NEW j \in AnsweredAt(h, c) PROVE Behind(h, start, k, j)
    <3>1. PICK x \in DOMAIN s : s[x].role = "tool" /\ s[x].of = {c} /\ j = start[x] + 1
      BY <2>3
    <3>2. Behind(h, start, k, start[x] + 1)
      BY <3>1, ResultAnswers
    <3> QED BY <3>1, <3>2
  <2>5. ASSUME c \notin R, NEW i \in AnsweredAt(h, c), NEW j \in AnsweredAt(h, c)
        PROVE  i = j
    <3>1. PICK x \in DOMAIN s : s[x].role = "tool" /\ s[x].of = {c} /\ i = start[x] + 1
      BY <2>3
    <3>2. PICK y \in DOMAIN s : s[y].role = "tool" /\ s[y].of = {c} /\ j = start[y] + 1
      BY <2>3
    <3>3. x = y
      BY <2>5, <3>1, <3>2 DEF Single
    <3> QED BY <3>1, <3>2, <3>3
  <2> QED BY <2>2, <2>4, <2>5
<1> QED BY <1>1, <1>2

\* The calls a prompt holds are those of its list.
LEMMA LaidCalls ==
  ASSUME NEW s, NEW h, NEW p, NEW start, Laid(h, s, p, start)
  PROVE  CallsIn(s) \subseteq CallsIn(h)
<1>1. ASSUME NEW k \in DOMAIN s, s[k].role = "assistant", NEW c \in s[k].calls
      PROVE  c \in CallsIn(h)
  <2>1. Stands(s, k)
    BY <1>1 DEF Stands
  <2>2. Placed(h, s, start, k)
    BY <2>1, LaidMessage, Zenon
  <2>3. start[k] + 1 \in DOMAIN h /\ h[start[k] + 1] = s[k]
    BY <2>2 DEF Placed
  <2> QED BY <1>1, <2>3 DEF CallsIn, Assistants
<1> QED BY <1>1 DEF CallsIn, Assistants

\* The prompt of an ordered list is well formed.
LEMMA PromptOfOrdered ==
  ASSUME NEW n \in Nat, NEW s \in Seq(Messages(n)), Ordered(s), NEW R, Single(s, R)
  PROVE  LET h == preparePrompt(s)
         IN  /\ \A i \in DOMAIN h : h[i].role = "assistant" =>
                   \A c \in h[i].calls :
                       /\ AnsweredAt(h, c) # {}
                       /\ c \notin R => \A j, l \in AnsweredAt(h, c) : j = l
                       /\ \A j \in AnsweredAt(h, c) :
                             i < j /\ \A k \in i + 1 .. j : h[k].role # "assistant"
             /\ \A j \in DOMAIN h : h[j].role = "tool" => h[j].of \subseteq CallsIn(h)
<1> DEFINE h == preparePrompt(s)
<1>1. PICK p : \E start : Laid(h, s, p, start)
  BY PromptIsLaid
<1>2. PICK start : Laid(h, s, p, start)
  BY <1>1
<1> HIDE DEF h
<1>3. ASSUME NEW i \in DOMAIN h, h[i].role = "assistant", NEW c \in h[i].calls
      PROVE  /\ AnsweredAt(h, c) # {}
             /\ c \notin R => \A j, l \in AnsweredAt(h, c) : j = l
             /\ \A j \in AnsweredAt(h, c) :
                   i < j /\ \A k \in i + 1 .. j : h[k].role # "assistant"
  <2>1. PICK k \in DOMAIN s : StandsFor(h, i, s, start, k)
    BY <1>2, LaidEntry
  <2>2. i = start[k] + 1 /\ h[i] = s[k] /\ s[k].role = "assistant" /\ c \in s[k].calls
    BY <1>3, <2>1 DEF StandsFor, Result
  <2>3. i + 1 = start[k] + 2
    <3>1. start[k] \in Nat
      BY <1>2 DEF Laid
    <3> QED BY <2>2, <3>1
  <2>4. /\ AnsweredAt(h, c) # {}
        /\ c \notin R => \A j, l \in AnsweredAt(h, c) : j = l
        /\ \A j \in AnsweredAt(h, c) : Behind(h, start, k, j)
    BY <1>2, <2>2, CallAnswered
  <2> QED BY <2>2, <2>3, <2>4 DEF Behind
<1>4. ASSUME NEW j \in DOMAIN h, h[j].role = "tool" PROVE h[j].of \subseteq CallsIn(h)
  <2>1. PICK k \in DOMAIN s : StandsFor(h, j, s, start, k)
    BY <1>2, LaidEntry
  <2>2. h[j].of \subseteq CallsIn(s)
    BY <1>4, <2>1 DEF StandsFor, Result, CallsIn, Assistants
  <2> QED BY <1>2, <2>2, LaidCalls
<1> QED BY <1>3, <1>4 DEF h

\* A prompt holds every user message.
LEMMA PromptHasUsers ==
  ASSUME NEW n \in Nat, NEW s \in Seq(Messages(n))
  PROVE  Users(s) \subseteq Users(preparePrompt(s))
<1> DEFINE h == preparePrompt(s)
<1>1. PICK p : \E start : Laid(h, s, p, start)
  BY PromptIsLaid
<1>2. PICK start : Laid(h, s, p, start)
  BY <1>1
<1> HIDE DEF h
<1>3. ASSUME NEW k \in DOMAIN s, s[k].role = "user" PROVE s[k].of \in Users(h)
  <2>1. Stands(s, k)
    BY <1>3 DEF Stands
  <2>2. Placed(h, s, start, k)
    BY <1>2, <2>1, LaidMessage, Zenon
  <2>3. start[k] + 1 \in DOMAIN h /\ h[start[k] + 1] = s[k]
    BY <2>2 DEF Placed
  <2> QED BY <1>3, <2>3 DEF Users
<1> QED BY <1>3 DEF Users, h

-----------------------------------------------------------------------------
(* Appending and replacing *)

\* The message in front of the others is a message of the larger store too.
LEMMA MoreMessages ==
  ASSUME NEW n \in Nat
  PROVE  /\ Messages(n) \subseteq Messages(n+1) /\ Seq(Messages(n)) \subseteq Seq(Messages(n+1))
         /\ Versions(n) \subseteq Versions(n+1)
<1>1. 1..n \subseteq 1..n+1
  OBVIOUS
<1>2. Versions(n) \subseteq Versions(n+1)
  BY <1>1 DEF Versions
<1>3. ResultsTo(n) \subseteq ResultsTo(n+1)
  BY <1>1 DEF ResultsTo
<1>4. Messages(n) \subseteq Messages(n+1)
  BY <1>2, <1>3 DEF Messages
<1>5. ASSUME NEW S, NEW T, S \subseteq T PROVE Seq(S) \subseteq Seq(T)
  BY <1>5
<1> QED BY <1>2, <1>4, <1>5

LEMMA NewMessages ==
  ASSUME NEW n \in Nat
  PROVE  /\ \A x \in Nat \cup Guidance : User(x) \in Messages(n) /\ User(x).role = "user"
                                        /\ User(x).of = x
         /\ \A i \in 1..n : Empty(i) \in Versions(n) /\ Empty(i) \in Messages(n)
         /\ \A i \in 1..n : \A c \in CallsOf(i) :
               /\ Result({c}) \in Messages(n)
               /\ Answers(Result({c}), c)
<1>1. \A x \in Nat \cup Guidance : User(x) \in Messages(n) /\ User(x).role = "user" /\ User(x).of = x
  BY DEF User, Messages, Texts
<1>2. \A i \in 1..n : Empty(i) \in Versions(n)
  BY DEF Empty, Versions, Shapes
<1>3. \A i \in 1..n : \A c \in CallsOf(i) : Result({c}) \in ResultsTo(n)
  BY DEF ResultsTo
<1>4. \A c : Answers(Result({c}), c)
  BY DEF Answers, Result
<1> QED BY <1>1, <1>2, <1>3, <1>4 DEF Messages

\* s2 is s with m behind it.
Longer(s2, s, m) ==
    /\ DOMAIN s2 = DOMAIN s \cup {Len(s) + 1} /\ Len(s) \in Nat
    /\ Len(s) + 1 \notin DOMAIN s /\ s2[Len(s) + 1] = m
    /\ \A k \in DOMAIN s : s2[k] = s[k] /\ k < Len(s) + 1 /\ k \in Nat

LEMMA AppendLonger ==
  ASSUME NEW n \in Nat, NEW s \in Seq(Messages(n)), NEW m \in Messages(n)
  PROVE  Append(s, m) \in Seq(Messages(n)) /\ Longer(Append(s, m), s, m)
<1>1. Append(s, m) \in Seq(Messages(n)) /\ Len(Append(s, m)) = Len(s) + 1 /\ Len(s) \in Nat
  OBVIOUS
<1>2. DOMAIN s = 1..Len(s) /\ DOMAIN Append(s, m) = 1..Len(s) + 1
  BY <1>1
<1>3. Append(s, m)[Len(s) + 1] = m /\ \A k \in 1..Len(s) : Append(s, m)[k] = s[k]
  OBVIOUS
<1> QED BY <1>1, <1>2, <1>3 DEF Longer

LEMMA LongerSets ==
  ASSUME NEW s, NEW s2, NEW m, Longer(s2, s, m),
         m.role \in {"user", "assistant", "tool"}
  PROVE  /\ Users(s2) = IF m.role = "user" THEN Users(s) \cup {m.of} ELSE Users(s)
         /\ ResultsIn(s2) = IF m.role = "tool" THEN ResultsIn(s) \cup m.of ELSE ResultsIn(s)
         /\ Assistants(s2) = IF m.role = "assistant" THEN Assistants(s) \cup {m} ELSE Assistants(s)
<1>1. Users(s2) = IF m.role = "user" THEN Users(s) \cup {m.of} ELSE Users(s)
  BY DEF Users, Longer
<1>2. ResultsIn(s2) = IF m.role = "tool" THEN ResultsIn(s) \cup m.of ELSE ResultsIn(s)
  BY DEF ResultsIn, Longer
<1>3. Assistants(s2) = IF m.role = "assistant" THEN Assistants(s) \cup {m} ELSE Assistants(s)
  BY DEF Assistants, Longer
<1> QED BY <1>1, <1>2, <1>3

\* What keeps an appended list in order.
LEMMA LongerOrdered ==
  ASSUME NEW n \in Nat, NEW s \in Seq(Messages(n)), Ordered(s),
         NEW s2, NEW m, Longer(s2, s, m),
         \/ m.role = "user"
         \/ m.role = "assistant" /\ m.of = n + 1
         \/ m.role = "tool" /\ \E c \in CallsOf(n) : m.of = {c}
  PROVE  Ordered(s2)
<1> DEFINE z == Len(s) + 1
<1>1. /\ DOMAIN s2 = DOMAIN s \cup {z} /\ z \notin DOMAIN s /\ s2[z] = m
      /\ \A k \in DOMAIN s : s2[k] = s[k] /\ k < z /\ ~(z < k) /\ k # z
      /\ ~(z < z)
  BY DEF Longer
<1> HIDE DEF z
<1>2. \A k \in DOMAIN s : s[k] \in Messages(n)
  OBVIOUS
<1>3. CASE m.role = "user"
  BY <1>1, <1>3 DEF Ordered
<1>4. CASE m.role = "assistant" /\ m.of = n + 1
  <2>1. \A k \in DOMAIN s : s[k].role = "assistant" => s[k].of < m.of
    <3> TAKE k \in DOMAIN s
    <3>1. s[k].role = "assistant" => s[k] \in Versions(n)
      BY <1>2, MessageKinds
    <3> QED BY <1>4, <3>1 DEF Versions
  <2>2. \A k \in DOMAIN s : s[k].role = "tool" => \A c \in s[k].of : c[1] < m.of
    <3> TAKE k \in DOMAIN s
    <3>1. HAVE s[k].role = "tool"
    <3>2. PICK i \in 1..n : \E c \in CallsOf(i) : Answers(s[k], c)
      BY <1>2, <3>1, MessageKinds
    <3>3. PICK c \in CallsOf(i) : Answers(s[k], c)
      BY <3>2
    <3>4. s[k].of = {c}
      BY <3>3 DEF Answers
    <3>5. c[1] = i
      BY DEF CallsOf
    <3> QED BY <1>4, <3>4, <3>5
  <2> QED BY <1>1, <1>4, <2>1, <2>2 DEF Ordered
<1>5. CASE m.role = "tool" /\ \E c \in CallsOf(n) : m.of = {c}
  <2>1. PICK c \in CallsOf(n) : m.of = {c}
    BY <1>5
  <2>2. c[1] = n
    BY DEF CallsOf
  <2>3. \A k \in DOMAIN s : s[k].role = "assistant" => s[k].of <= n
    <3> TAKE k \in DOMAIN s
    <3>1. s[k].role = "assistant" => s[k] \in Versions(n)
      BY <1>2, MessageKinds
    <3> QED BY <3>1 DEF Versions
  <2> QED BY <1>1, <1>5, <2>1, <2>2, <2>3 DEF Ordered
<1> QED BY <1>3, <1>4, <1>5

\* What keeps results single.
LEMMA LongerSingle ==
  ASSUME NEW n \in Nat, NEW s \in Seq(Messages(n)), NEW R, Single(s, R),
         NEW s2, NEW m, Longer(s2, s, m),
         m.role = "tool" => \E c : m.of = {c} /\ (c \in ResultsIn(s) => c \in R)
  PROVE  Single(s2, R)
<1> DEFINE z == Len(s) + 1
<1>1. /\ DOMAIN s2 = DOMAIN s \cup {z} /\ z \notin DOMAIN s /\ s2[z] = m
      /\ \A k \in DOMAIN s : s2[k] = s[k]
  BY DEF Longer
<1> HIDE DEF z
<1>2. CASE m.role # "tool"
  BY <1>1, <1>2 DEF Single
<1>3. CASE m.role = "tool"
  <2>1. PICK c : m.of = {c} /\ (c \in ResultsIn(s) => c \in R)
    BY <1>3
  <2>2. \A k \in DOMAIN s : s[k].role = "tool" /\ s[k].of = m.of => m.of \subseteq R
    BY <2>1, ResultListed
  <2> QED BY <1>1, <2>2 DEF Single
<1> QED BY <1>2, <1>3

\* s2 is s without some messages at its end.
Cut(s2, s) == DOMAIN s2 \subseteq DOMAIN s /\ \A k \in DOMAIN s2 : s2[k] = s[k]

LEMMA CutKeeps ==
  ASSUME NEW s, NEW s2, Cut(s2, s)
  PROVE  /\ Ordered(s) => Ordered(s2)
         /\ \A R : Single(s, R) => Single(s2, R)
         /\ ResultsIn(s2) \subseteq ResultsIn(s)
<1>1. Ordered(s) => Ordered(s2)
  BY DEF Cut, Ordered
<1>2. \A R : Single(s, R) => Single(s2, R)
  BY DEF Cut, Single
<1>3. ResultsIn(s2) \subseteq ResultsIn(s)
  BY DEF Cut, ResultsIn
<1> QED BY <1>1, <1>2, <1>3

\* Nobody but the last user loses a message with the last line.
LEMMA ButLastCuts ==
  ASSUME NEW n \in Nat, NEW s \in Seq(Messages(n))
  PROVE  /\ ButLast(s) \in Seq(Messages(n)) /\ Cut(ButLast(s), s)
         /\ \A x \in Users(s) : x \in Users(ButLast(s))
               \/ (s # <<>> /\ s[Len(s)].role = "user" /\ s[Len(s)].of = x)
<1>1. /\ Len(s) \in Nat /\ DOMAIN s = 1..Len(s)
      /\ \A k \in 1..Len(s) : s[k] \in Messages(n)
  OBVIOUS
<1>2. CASE s = <<>>
  <2>1. Len(s) = 0 /\ DOMAIN s = {}
    BY <1>1, <1>2
  <2>2. ButLast(s) = <<>>
    BY <1>2, <2>1 DEF ButLast
  <2> QED BY <1>2, <2>1, <2>2 DEF Cut, Users
<1>3. CASE s # <<>>
  <2>1. Len(s) > 0
    BY <1>1, <1>3
  <2>2. /\ ButLast(s) \in Seq(Messages(n)) /\ DOMAIN ButLast(s) = 1..Len(s) - 1
        /\ \A k \in 1..Len(s) - 1 : ButLast(s)[k] = s[k]
    BY <1>1, <2>1 DEF ButLast
  <2>3. Cut(ButLast(s), s)
    BY <1>1, <2>2 DEF Cut
  <2>4. ASSUME NEW x \in Users(s)
        PROVE  \/ x \in Users(ButLast(s))
               \/ s # <<>> /\ s[Len(s)].role = "user" /\ s[Len(s)].of = x
    <3>1. PICK k \in DOMAIN s : s[k].role = "user" /\ s[k].of = x
      BY DEF Users
    <3>2. CASE k = Len(s)
      BY <1>3, <3>1, <3>2
    <3>3. CASE k # Len(s)
      <4>1. k \in 1..Len(s) - 1
        BY <1>1, <3>1, <3>3
      <4> QED BY <2>2, <3>1, <4>1 DEF Users
    <3> QED BY <3>2, <3>3
  <2> QED BY <2>2, <2>3, <2>4
<1> QED BY <1>2, <1>3

\* Replace changes the assistant messages with m's number.
Rewritten(s2, s, m) ==
    /\ DOMAIN s2 = DOMAIN s
    /\ \A k \in DOMAIN s :
          /\ s2[k].role = s[k].role /\ s2[k].of = s[k].of
          /\ IF s[k].role = "assistant" /\ s[k].of = m.of THEN s2[k] = m ELSE s2[k] = s[k]

LEMMA ReplaceRewrites ==
  ASSUME NEW n \in Nat, NEW s \in Seq(Messages(n)), NEW m \in Versions(n)
  PROVE  Replace(s, m) \in Seq(Messages(n)) /\ Rewritten(Replace(s, m), s, m)
<1>1. DOMAIN s = 1..Len(s) /\ Len(s) \in Nat /\ \A k \in DOMAIN s : s[k] \in Messages(n)
  OBVIOUS
<1>2. m \in Messages(n) /\ m.role = "assistant"
  BY DEF Messages, Versions, Shapes
<1>3. Replace(s, m) \in [1..Len(s) -> Messages(n)]
  BY <1>1, <1>2 DEF Replace
<1>4. Rewritten(Replace(s, m), s, m)
  BY <1>2 DEF Replace, Rewritten
<1> HIDE DEF Replace
<1> QED BY <1>1, <1>3, <1>4

LEMMA RewrittenKeeps ==
  ASSUME NEW s, NEW s2, NEW m, Rewritten(s2, s, m), m.role = "assistant"
  PROVE  /\ Users(s2) = Users(s) /\ ResultsIn(s2) = ResultsIn(s)
         /\ Ordered(s) => Ordered(s2)
         /\ \A R : Single(s, R) => Single(s2, R)
         /\ \A e \in Assistants(s2) :
               \/ e \in Assistants(s) /\ e.of # m.of
               \/ e = m /\ \E old \in Assistants(s) : old.of = m.of
         /\ \A e \in Assistants(s) : e.of # m.of => e \in Assistants(s2)
         /\ \A e \in Assistants(s) : e.of = m.of => m \in Assistants(s2)
<1>1. Users(s2) = Users(s)
  BY DEF Users, Rewritten
<1>2. ResultsIn(s2) = ResultsIn(s)
  <2>1. \A k \in DOMAIN s : s2[k].role = s[k].role /\ s2[k].of = s[k].of
    BY DEF Rewritten
  <2> QED BY <2>1 DEF ResultsIn, Rewritten
<1>3. Ordered(s) => Ordered(s2)
  <2>1. DOMAIN s2 = DOMAIN s /\ \A k \in DOMAIN s : s2[k].role = s[k].role /\ s2[k].of = s[k].of
    BY DEF Rewritten
  <2> QED BY <2>1 DEF Ordered
<1>4. ASSUME NEW e \in Assistants(s2)
      PROVE  \/ e \in Assistants(s) /\ e.of # m.of
             \/ e = m /\ \E old \in Assistants(s) : old.of = m.of
  <2>1. PICK k \in DOMAIN s : s2[k].role = "assistant" /\ e = s2[k]
    BY DEF Assistants, Rewritten
  <2>2. s[k].role = "assistant" /\ s[k] \in Assistants(s)
    BY <2>1 DEF Assistants, Rewritten
  <2> QED BY <2>1, <2>2 DEF Rewritten
<1>5. \A e \in Assistants(s) : e.of # m.of => e \in Assistants(s2)
  BY DEF Assistants, Rewritten
<1>6. \A e \in Assistants(s) : e.of = m.of => m \in Assistants(s2)
  BY DEF Assistants, Rewritten
<1>7. \A R : Single(s, R) => Single(s2, R)
  <2>1. DOMAIN s2 = DOMAIN s /\ \A k \in DOMAIN s : s2[k].role = s[k].role /\ s2[k].of = s[k].of
    BY DEF Rewritten
  <2> QED BY <2>1 DEF Single
<1> QED BY <1>1, <1>2, <1>3, <1>4, <1>5, <1>6, <1>7

-----------------------------------------------------------------------------
(* The types of the transcript *)

Early(m) == m.calls = {} /\ ~m.finish
Writing == pc \in {"fetch", "write"}

StoreTypes ==
    /\ made \in Nat /\ turn \in Nat
    /\ store \in Seq(Messages(made)) /\ read \in Seq(Messages(made))
\* Only between turns can the last line of the file lack its end.
FileTypes ==
    /\ last \in {"closed", "open", "torn"} /\ bad \in BOOLEAN
    /\ last # "closed" =>
          pc \in {"over", "prompt"} /\ pending = {} /\ flush = {} /\ flushed = {}
CurTypes ==
    /\ pc \in Labels /\ cont \in Labels \cup {"end"}
    /\ cur \in Versions(made) \cup {NoMessage} /\ (cur # NoMessage => cur.of = made)
    /\ pc \in {"over", "prompt"} => cur = NoMessage
    /\ pc \in {"stream", "fetch", "write", "clean"} => cur # NoMessage
    /\ pc # "write" => read = <<>>
\* What the stream writes: the message it works on, and before it a version
\* that waited.
WriteTypes ==
    /\ writes \in Seq(Versions(made))
    /\ Writing =>
       /\ cont \in {"stream", "prepare", "over", "clean", "end"}
       /\ \/ writes = <<cur>>
          \/ /\ Len(writes) = 2 /\ writes[2] = cur
             /\ Early(writes[1]) /\ writes[1].of = made
\* Only versions without calls wait, and one of each message.
TimerTypes ==
    /\ \A p \in pending : p \in Versions(made) /\ Early(p)
    /\ \A p, q \in pending : p.of = q.of => p = q
    /\ \A p \in flush : p \in Versions(made) /\ Early(p)
    /\ \A f \in flushed :
          f.msg \in Versions(made) /\ Early(f.msg) /\ f.on \in Seq(Messages(made))

TypesInv == StoreTypes /\ FileTypes /\ CurTypes /\ WriteTypes /\ TimerTypes

Streaming == pc = "stream" \/ (Writing /\ cont = "stream")
Cleaning == pc = "clean" \/ (Writing /\ cont = "clean")
\* A clean-up looks at calls of its message.
TodoInv == todo # {} => Cleaning /\ todo \subseteq cur.calls

LEMMA ShortConcats ==
  ASSUME NEW S, NEW p \in S, NEW m \in S
  PROVE  <<>> \o <<m>> = <<m>> /\ <<p>> \o <<m>> = <<p, m>>
<1>1. <<m>> \in Seq(S) /\ <<p>> \in Seq(S) /\ <<>> \in Seq(S)
  OBVIOUS
<1>2. <<>> \o <<m>> = <<m>>
  BY <1>1
<1>3. <<p>> \o <<m>> = <<p, m>>
  <2> DEFINE a == <<p>>
             b == <<m>>
             z == <<p, m>>
  <2>1. a \in Seq(S) /\ b \in Seq(S) /\ Len(a) = 1 /\ Len(b) = 1 /\ a[1] = p /\ b[1] = m
        /\ z \in Seq(S) /\ Len(z) = 2 /\ z[1] = p /\ z[2] = m
    OBVIOUS
  <2> HIDE DEF a, b, z
  <2>2. /\ a \o b \in Seq(S) /\ Len(a \o b) = 2
        /\ \A i \in 1..2 : (a \o b)[i] = IF i <= 1 THEN a[i] ELSE b[i - 1]
    BY <2>1, ConcatProperties
  <2>3. \A i \in 1..2 : (a \o b)[i] = z[i]
    BY <2>1, <2>2
  <2>4. a \o b = z
    BY <2>1, <2>2, <2>3, SeqEqual
  <2> QED BY <2>4 DEF a, b, z
<1> QED BY <1>2, <1>3

LEMMA ShortSeqs ==
  /\ SetToSeq({}) = <<>>
  /\ \A p : SetToSeq({p}) = <<p>>
<1>1. SetToSeq({}) = <<>>
  <2> DEFINE F == {f \in [1..0 -> {}] : IsInjective(f)}
  <2>1. SetToSeq({}) = CHOOSE f \in [1..0 -> {}] : IsInjective(f)
    BY FS_EmptySet DEF SetToSeq
  <2>2. <<>> \in [1..0 -> {}] /\ IsInjective(<<>>)
    BY DEF IsInjective
  <2>3. SetToSeq({}) \in [1..0 -> {}]
    BY <2>1, <2>2
  <2> QED BY <2>3
<1>2. ASSUME NEW p PROVE SetToSeq({p}) = <<p>>
  <2>1. Cardinality({p}) = 1
    BY FS_Singleton
  <2>2. SetToSeq({p}) = CHOOSE f \in [1..1 -> {p}] : IsInjective(f)
    BY <2>1 DEF SetToSeq
  <2>3. <<p>> \in [1..1 -> {p}] /\ IsInjective(<<p>>)
    BY DEF IsInjective
  <2>4. SetToSeq({p}) \in [1..1 -> {p}]
    BY <2>2, <2>3
  <2> QED BY <2>4
<1> QED BY <1>1, <1>2

\* What an update makes of the state.
LEMMA UpdateTypes ==
  ASSUME TypesInv, pc \in {"stream", "clean"}, NEW m \in Versions(made), m.of = made,
         NEW next \in {"stream", "prepare", "over", "clean", "end"},
         Update(m, next), next \in {"stream", "clean"} \/ m.finish
  PROVE  TypesInv'
<1> DEFINE waiting == {p \in pending : p.of = m.of}
<1>1. /\ made' = made /\ turn' = turn /\ store' = store /\ read' = read
      /\ flushed' = flushed /\ flush' = flush /\ cur' = m /\ ~Writing
  BY DEF Update, timer, file, Writing
<1>2. StoreTypes' /\ FileTypes'
  <2>1. last' = "closed" /\ bad' = bad
    BY DEF Update, file, TypesInv, FileTypes
  <2> QED BY <1>1, <2>1 DEF TypesInv, StoreTypes, FileTypes
<1>3. m # NoMessage /\ m.role = "assistant"
  BY DEF Versions, Shapes, NoMessage
<1>4. read = <<>>
  BY DEF TypesInv, CurTypes
<1>5. CASE m.finish \/ m.calls # {}
  <2>1. pending' = pending \ waiting /\ writes' = SetToSeq(waiting) \o <<m>>
        /\ pc' = "fetch" /\ cont' = next
    BY <1>5 DEF Update
  <2>2. \/ waiting = {}
        \/ \E p \in pending : waiting = {p} /\ p.of = made
    BY DEF TypesInv, TimerTypes
  <2>3. \/ writes' = <<m>>
        \/ \E p \in pending : writes' = <<p, m>> /\ p.of = made
    <3> HIDE DEF waiting
    <3>1. CASE waiting = {}
      <4>1. writes' = <<>> \o <<m>>
        BY <2>1, <3>1, ShortSeqs
      <4> QED BY <4>1, ShortConcats
    <3>2. ASSUME NEW p \in pending, waiting = {p}, p.of = made
          PROVE  writes' = <<p, m>> /\ p.of = made
      <4>1. writes' = <<p>> \o <<m>>
        BY <2>1, <3>2, ShortSeqs
      <4>2. p \in {p, m} /\ m \in {p, m}
        OBVIOUS
      <4> QED BY <3>2, <4>1, <4>2, ShortConcats
    <3> QED BY <2>2, <3>1, <3>2
  <2>4. \A p \in pending : p \in Versions(made) /\ Early(p)
    BY DEF TypesInv, TimerTypes
  <2>5. WriteTypes'
    <3>1. CASE writes' = <<m>>
      <4>1. writes' \in Seq(Versions(made'))
        BY <1>1, <3>1
      <4> QED BY <1>1, <2>1, <3>1, <4>1 DEF WriteTypes
    <3>2. ASSUME NEW p \in pending, writes' = <<p, m>>, p.of = made PROVE WriteTypes'
      <4>1. writes' \in Seq(Versions(made)) /\ Len(writes') = 2 /\ writes'[1] = p
            /\ writes'[2] = m
        BY <2>4, <3>2
      <4>2. Early(p)
        BY <2>4
      <4> QED BY <1>1, <2>1, <3>2, <4>1, <4>2 DEF WriteTypes, Early
    <3> QED BY <2>3, <3>1, <3>2
  <2>6. CurTypes'
    BY <1>1, <1>3, <1>4, <2>1 DEF CurTypes, Labels
  <2>7. TimerTypes'
    BY <1>1, <2>1 DEF TypesInv, TimerTypes, Early
  <2> QED BY <1>2, <2>5, <2>6, <2>7 DEF TypesInv
<1>6. CASE ~(m.finish \/ m.calls # {})
  <2>1. pending' = (pending \ waiting) \cup {m} /\ pc' = next /\ cont' = cont /\ writes' = writes
    BY <1>6 DEF Update
  <2>2. next \in {"stream", "clean"}
    BY <1>6
  <2>3. CurTypes'
    BY <1>1, <1>3, <1>4, <2>1, <2>2 DEF TypesInv, CurTypes, Labels
  <2>4. WriteTypes'
    BY <1>1, <2>1, <2>2 DEF TypesInv, WriteTypes, Writing
  <2>5. TimerTypes'
    <3>1. \A p \in pending' : p \in Versions(made) /\ Early(p)
      BY <1>6, <2>1 DEF TypesInv, TimerTypes, Early
    <3>2. \A p, q \in pending' : p.of = q.of => p = q
      BY <2>1 DEF TypesInv, TimerTypes
    <3> QED BY <1>1, <3>1, <3>2 DEF TypesInv, TimerTypes, Early
  <2> QED BY <1>2, <2>3, <2>4, <2>5 DEF TypesInv
<1> QED BY <1>5, <1>6

LEMMA PairSplit ==
  ASSUME NEW S, NEW w \in Seq(S), Len(w) = 2
  PROVE  Head(w) = w[1] /\ w[1] \in S /\ Tail(w) \in Seq(S) /\ Tail(w) = <<w[2]>>
<1>1. Head(w) = w[1] /\ w[1] \in S /\ w[2] \in S
  OBVIOUS
<1>2. Tail(w) \in Seq(S) /\ Len(Tail(w)) = 1 /\ Tail(w)[1] = w[2]
  <2>1. w # <<>>
    OBVIOUS
  <2>2. /\ Tail(w) \in Seq(S) /\ Len(Tail(w)) = Len(w) - 1
        /\ \A i \in 1 .. Len(Tail(w)) : Tail(w)[i] = w[i + 1]
    BY <2>1, HeadTailProperties
  <2> QED BY <2>2
<1>3. <<w[2]>> \in Seq(S) /\ Len(<<w[2]>>) = 1 /\ <<w[2]>>[1] = w[2]
  BY <1>1
<1>4. PICK a, b : a = Tail(w) /\ b = <<w[2]>>
  OBVIOUS
<1>5. a = b
  <2>1. a \in Seq(S) /\ b \in Seq(S) /\ Len(a) = Len(b) /\ \A i \in 1..Len(a) : a[i] = b[i]
    BY <1>2, <1>3, <1>4
  <2> QED BY <2>1, SeqEqual
<1> QED BY <1>1, <1>2, <1>4, <1>5

\* The version written next, and what is left.
NextWrite(m, rest) ==
    /\ m = Head(writes) /\ rest = Tail(writes)
    /\ m \in Versions(made) /\ m.of = made /\ m.role = "assistant"
    /\ cur \in Versions(made) /\ cur.of = made
    /\ \/ m = cur /\ rest = <<>>
       \/ Early(m) /\ rest = <<cur>>

LEMMA WritesSplit ==
  ASSUME TypesInv, Writing
  PROVE  NextWrite(Head(writes), Tail(writes))
<1>1. cur \in Versions(made) /\ cur.of = made
  BY DEF TypesInv, CurTypes, Writing
<1>2. CASE writes = <<cur>>
  <2>1. Head(writes) = cur /\ Tail(writes) = <<>>
    BY <1>1, <1>2
  <2> QED BY <1>1, <2>1 DEF Versions, Shapes, NextWrite
<1>3. CASE Len(writes) = 2 /\ writes[2] = cur /\ Early(writes[1]) /\ writes[1].of = made
  <2>1. writes \in Seq(Versions(made))
    BY DEF TypesInv, WriteTypes
  <2>2. /\ Head(writes) = writes[1] /\ writes[1] \in Versions(made)
        /\ Tail(writes) = <<writes[2]>>
    BY <1>3, <2>1, PairSplit
  <2>3. Head(writes).role = "assistant"
    BY <2>2 DEF Versions, Shapes
  <2> QED BY <1>1, <1>3, <2>2, <2>3 DEF NextWrite
<1> QED BY <1>2, <1>3 DEF TypesInv, WriteTypes

LEMMA TypesInit == Init => TypesInv
<1> SUFFICES ASSUME Init PROVE TypesInv
  OBVIOUS
<1>1. StoreTypes
  BY DEF Init, StoreTypes
<1>2. CurTypes
  BY DEF Init, CurTypes, Labels
<1>3. WriteTypes
  BY DEF Init, WriteTypes, Writing
<1>4. TimerTypes
  BY DEF Init, TimerTypes
<1>5. FileTypes
  BY DEF Init, FileTypes
<1> QED BY <1>1, <1>2, <1>3, <1>4, <1>5 DEF TypesInv

\* A new message is at the end of the file, or lost, and the last one with it.
LEMMA CreateOutcome ==
  ASSUME TypesInv, NEW m \in Messages(made), Create(m)
  PROVE  /\ store' \in Seq(Messages(made)) /\ last' = "closed" /\ bad' \in BOOLEAN
         /\ last = "closed" => store' = Append(store, m) /\ Longer(store', store, m)
         /\ last # "closed" => /\ Cut(store', store)
                              /\ store' = Terminated(store)
<1>1. last' = "closed" /\ bad' \in BOOLEAN
  BY DEF Create, TypesInv, FileTypes
<1>2. CASE last = "closed"
  <2>1. store' = Append(store, m)
    BY <1>2 DEF Create
  <2> QED BY <1>1, <1>2, <2>1, AppendLonger DEF TypesInv, StoreTypes
<1>3. CASE last # "closed"
  <2>1. store' = Terminated(store)
    BY <1>3 DEF Create
  <2>2. Terminated(store) \in Seq(Messages(made)) /\ Cut(Terminated(store), store)
    <3>1. ButLast(store) \in Seq(Messages(made)) /\ Cut(ButLast(store), store)
      BY ButLastCuts DEF TypesInv, StoreTypes
    <3>2. store \in Seq(Messages(made)) /\ Cut(store, store)
      BY DEF TypesInv, StoreTypes, Cut
    <3> QED BY <3>1, <3>2 DEF Terminated
  <2> QED BY <1>1, <1>3, <2>1, <2>2
<1> QED BY <1>2, <1>3

\* In the middle of a turn it is always at the end.
LEMMA CreateAppends ==
  ASSUME TypesInv, NEW m, Create(m), pc \notin {"over", "prompt"}
  PROVE  store' = Append(store, m) /\ last' = "closed" /\ bad' = bad /\ bad' \in BOOLEAN
<1>1. last = "closed" /\ bad \in BOOLEAN
  BY DEF TypesInv, FileTypes
<1> QED BY <1>1 DEF Create

\* Steps that append to the store and leave the stream and the timer alone.
LEMMA AppendTypes ==
  ASSUME TypesInv, NEW m \in Messages(made), Create(m),
         UNCHANGED <<pc, cont, turn, made, cur, writes, read, pending, timer>>
  PROVE  TypesInv'
<1>1. store' \in Seq(Messages(made)) /\ last' = "closed" /\ bad' \in BOOLEAN
  BY CreateOutcome
<1>2. StoreTypes' /\ FileTypes'
  BY <1>1 DEF TypesInv, StoreTypes, FileTypes, timer
<1>3. CurTypes' /\ WriteTypes' /\ TimerTypes'
  BY DEF TypesInv, CurTypes, WriteTypes, TimerTypes, timer, Writing
<1> QED BY <1>2, <1>3 DEF TypesInv

\* A file that is not changed keeps its types in a turn, and between turns if
\* no timer is set.
LEMMA SameFile ==
  ASSUME TypesInv, UNCHANGED file,
         \/ pc \notin {"over", "prompt"}
         \/ pc' \in {"over", "prompt"} /\ UNCHANGED <<pending, flush, flushed>>
         \/ pending \cup flush \cup flushed # {} /\ UNCHANGED pc
  PROVE  FileTypes'
BY DEF TypesInv, FileTypes, file

LEMMA CurFields ==
  ASSUME TypesInv, pc \in {"stream", "clean"}
  PROVE  /\ cur \in Versions(made) /\ cur.of = made /\ made \in 1..made
         /\ [cur EXCEPT !.text = TRUE] \in Versions(made)
         /\ [cur EXCEPT !.text = TRUE].of = made
         /\ [cur EXCEPT !.finish = TRUE] \in Versions(made)
         /\ [cur EXCEPT !.finish = TRUE].of = made
         /\ [cur EXCEPT !.finish = TRUE].finish
         /\ \A c \in CallsOf(made) :
               /\ [cur EXCEPT !.calls = @ \cup {c}] \in Versions(made)
               /\ [cur EXCEPT !.calls = @ \cup {c}].of = made
               /\ c \in cur.calls =>
                    /\ [cur EXCEPT !.closed = @ \cup {c}] \in Versions(made)
                    /\ [cur EXCEPT !.closed = @ \cup {c}].of = made
<1>1. cur \in Versions(made) /\ cur.of = made
  BY DEF TypesInv, CurTypes
<1>2. made \in 1..made
  BY <1>1 DEF Versions
<1>3. [cur EXCEPT !.text = TRUE] \in Versions(made) /\ [cur EXCEPT !.text = TRUE].of = made
  BY <1>1 DEF Versions, Shapes
<1>4. /\ [cur EXCEPT !.finish = TRUE] \in Versions(made)
      /\ [cur EXCEPT !.finish = TRUE].of = made
      /\ [cur EXCEPT !.finish = TRUE].finish
  BY <1>1 DEF Versions, Shapes
<1>5. ASSUME NEW c \in CallsOf(made)
      PROVE  /\ [cur EXCEPT !.calls = @ \cup {c}] \in Versions(made)
             /\ [cur EXCEPT !.calls = @ \cup {c}].of = made
  <2>1. c \in Nat \X Nat
    BY <1>2 DEF CallsOf
  <2> QED BY <1>1, <2>1 DEF Versions, Shapes
<1>6. ASSUME NEW c \in CallsOf(made), c \in cur.calls
      PROVE  /\ [cur EXCEPT !.closed = @ \cup {c}] \in Versions(made)
             /\ [cur EXCEPT !.closed = @ \cup {c}].of = made
  <2>1. c \in Nat \X Nat
    BY <1>2 DEF CallsOf
  <2> QED BY <1>1, <1>6, <2>1 DEF Versions, Shapes
<1> QED BY <1>1, <1>2, <1>3, <1>4, <1>5, <1>6


\* What a crash leaves of the file: it is as it was, or the message m has been
\* added without its newline, or it ends in a part of a line.
RestartAdds(m, n) ==
    /\ m \in Messages(n) /\ store \in Seq(Messages(n))
    /\ last = "closed" /\ last' = "open"
    /\ store' = Append(store, m) /\ Longer(store', store, m)
    /\ \/ \E g \in Nat \cup (Guidance \ stored) : m = User(g) /\ n = made
       \/ m = Empty(n) /\ n = made + 1
       \/ /\ n = made /\ made \in 1..made
          /\ \E c \in CallsOf(made) : m = Result({c}) /\
                \/ pc = "stream" /\ c \notin answered
                \/ pc = "clean" /\ c \in todo \ listed
RestartLeaves(n) ==
    /\ n \in Nat /\ store' \in Seq(Messages(n)) /\ last' \in {"closed", "open", "torn"}
    /\ \/ n = made /\ UNCHANGED <<store, last>>
       \/ \E m : RestartAdds(m, n)
       \/ /\ n = made /\ last' = "torn" /\ store' = Terminated(store)
          /\ Cut(store', store)

LEMMA RestartFile ==
  ASSUME TypesInv, Restart
  PROVE  RestartLeaves(made')
<1>1. made \in Nat /\ turn \in Nat /\ store \in Seq(Messages(made))
      /\ last \in {"closed", "open", "torn"}
  BY DEF TypesInv, StoreTypes, FileTypes
<1>2. CASE UNCHANGED <<store, last, made>>
  BY <1>1, <1>2 DEF RestartLeaves
<1>3. ASSUME NEW m \in Appending, BreaksOff(m) PROVE RestartLeaves(made')
  <2>1. CASE last' = "torn" /\ store' = Terminated(store) /\ UNCHANGED made
    <3>1. ButLast(store) \in Seq(Messages(made)) /\ Cut(ButLast(store), store)
      BY <1>1, ButLastCuts
    <3>2. Cut(store, store)
      BY DEF Cut
    <3>3. Terminated(store) \in Seq(Messages(made)) /\ Cut(Terminated(store), store)
      BY <1>1, <3>1, <3>2 DEF Terminated
    <3> QED BY <1>1, <2>1, <3>3 DEF RestartLeaves
  <2>2. CASE /\ last = "closed" /\ last' = "open" /\ store' = Append(store, m)
             /\ made' = IF m.role = "assistant" THEN m.of ELSE made
    <3>1. CASE \E g \in Nat \cup (Guidance \ stored) : m = User(g)
      <4>1. PICK g \in Nat \cup (Guidance \ stored) : m = User(g)
        BY <3>1
      <4>2. m \in Messages(made) /\ m.role = "user"
        BY <1>1, <4>1, NewMessages
      <4>3. made' = made /\ store' \in Seq(Messages(made)) /\ Longer(store', store, m)
        BY <1>1, <2>2, <4>2, AppendLonger
      <4> QED BY <1>1, <2>2, <4>1, <4>2, <4>3 DEF RestartLeaves, RestartAdds
    <3>2. CASE m = Empty(made + 1)
      <4>1. m.role = "assistant" /\ m.of = made + 1
        BY <3>2 DEF Empty
      <4>2. made' = made + 1 /\ made' \in Nat /\ made' \in 1..made'
        BY <1>1, <2>2, <4>1
      <4>3. m \in Messages(made') /\ store \in Seq(Messages(made'))
        BY <1>1, <3>2, <4>2, NewMessages, MoreMessages
      <4>4. store' \in Seq(Messages(made')) /\ Longer(store', store, m)
        BY <2>2, <4>2, <4>3, AppendLonger
      <4> QED BY <1>1, <2>2, <3>2, <4>2, <4>3, <4>4 DEF RestartLeaves, RestartAdds
    <3>3. ASSUME NEW c \in CallsOf(made), m = Result({c}),
                 \/ pc = "stream" /\ c \notin answered
                 \/ pc = "clean" /\ c \in todo \ listed
          PROVE  RestartLeaves(made')
      <4>1. made \in 1..made
        BY <3>3, CurFields
      <4>2. m \in Messages(made) /\ m.role = "tool"
        BY <1>1, <3>3, <4>1, NewMessages DEF Answers
      <4>3. made' = made /\ store' \in Seq(Messages(made)) /\ Longer(store', store, m)
        BY <1>1, <2>2, <4>2, AppendLonger
      <4> QED BY <1>1, <2>2, <3>3, <4>1, <4>2, <4>3 DEF RestartLeaves, RestartAdds
    <3>4. \/ \E g \in Nat \cup (Guidance \ stored) : m = User(g)
          \/ m = Empty(made + 1)
          \/ \E c \in CallsOf(made) : m = Result({c}) /\
                 \/ pc = "stream" /\ c \notin answered
                 \/ pc = "clean" /\ c \in todo \ listed
      BY <1>1 DEF Appending
    <3> QED BY <3>1, <3>2, <3>3, <3>4
  <2> QED BY <1>3, <2>1, <2>2 DEF BreaksOff
<1> QED BY <1>2, <1>3 DEF Restart

LEMMA TypesNext == TypesInv /\ TodoInv /\ [Next]_vars => TypesInv'
<1> SUFFICES ASSUME TypesInv, TodoInv, [Next]_vars PROVE TypesInv'
  OBVIOUS
<1> USE DEF Labels
<1>1. CASE TurnBegins
  <2>1. StoreTypes' /\ FileTypes'
    BY <1>1 DEF TurnBegins, TypesInv, StoreTypes, FileTypes, timer, file
  <2>2. CurTypes' /\ WriteTypes' /\ TimerTypes'
    BY <1>1 DEF TurnBegins, TypesInv, CurTypes, WriteTypes, TimerTypes, Writing, timer
  <2> QED BY <2>1, <2>2 DEF TypesInv
<1>2. CASE StorePrompt
  <2>1. User(turn) \in Messages(made)
    BY NewMessages DEF TypesInv, StoreTypes
  <2>2. store' \in Seq(Messages(made)) /\ last' = "closed" /\ bad' \in BOOLEAN
    BY <1>2, <2>1, CreateOutcome DEF StorePrompt
  <2>3. StoreTypes' /\ FileTypes'
    BY <1>2, <2>2 DEF StorePrompt, TypesInv, StoreTypes, FileTypes, timer
  <2>4. CurTypes' /\ WriteTypes' /\ TimerTypes'
    BY <1>2 DEF StorePrompt, TypesInv, CurTypes, WriteTypes, TimerTypes, Writing, timer
  <2> QED BY <2>3, <2>4 DEF TypesInv
<1>3. CASE PrepareStep
  <2>1. /\ made \in Nat /\ made' = made + 1 /\ made' \in Nat /\ made' \in 1..made'
        /\ store \in Seq(Messages(made)) /\ read \in Seq(Messages(made))
    BY <1>3 DEF PrepareStep, TypesInv, StoreTypes
  <2>2. /\ cur' = Empty(made') /\ store' = Append(store, cur')
        /\ last' = "closed" /\ bad' \in BOOLEAN
    BY <1>3, CreateAppends DEF PrepareStep
  <2>3. /\ store \in Seq(Messages(made')) /\ read \in Seq(Messages(made'))
        /\ Versions(made) \subseteq Versions(made')
        /\ Seq(Messages(made)) \subseteq Seq(Messages(made'))
    BY <2>1, MoreMessages
  <2>4. Empty(made') \in Versions(made') /\ Empty(made') \in Messages(made')
    BY <2>1, NewMessages
  <2>5. cur' \in Versions(made') /\ cur'.of = made' /\ cur' # NoMessage
    BY <2>2, <2>4 DEF Empty, NoMessage
  <2>6. store' \in Seq(Messages(made'))
    BY <2>1, <2>2, <2>3, <2>4, AppendLonger
  <2>7. StoreTypes' /\ FileTypes'
    BY <1>3, <2>1, <2>2, <2>3, <2>6 DEF PrepareStep, TypesInv, StoreTypes, FileTypes, timer
  <2>8. CurTypes'
    BY <1>3, <2>5 DEF PrepareStep, TypesInv, CurTypes
  <2>9. WriteTypes'
    <3>1. writes \in Seq(Versions(made'))
      BY <2>3 DEF TypesInv, WriteTypes
    <3> QED BY <1>3, <3>1 DEF PrepareStep, WriteTypes, Writing
  <2>10. TimerTypes'
    BY <1>3, <2>3 DEF PrepareStep, TypesInv, TimerTypes, timer
  <2> QED BY <2>7, <2>8, <2>9, <2>10 DEF TypesInv
<1>4. CASE TextDelta
  <2>1. pc = "stream" /\ Update([cur EXCEPT !.text = TRUE], "stream")
    BY <1>4 DEF TextDelta
  <2>2. /\ [cur EXCEPT !.text = TRUE] \in Versions(made)
        /\ [cur EXCEPT !.text = TRUE].of = made
    BY <2>1, CurFields
  <2> QED BY <2>1, <2>2, UpdateTypes
<1>5. CASE StepFinishes
  <2>1. PICK next \in {"prepare", "over"} :
          pc = "stream" /\ Update([cur EXCEPT !.finish = TRUE], next)
    BY <1>5 DEF StepFinishes
  <2>2. /\ [cur EXCEPT !.finish = TRUE] \in Versions(made)
        /\ [cur EXCEPT !.finish = TRUE].of = made
        /\ [cur EXCEPT !.finish = TRUE].finish
    BY <2>1, CurFields
  <2> QED BY <2>1, <2>2, UpdateTypes
<1>6. ASSUME NEW c \in CallsOf(made), ToolInputStart(c) PROVE TypesInv'
  <2>1. pc = "stream" /\ Update([cur EXCEPT !.calls = @ \cup {c}], "stream")
    BY <1>6 DEF ToolInputStart
  <2>2. /\ [cur EXCEPT !.calls = @ \cup {c}] \in Versions(made)
        /\ [cur EXCEPT !.calls = @ \cup {c}].of = made
    BY <2>1, CurFields
  <2> QED BY <2>1, <2>2, UpdateTypes
<1>7. ASSUME NEW c \in CallsOf(made), ToolCall(c) PROVE TypesInv'
  <2>1. pc = "stream" /\ c \in cur.calls /\ Update([cur EXCEPT !.closed = @ \cup {c}], "stream")
    BY <1>7 DEF ToolCall
  <2>2. /\ [cur EXCEPT !.closed = @ \cup {c}] \in Versions(made)
        /\ [cur EXCEPT !.closed = @ \cup {c}].of = made
    BY <2>1, CurFields
  <2> QED BY <2>1, <2>2, UpdateTypes
<1>8. ASSUME NEW c \in CallsOf(made), ToolResult(c) PROVE TypesInv'
  <2>1. made \in 1..made
    BY <1>8, CurFields DEF ToolResult
  <2>2. Result({c}) \in Messages(made)
    BY <2>1, NewMessages DEF TypesInv, StoreTypes
  <2> QED BY <1>8, <2>2, AppendTypes DEF ToolResult
<1>9. CASE UpdateReads
  <2>1. pc = "fetch" /\ read = <<>> /\ Writing
    BY <1>9 DEF UpdateReads, TypesInv, CurTypes, Writing
  <2>2. NextWrite(Head(writes), Tail(writes))
    BY <2>1, WritesSplit
  <2>3. /\ UNCHANGED <<file, cont, turn, made, pending, timer>>
        /\ cont \in {"stream", "prepare", "over", "clean", "end"}
    BY <1>9, <2>1 DEF UpdateReads, TypesInv, WriteTypes
  <2>4. TimerTypes' /\ FileTypes' /\ store' = store
    BY <2>1, <2>3, SameFile DEF TypesInv, TimerTypes, timer, file
  <2>5. CASE Updatable(Head(writes))
    <3>1. GoesOn("write") /\ read' = store /\ UNCHANGED writes
      BY <1>9, <2>5 DEF UpdateReads
    <3>2. pc' = "write" /\ UNCHANGED cur
      BY <3>1 DEF GoesOn
    <3>3. StoreTypes'
      BY <2>3, <2>4, <3>1 DEF TypesInv, StoreTypes
    <3>4. CurTypes' /\ WriteTypes'
      BY <2>1, <2>3, <3>1, <3>2 DEF TypesInv, CurTypes, WriteTypes, Writing
    <3> QED BY <2>4, <3>3, <3>4 DEF TypesInv
  <2>6. CASE ~Updatable(Head(writes))
    <3>1. /\ writes' = Tail(writes) /\ read' = read
          /\ GoesOn(IF writes' # <<>> THEN "fetch"
                    ELSE IF cont \in {"clean", "end"} THEN "over" ELSE "broken")
      BY <1>9, <2>6 DEF UpdateReads
    <3>2. StoreTypes'
      BY <2>3, <2>4, <3>1 DEF TypesInv, StoreTypes
    <3>3. CASE Tail(writes) = <<cur>>
      <4>1. writes' = <<cur>> /\ <<cur>> \in Seq(Versions(made)) /\ <<cur>> # <<>>
        BY <2>2, <3>1, <3>3 DEF NextWrite
      <4>2. pc' = "fetch" /\ UNCHANGED cur
        BY <3>1, <4>1 DEF GoesOn
      <4> QED BY <2>1, <2>3, <2>4, <3>1, <3>2, <4>1, <4>2
              DEF TypesInv, CurTypes, WriteTypes, Writing
    <3>4. CASE Tail(writes) = <<>>
      <4>1. writes' = <<>>
        BY <3>1, <3>4
      <4>2. \/ pc' = "over" /\ cur' = NoMessage
            \/ pc' = "broken" /\ UNCHANGED cur
        BY <3>1, <4>1 DEF GoesOn
      <4>3. CurTypes'
        BY <2>1, <2>3, <3>1, <4>2 DEF TypesInv, CurTypes
      <4>4. WriteTypes'
        BY <4>1, <4>2 DEF WriteTypes, Writing
      <4> QED BY <2>4, <3>2, <4>3, <4>4 DEF TypesInv
    <3> QED BY <2>2, <3>3, <3>4 DEF NextWrite
  <2> QED BY <2>5, <2>6
<1>10. CASE UpdateWrites
  <2>1. pc = "write" /\ Writing
    BY <1>10 DEF UpdateWrites, Writing
  <2>2. NextWrite(Head(writes), Tail(writes))
    BY <2>1, WritesSplit
  <2>3. /\ UNCHANGED <<turn, made, pending, timer>> /\ read' = <<>>
        /\ store' = Replace(read, Head(writes)) /\ writes' = Tail(writes)
        /\ last' = "closed" /\ bad' = FALSE
        /\ cont \in {"stream", "prepare", "over", "clean", "end"}
    BY <1>10, <2>1 DEF UpdateWrites, Rewrites, TypesInv, WriteTypes
  <2>4. TimerTypes' /\ FileTypes'
    BY <2>3 DEF TypesInv, TimerTypes, FileTypes, timer
  <2>5. StoreTypes'
    <3>1. Replace(read, Head(writes)) \in Seq(Messages(made))
      BY <2>2, ReplaceRewrites DEF TypesInv, StoreTypes, NextWrite
    <3> QED BY <2>3, <3>1 DEF TypesInv, StoreTypes
  <2>6. CASE Tail(writes) = <<cur>>
    <3>1. writes' = <<cur>> /\ <<cur>> \in Seq(Versions(made)) /\ <<cur>> # <<>>
      BY <2>2, <2>3, <2>6 DEF NextWrite
    <3>2. pc' = "fetch" /\ UNCHANGED <<cur, cont>>
      BY <1>10, <3>1 DEF UpdateWrites, GoesOn
    <3> QED BY <2>1, <2>3, <2>4, <2>5, <3>1, <3>2 DEF TypesInv, CurTypes, WriteTypes, Writing
  <2>7. CASE Tail(writes) = <<>>
    <3>1. writes' = <<>>
      BY <2>3, <2>7
    <3>2. /\ cont' = "over"
          /\ \/ pc' = "over" /\ cur' = NoMessage
             \/ pc' \in {"stream", "prepare", "clean"} /\ UNCHANGED cur
      BY <1>10, <2>3, <3>1 DEF UpdateWrites, GoesOn
    <3>3. CurTypes'
      BY <2>1, <2>3, <3>2 DEF TypesInv, CurTypes
    <3>4. WriteTypes'
      BY <3>1, <3>2 DEF WriteTypes, Writing
    <3> QED BY <2>4, <2>5, <3>3, <3>4 DEF TypesInv
  <2> QED BY <2>2, <2>6, <2>7 DEF NextWrite
<1>11. CASE StreamFails
  <2>1. StoreTypes' /\ FileTypes'
    <3>1. pc \notin {"over", "prompt"} /\ UNCHANGED file
      BY <1>11 DEF StreamFails
    <3> QED BY <1>11, <3>1, SameFile DEF StreamFails, TypesInv, StoreTypes, file
  <2>2. CurTypes' /\ WriteTypes' /\ TimerTypes'
    BY <1>11 DEF StreamFails, TypesInv, CurTypes, WriteTypes, TimerTypes, Writing, timer
  <2> QED BY <2>1, <2>2 DEF TypesInv
<1>12. CASE CleanupLists
  <2>1. StoreTypes' /\ FileTypes'
    <3>1. pc \notin {"over", "prompt"} /\ UNCHANGED file
      BY <1>12 DEF CleanupLists
    <3> QED BY <1>12, <3>1, SameFile DEF CleanupLists, TypesInv, StoreTypes, file
  <2>2. /\ UNCHANGED <<made, cont, writes, read, pending, timer>>
        /\ \/ pc' = "over" /\ cur' = NoMessage
           \/ pc' = "clean" /\ cur # NoMessage /\ UNCHANGED cur
        /\ pc = "broken"
    BY <1>12 DEF CleanupLists, GoesOn
  <2>3. CurTypes' /\ WriteTypes' /\ TimerTypes'
    BY <2>2 DEF TypesInv, CurTypes, WriteTypes, TimerTypes, Writing, timer
  <2> QED BY <2>1, <2>3 DEF TypesInv
<1>13. CASE CleanupEnds
  <2>1. pc = "clean" /\ Update([cur EXCEPT !.finish = TRUE], "end")
    BY <1>13 DEF CleanupEnds
  <2>2. /\ [cur EXCEPT !.finish = TRUE] \in Versions(made)
        /\ [cur EXCEPT !.finish = TRUE].of = made
        /\ [cur EXCEPT !.finish = TRUE].finish
    BY <2>1, CurFields
  <2> QED BY <2>1, <2>2, UpdateTypes
<1>14. ASSUME NEW c \in CallsOf(made), CleanupCall(c) PROVE TypesInv'
  <2>1. CASE /\ pc = "clean" /\ c \in todo /\ c \notin cur.closed
             /\ Update([cur EXCEPT !.closed = @ \cup {c}], "clean")
    <3>1. /\ [cur EXCEPT !.closed = @ \cup {c}].of = made
          /\ [cur EXCEPT !.closed = @ \cup {c}] \in Versions(made)
      <4>1. c \in cur.calls
        BY <2>1 DEF TodoInv
      <4> QED BY <2>1, <4>1, CurFields
    <3> QED BY <2>1, <3>1, UpdateTypes
  <2>2. CASE /\ pc = "clean"
             /\ IF c \in listed THEN UNCHANGED file ELSE Create(Result({c}))
             /\ UNCHANGED <<pc, cont, turn, made, cur, writes, read, pending, timer>>
    <3>1. Result({c}) \in Messages(made)
      <4>1. made \in 1..made
        BY <2>2, CurFields
      <4> QED BY <4>1, NewMessages DEF TypesInv, StoreTypes
    <3>2. CASE UNCHANGED file
      <4>1. FileTypes'
        BY <2>2, <3>2, SameFile
      <4> QED BY <2>2, <3>2, <4>1
              DEF TypesInv, StoreTypes, CurTypes, WriteTypes, TimerTypes, Writing, timer, file
    <3>3. CASE Create(Result({c}))
      BY <2>2, <3>1, <3>3, AppendTypes
    <3> QED BY <2>2, <3>2, <3>3
  <2> QED BY <1>14, <2>1, <2>2 DEF CleanupCall
<1>15. ASSUME NEW p \in pending, FlushTakes(p) PROVE TypesInv'
  <2>1. StoreTypes' /\ FileTypes'
    <3>1. UNCHANGED <<file, pc>> /\ pending \cup flush \cup flushed # {}
      BY <1>15 DEF FlushTakes, stream
    <3> QED BY <1>15, <3>1, SameFile DEF FlushTakes, TypesInv, StoreTypes, stream, file
  <2>2. CurTypes' /\ WriteTypes' /\ TimerTypes'
    BY <1>15 DEF FlushTakes, TypesInv, CurTypes, WriteTypes, TimerTypes, Writing, stream
  <2> QED BY <2>1, <2>2 DEF TypesInv
<1>16. ASSUME NEW p \in flush, FlushReads(p) PROVE TypesInv'
  <2>1. UNCHANGED <<file, stream, pending>> /\ flush' = flush \ {p}
    BY <1>16 DEF FlushReads
  <2>2. StoreTypes' /\ FileTypes'
    <3>1. UNCHANGED <<file, pc>> /\ pending \cup flush \cup flushed # {}
      BY <2>1 DEF stream
    <3> QED BY <2>1, <3>1, SameFile DEF TypesInv, StoreTypes, stream, file
  <2>3. CurTypes' /\ WriteTypes'
    BY <2>1 DEF TypesInv, CurTypes, WriteTypes, Writing, stream
  <2>4. made' = made /\ pending' = pending
    BY <2>1 DEF stream
  <2>5. \A f \in flushed' : f \in flushed \/ f = [msg |-> p, on |-> store]
    BY <1>16 DEF FlushReads
  <2>6. p \in Versions(made) /\ Early(p) /\ store \in Seq(Messages(made))
    BY DEF TypesInv, TimerTypes, StoreTypes
  <2>7. ASSUME NEW f \in flushed'
        PROVE  f.msg \in Versions(made) /\ Early(f.msg) /\ f.on \in Seq(Messages(made))
    BY <2>5, <2>6 DEF TypesInv, TimerTypes
  <2>8. TimerTypes'
    BY <2>1, <2>4, <2>7 DEF TypesInv, TimerTypes
  <2> QED BY <2>2, <2>3, <2>8 DEF TypesInv
<1>17. ASSUME NEW f \in flushed, FlushWrites(f) PROVE TypesInv'
  <2>1. f.msg \in Versions(made) /\ f.on \in Seq(Messages(made))
    BY DEF TypesInv, TimerTypes
  <2>2. Replace(f.on, f.msg) \in Seq(Messages(made))
    BY <2>1, ReplaceRewrites DEF TypesInv, StoreTypes
  <2>3. StoreTypes' /\ FileTypes'
    BY <1>17, <2>2 DEF FlushWrites, Rewrites, TypesInv, StoreTypes, FileTypes, stream
  <2>4. CurTypes' /\ WriteTypes' /\ TimerTypes'
    BY <1>17 DEF FlushWrites, TypesInv, CurTypes, WriteTypes, TimerTypes, Writing, stream
  <2> QED BY <2>3, <2>4 DEF TypesInv
<1>18. ASSUME NEW g \in Guidance, InjectStores(g) PROVE TypesInv'
  <2>1. User(g) \in Messages(made)
    BY NewMessages DEF TypesInv, StoreTypes
  <2> QED BY <1>18, <2>1, AppendTypes DEF InjectStores, stream
<1>19. CASE /\ \/ \E g \in Guidance : InjectBuffers(g)
               \/ UNCHANGED vars
  <2>1. UNCHANGED <<file, stream, pending, timer>>
    BY <1>19 DEF InjectBuffers, vars
  <2>2. StoreTypes' /\ FileTypes'
    BY <2>1 DEF TypesInv, StoreTypes, FileTypes, stream, timer, file
  <2>3. CurTypes' /\ WriteTypes' /\ TimerTypes'
    BY <2>1 DEF TypesInv, CurTypes, WriteTypes, TimerTypes, Writing, stream, timer
  <2> QED BY <2>2, <2>3 DEF TypesInv
<1>20. CASE Restart
  <2>1. RestartLeaves(made')
    BY <1>20, RestartFile
  <2>2. StoreTypes' /\ FileTypes'
    BY <1>20, <2>1 DEF RestartLeaves, Restart, GoesOn, TypesInv, StoreTypes, FileTypes
  <2>3. CurTypes' /\ WriteTypes' /\ TimerTypes'
    BY <1>20, <2>1 DEF Restart, RestartLeaves, GoesOn, CurTypes, WriteTypes, TimerTypes, Writing
  <2> QED BY <2>2, <2>3 DEF TypesInv
<1> QED
  BY <1>1, <1>2, <1>3, <1>4, <1>5, <1>6, <1>7, <1>8, <1>9, <1>10, <1>11, <1>12, <1>13,
     <1>14, <1>15, <1>16, <1>17, <1>18, <1>19, <1>20 DEF Next

LEMMA TodoNext == TypesInv /\ TodoInv /\ [Next]_vars => TodoInv'
<1> SUFFICES ASSUME TypesInv, TodoInv, [Next]_vars PROVE TodoInv'
  OBVIOUS
<1>1. ASSUME UNCHANGED <<todo, pc, cont, cur>> PROVE TodoInv'
  BY <1>1 DEF TodoInv, Cleaning, Writing
<1>2. ASSUME NEW m, NEW next, Update(m, next), pc \in {"stream", "clean"}, todo' = todo,
             pc = "clean" => (next = "clean" \/ todo = {}) /\ m.calls = cur.calls
      PROVE  TodoInv'
  <2>1. cur' = m /\ \/ pc' = "fetch" /\ cont' = next
                    \/ pc' = next /\ cont' = cont
    BY <1>2 DEF Update
  <2> QED BY <1>2, <2>1 DEF TodoInv, Cleaning, Writing
<1>3. ASSUME pc \notin {"clean", "fetch", "write"}, todo' = todo PROVE TodoInv'
  BY <1>3 DEF TodoInv, Cleaning, Writing
<1>4. CASE TurnBegins \/ StorePrompt \/ PrepareStep \/ StreamFails
  BY <1>3, <1>4 DEF TurnBegins, StorePrompt, PrepareStep, StreamFails
<1>5. CASE TextDelta \/ StepFinishes
  BY <1>3, <1>5 DEF TextDelta, StepFinishes
<1>6. CASE \E c \in CallsOf(made) : ToolInputStart(c) \/ ToolCall(c) \/ ToolResult(c)
  BY <1>3, <1>6 DEF ToolInputStart, ToolCall, ToolResult
<1>7. CASE UpdateReads
  <2>1. \/ pc' = "over" /\ todo' = {}
        \/ pc' \in {"fetch", "write"} /\ UNCHANGED <<todo, cont, cur>>
        \/ pc' = "broken" /\ todo' = todo /\ cont \notin {"clean", "end"} /\ UNCHANGED <<cont, cur>>
    BY <1>7 DEF UpdateReads, GoesOn
  <2>2. pc = "fetch"
    BY <1>7 DEF UpdateReads
  <2> QED BY <2>1, <2>2 DEF TodoInv, Cleaning, Writing
<1>8. CASE UpdateWrites
  <2>2. \/ pc' = "over" /\ todo' = {}
        \/ pc' = "fetch" /\ UNCHANGED <<todo, cont, cur>>
        \/ pc' = cont /\ UNCHANGED <<todo, cur>>
    BY <1>8 DEF UpdateWrites, GoesOn
  <2>3. pc = "write"
    BY <1>8 DEF UpdateWrites
  <2> QED BY <2>2, <2>3 DEF TodoInv, Cleaning, Writing
<1>9. CASE CleanupLists
  <2>1. \/ pc' = "over" /\ todo' = {}
        \/ pc' = "clean" /\ todo' = cur.calls /\ cur' = cur
    BY <1>9 DEF CleanupLists, GoesOn
  <2> QED BY <2>1 DEF TodoInv, Cleaning
<1>10. CASE CleanupEnds
  BY <1>10 DEF CleanupEnds, TodoInv
<1>11. ASSUME NEW c \in CallsOf(made), CleanupCall(c) PROVE TodoInv'
  <2>1. CASE pc = "clean" /\ Update([cur EXCEPT !.closed = @ \cup {c}], "clean") /\ todo' = todo
    <3>1. [cur EXCEPT !.closed = @ \cup {c}].calls = cur.calls
      BY <2>1, CurFields DEF Versions, Shapes
    <3> QED BY <1>2, <2>1, <3>1
  <2>2. CASE todo' = todo \ {c} /\ UNCHANGED <<pc, cont, cur>>
    BY <2>2 DEF TodoInv, Cleaning, Writing
  <2> QED BY <1>11, <2>1, <2>2 DEF CleanupCall
<1>12. CASE \/ \E p \in pending : FlushTakes(p)
            \/ \E p \in flush : FlushReads(p)
            \/ \E f \in flushed : FlushWrites(f)
            \/ \E g \in Guidance : InjectStores(g) \/ InjectBuffers(g)
            \/ UNCHANGED vars
  BY <1>1, <1>12 DEF FlushTakes, FlushReads, FlushWrites, InjectStores, InjectBuffers,
                     vars, stream
<1>13. CASE Restart
  BY <1>13 DEF Restart, GoesOn, TodoInv
<1> QED
  BY <1>4, <1>5, <1>6, <1>7, <1>8, <1>9, <1>10, <1>11, <1>12, <1>13 DEF Next

-----------------------------------------------------------------------------
(* The order of the transcript *)

\* A list whose results are single, but for those that were brought back.
Sound(s) == Ordered(s) /\ Single(s, revived)
OrderInv == Sound(store) /\ Sound(read) /\ \A f \in flushed : Sound(f.on)

\* The results in the store and in all that has been read from it.
AllResults == ResultsIn(store) \cup ResultsIn(read) \cup UNION {ResultsIn(f.on) : f \in flushed}

\* No result of a call of the step is stored, or in a reading, without being
\* known; nor is one of a call of the clean-up stored, unless it was brought back.
ResultInv ==
   /\ Streaming => CallsOf(made) \cap AllResults \subseteq answered
   /\ Cleaning => todo \cap (ResultsIn(store) \cup ResultsIn(read)) \subseteq listed \cup revived

LEMMA EmptyList == Ordered(<<>>) /\ Sound(<<>>) /\ ResultsIn(<<>>) = {}
BY DEF Ordered, Sound, Single, ResultsIn

LEMMA OrderInit == Init => OrderInv /\ ResultInv
BY EmptyList DEF Init, OrderInv, ResultInv, Streaming, Cleaning, Writing

\* No result of a call of a later message.
LEMMA NoLaterResults ==
  ASSUME NEW n \in Nat, NEW s \in Seq(Messages(n))
  PROVE  CallsOf(n+1) \cap ResultsIn(s) = {}
<1> SUFFICES ASSUME NEW c \in CallsOf(n+1), c \in ResultsIn(s) PROVE FALSE
  OBVIOUS
<1>1. PICK k \in DOMAIN s : s[k].role = "tool" /\ s[k].of = {c}
  BY ResultListed
<1>2. s[k] \in Messages(n)
  OBVIOUS
<1>3. PICK i \in 1..n : \E d \in CallsOf(i) : Answers(s[k], d)
  BY <1>1, <1>2, MessageKinds
<1>4. PICK d \in CallsOf(i) : Answers(s[k], d)
  BY <1>3
<1>5. c = d
  BY <1>1, <1>4 DEF Answers
<1>6. d[1] = i
  BY DEF CallsOf
<1>7. c[1] = n + 1
  BY DEF CallsOf
<1> QED BY <1>5, <1>6, <1>7

\* More results that were brought back are no harm.
LEMMA SingleMore ==
  ASSUME NEW s, NEW R, NEW R2, R \subseteq R2, Single(s, R)
  PROVE  Single(s, R2)
BY DEF Single

\* A message behind a sound list keeps it sound.
LEMMA SoundLonger ==
  ASSUME NEW n \in Nat, NEW s \in Seq(Messages(n)), Sound(s),
         NEW s2, NEW m, Longer(s2, s, m),
         \/ m.role = "user"
         \/ m.role = "assistant" /\ m.of = n + 1
         \/ /\ m.role = "tool"
            /\ \E c \in CallsOf(n) : m.of = {c} /\ (c \in ResultsIn(s) => c \in revived)
  PROVE  Sound(s2)
<1>1. Ordered(s2)
  BY LongerOrdered DEF Sound
<1>2. m.role = "tool" => \E c : m.of = {c} /\ (c \in ResultsIn(s) => c \in revived)
  OBVIOUS
<1>3. Single(s2, revived)
  BY <1>2, LongerSingle DEF Sound
<1> QED BY <1>1, <1>3 DEF Sound

\* So does the update of a message.
LEMMA SoundReplace ==
  ASSUME NEW n \in Nat, NEW s \in Seq(Messages(n)), Sound(s), NEW m \in Versions(n)
  PROVE  /\ Ordered(Replace(s, m)) /\ Single(Replace(s, m), revived)
         /\ ResultsIn(Replace(s, m)) = ResultsIn(s)
<1>1. Rewritten(Replace(s, m), s, m) /\ m.role = "assistant"
  BY ReplaceRewrites DEF Versions, Shapes
<1> QED BY <1>1, RewrittenKeeps DEF Sound

\* An update in two steps does not disturb the order, whatever it overwrites.
LEMMA UpdateOrder ==
  ASSUME TypesInv, OrderInv, ResultInv,
         NEW m, NEW next \in {"stream", "prepare", "over", "clean", "end"}, Update(m, next),
         pc \in {"stream", "clean"}, UNCHANGED <<answered, todo>>,
         pc = "stream" => next # "clean", pc = "clean" => next # "stream"
  PROVE  OrderInv' /\ ResultInv'
<1>1. /\ UNCHANGED <<store, made, read, listed, flushed, answered, todo, revived>>
      /\ \/ pc' = "fetch" /\ cont' = next
         \/ pc' = next
  BY DEF Update, timer, file, lost
<1>2. OrderInv'
  BY <1>1 DEF OrderInv, Sound
<1>3. Streaming' => Streaming
  BY <1>1 DEF Streaming, Writing
<1>4. Cleaning' => Cleaning
  BY <1>1 DEF Cleaning, Writing
<1>5. ResultInv'
  BY <1>1, <1>3, <1>4 DEF ResultInv, AllResults
<1> QED BY <1>2, <1>5

LEMMA OrderNext ==
  TypesInv /\ TodoInv /\ OrderInv /\ ResultInv /\ [Next]_vars => OrderInv' /\ ResultInv'
<1> SUFFICES ASSUME TypesInv, TodoInv, OrderInv, ResultInv, [Next]_vars
             PROVE  OrderInv' /\ ResultInv'
  OBVIOUS
<1>1. ASSUME UNCHANGED <<store, pc, cont, made, answered, read, todo, listed, flushed, revived>>
      PROVE  OrderInv' /\ ResultInv'
  BY <1>1 DEF OrderInv, Sound, ResultInv, AllResults, Streaming, Cleaning, Writing
<1>2. ASSUME UNCHANGED <<store, read, flushed, revived>>,
             pc' \notin {"stream", "fetch", "write", "clean"}
      PROVE  OrderInv' /\ ResultInv'
  BY <1>2 DEF OrderInv, Sound, ResultInv, Streaming, Cleaning, Writing
<1>3. ASSUME NEW g \in Nat \cup Guidance, Create(User(g)),
             UNCHANGED <<read, flushed, made, answered, todo, listed, revived>>,
             \/ UNCHANGED <<pc, cont>>
             \/ pc' = "prepare"
      PROVE  OrderInv' /\ ResultInv'
  <2>1. User(g) \in Messages(made) /\ User(g).role = "user"
    BY NewMessages DEF TypesInv, StoreTypes
  <2>2. Sound(store)' /\ ResultsIn(store') \subseteq ResultsIn(store)
    <3>1. CASE last = "closed"
      <4>1. Longer(store', store, User(g)) /\ store \in Seq(Messages(made)) /\ made \in Nat
        BY <1>3, <2>1, <3>1, CreateOutcome DEF TypesInv, StoreTypes
      <4>2. Sound(store')
        BY <2>1, <4>1, SoundLonger DEF OrderInv
      <4>3. ResultsIn(store') = ResultsIn(store)
        BY <2>1, <4>1, LongerSets
      <4> QED BY <1>3, <4>2, <4>3 DEF Sound
    <3>2. CASE last # "closed"
      <4>1. Cut(store', store)
        BY <1>3, <2>1, <3>2, CreateOutcome
      <4> QED BY <1>3, <4>1, CutKeeps DEF OrderInv, Sound
    <3> QED BY <3>1, <3>2
  <2>3. OrderInv'
    BY <1>3, <2>2 DEF OrderInv, Sound
  <2>4. AllResults' \subseteq AllResults
    BY <1>3, <2>2 DEF AllResults
  <2>5. (Streaming' => Streaming) /\ (Cleaning' => Cleaning)
    BY <1>3 DEF Streaming, Cleaning, Writing
  <2> QED BY <1>3, <2>2, <2>3, <2>4, <2>5 DEF ResultInv
<1>4. ASSUME NEW c \in CallsOf(made), Create(Result({c})),
             c \in ResultsIn(store) => c \in revived, pc \in {"stream", "clean"},
             UNCHANGED <<read, flushed, made, revived>>
      PROVE  OrderInv' /\ ResultsIn(store') = ResultsIn(store) \cup {c}
  <2>1. made \in 1..made /\ made \in Nat
    BY <1>4, CurFields DEF TypesInv, StoreTypes
  <2>2. /\ Result({c}) \in Messages(made) /\ Result({c}).role = "tool"
        /\ Result({c}).of = {c}
    BY <2>1, NewMessages DEF Answers
  <2>3. store \in Seq(Messages(made)) /\ Longer(store', store, Result({c}))
    <3>1. store' = Append(store, Result({c}))
      BY <1>4, CreateAppends
    <3> QED BY <2>2, <3>1, AppendLonger DEF TypesInv, StoreTypes
  <2>4. Sound(store')
    BY <1>4, <2>1, <2>2, <2>3, SoundLonger DEF OrderInv
  <2>5. ResultsIn(store') = ResultsIn(store) \cup {c}
    BY <2>2, <2>3, LongerSets
  <2> QED BY <1>4, <2>4, <2>5 DEF OrderInv, Sound
<1>5. CASE TurnBegins \/ StreamFails
  BY <1>2, <1>5 DEF TurnBegins, StreamFails, timer, file, lost
<1>6. CASE StorePrompt
  BY <1>3, <1>6 DEF StorePrompt, timer, lost, TypesInv, StoreTypes
<1>7. CASE PrepareStep
  <2>1. /\ made \in Nat /\ made' = made + 1 /\ made' \in Nat /\ made' \in 1..made'
        /\ store \in Seq(Messages(made)) /\ read = <<>> /\ UNCHANGED <<read, flushed, revived>>
        /\ store' = Append(store, Empty(made')) /\ pc' = "stream" /\ answered' = {}
    BY <1>7, CreateAppends DEF PrepareStep, TypesInv, StoreTypes, CurTypes, timer, lost
  <2>2. /\ Empty(made') \in Messages(made') /\ Empty(made').role = "assistant"
        /\ Empty(made').of = made'
    BY <2>1, NewMessages DEF Empty
  <2>3. store \in Seq(Messages(made'))
    BY <2>1, MoreMessages
  <2>4. Longer(store', store, Empty(made'))
    BY <2>1, <2>2, <2>3, AppendLonger
  <2>5. Sound(store')
    BY <2>1, <2>2, <2>4, SoundLonger DEF OrderInv
  <2>6. ResultsIn(store') = ResultsIn(store)
    BY <2>2, <2>4, LongerSets
  <2>7. CallsOf(made') \cap AllResults' = {}
    <3>1. CallsOf(made') \cap ResultsIn(store') = {} /\ ResultsIn(read') = {}
      BY <2>1, <2>6, NoLaterResults, EmptyList
    <3>2. ASSUME NEW f \in flushed PROVE CallsOf(made') \cap ResultsIn(f.on) = {}
      <4>1. f.on \in Seq(Messages(made))
        BY DEF TypesInv, TimerTypes
      <4> QED BY <2>1, <4>1, NoLaterResults
    <3> QED BY <2>1, <3>1, <3>2 DEF AllResults
  <2>8. ~Cleaning'
    BY <2>1 DEF Cleaning, Writing
  <2> QED BY <2>1, <2>5, <2>7, <2>8 DEF OrderInv, Sound, ResultInv
<1>8. CASE TextDelta
  BY <1>8, UpdateOrder DEF TextDelta
<1>9. CASE StepFinishes
  <2>1. PICK next \in {"prepare", "over"} :
          Update([cur EXCEPT !.finish = TRUE], next)
    BY <1>9 DEF StepFinishes
  <2>2. pc = "stream" /\ UNCHANGED <<answered, todo>>
    BY <1>9 DEF StepFinishes
  <2> QED BY <2>1, <2>2, UpdateOrder
<1>10. ASSUME NEW c \in CallsOf(made), ToolInputStart(c) \/ ToolCall(c)
       PROVE  OrderInv' /\ ResultInv'
  BY <1>10, UpdateOrder DEF ToolInputStart, ToolCall
<1>11. ASSUME NEW c \in CallsOf(made), ToolResult(c) PROVE OrderInv' /\ ResultInv'
  <2>1. /\ pc = "stream" /\ c \notin answered /\ Create(Result({c}))
        /\ UNCHANGED <<pc, cont, read, flushed, made, listed, todo, revived>>
        /\ answered' = answered \cup {c}
    BY <1>11 DEF ToolResult, timer, lost
  <2>2. ~Cleaning' /\ Streaming
    BY <2>1 DEF Cleaning, Writing, Streaming
  <2>3. c \notin ResultsIn(store)
    BY <2>1, <2>2 DEF ResultInv, AllResults
  <2>4. OrderInv' /\ ResultsIn(store') = ResultsIn(store) \cup {c}
    BY <1>4, <2>1, <2>3
  <2>5. AllResults' \subseteq AllResults \cup {c}
    BY <2>1, <2>4 DEF AllResults
  <2> QED BY <2>1, <2>2, <2>4, <2>5 DEF ResultInv
<1>12. CASE UpdateReads
  <2>1. /\ UNCHANGED <<store, flushed, made, cont, revived>> /\ pc = "fetch"
        /\ \/ pc' = "write" /\ read' = store
           \/ pc' = "fetch" /\ read' = read
           \/ pc' \in {"over", "broken"} /\ read' = read
        /\ \/ pc' = "over"
           \/ UNCHANGED <<answered, todo, listed>>
    BY <1>12 DEF UpdateReads, GoesOn, timer, file, lost
  <2>2. OrderInv'
    BY <2>1 DEF OrderInv, Sound
  <2>3. (Streaming' => Streaming) /\ (Cleaning' => Cleaning)
    BY <2>1 DEF Streaming, Cleaning, Writing
  <2>4. pc' = "over" => ~Streaming' /\ ~Cleaning'
    BY DEF Streaming, Cleaning, Writing
  <2>5. AllResults' \subseteq AllResults
    BY <2>1 DEF AllResults
  <2> QED BY <2>1, <2>2, <2>3, <2>4, <2>5 DEF ResultInv
<1>13. CASE UpdateWrites
  <2>1. pc = "write" /\ Writing
    BY <1>13 DEF UpdateWrites, Writing
  <2>2. Head(writes) \in Versions(made)
    BY <2>1, WritesSplit DEF NextWrite
  <2>3. /\ store' = Replace(read, Head(writes))
        /\ revived' = revived \cup (ResultsIn(read) \ ResultsIn(store))
    BY <1>13 DEF UpdateWrites, Rewrites
  <2>4. /\ Ordered(store') /\ Single(store', revived) /\ ResultsIn(store') = ResultsIn(read)
    BY <2>2, <2>3, SoundReplace DEF OrderInv, TypesInv, StoreTypes
  <2>5. /\ read' = <<>> /\ UNCHANGED <<flushed, made>>
        /\ \/ pc' = "fetch" /\ UNCHANGED cont
           \/ pc' = cont
           \/ pc' = "over"
        /\ \/ pc' = "over"
           \/ UNCHANGED <<answered, todo, listed>>
    BY <1>13 DEF UpdateWrites, GoesOn, timer
  <2>6. cont \in {"stream", "prepare", "over", "clean", "end"}
    BY <2>1 DEF TypesInv, WriteTypes
  <2>7. ASSUME NEW s, Sound(s) PROVE Ordered(s) /\ Single(s, revived')
    BY <2>3, <2>7, SingleMore DEF Sound
  <2>8. OrderInv' /\ ResultsIn(read') = {}
    <3>1. Single(store', revived')
      BY <2>3, <2>4, SingleMore
    <3>2. \A f \in flushed : Sound(f.on)
      BY DEF OrderInv
    <3> QED BY <2>4, <2>5, <2>7, <3>1, <3>2, EmptyList DEF OrderInv, Sound
  <2>9. (Streaming' => Streaming) /\ (Cleaning' => Cleaning) /\ pc' # "write"
    BY <2>1, <2>5, <2>6 DEF Streaming, Cleaning, Writing
  <2>10. pc' = "over" => ~Streaming' /\ ~Cleaning'
    BY DEF Streaming, Cleaning, Writing
  <2>11. AllResults' \subseteq AllResults
    BY <2>4, <2>5, <2>8 DEF AllResults
  <2> QED BY <2>3, <2>4, <2>5, <2>8, <2>9, <2>10, <2>11 DEF ResultInv
<1>14. CASE CleanupLists
  <2>1. UNCHANGED <<store, read, flushed, revived>> /\ pc = "broken" /\ read = <<>>
    BY <1>14 DEF CleanupLists, timer, file, lost, TypesInv, CurTypes
  <2>2. CASE pc' = "over"
    BY <1>2, <2>1, <2>2
  <2>3. CASE pc' = "clean" /\ listed' = ResultsIn(store)
    <3>1. ~Streaming' /\ ResultsIn(read') = {}
      BY <2>1, <2>3, EmptyList DEF Streaming, Writing
    <3> QED BY <2>1, <2>3, <3>1 DEF OrderInv, Sound, ResultInv
  <2> QED BY <1>14, <2>2, <2>3 DEF CleanupLists, GoesOn
<1>15. CASE CleanupEnds
  BY <1>15, UpdateOrder DEF CleanupEnds
<1>16. ASSUME NEW c \in CallsOf(made), CleanupCall(c) PROVE OrderInv' /\ ResultInv'
  <2>1. CASE /\ pc = "clean" /\ Update([cur EXCEPT !.closed = @ \cup {c}], "clean")
             /\ UNCHANGED <<answered, todo>>
    BY <2>1, UpdateOrder
  <2>2. CASE /\ pc = "clean" /\ c \in todo /\ todo' = todo \ {c}
             /\ IF c \in listed THEN UNCHANGED file ELSE Create(Result({c}))
             /\ UNCHANGED <<pc, cont, read, flushed, made, listed, revived>>
    <3>1. ~Streaming' /\ Cleaning
      BY <2>2 DEF Streaming, Cleaning, Writing
    <3>2. CASE c \in listed
      BY <2>2, <3>1, <3>2 DEF OrderInv, Sound, ResultInv, file
    <3>3. CASE c \notin listed
      <4>1. c \in ResultsIn(store) => c \in revived
        BY <2>2, <3>1, <3>3 DEF ResultInv
      <4>2. OrderInv' /\ ResultsIn(store') = ResultsIn(store) \cup {c}
        BY <1>4, <2>2, <3>3, <4>1
      <4> QED BY <2>2, <3>1, <4>2 DEF ResultInv
    <3> QED BY <3>2, <3>3
  <2> QED BY <1>16, <2>1, <2>2 DEF CleanupCall, timer, lost
<1>17. ASSUME NEW p \in pending, FlushTakes(p) PROVE OrderInv' /\ ResultInv'
  BY <1>1, <1>17 DEF FlushTakes, stream, file, lost
<1>18. ASSUME NEW p \in flush, FlushReads(p) PROVE OrderInv' /\ ResultInv'
  <2>1. /\ UNCHANGED <<store, pc, cont, made, answered, read, todo, listed, revived>>
        /\ \A f \in flushed' : f \in flushed \/ f.on = store
    BY <1>18 DEF FlushReads, stream, file, lost
  <2>2. OrderInv'
    BY <2>1 DEF OrderInv, Sound
  <2>3. AllResults' \subseteq AllResults
    BY <2>1 DEF AllResults
  <2> QED BY <2>1, <2>2, <2>3 DEF ResultInv, Streaming, Cleaning, Writing
<1>19. ASSUME NEW f \in flushed, FlushWrites(f) PROVE OrderInv' /\ ResultInv'
  <2>1. /\ store' = Replace(f.on, f.msg)
        /\ revived' = revived \cup (ResultsIn(f.on) \ ResultsIn(store))
        /\ UNCHANGED <<pc, cont, made, answered, read, todo, listed>>
        /\ flushed' \subseteq flushed
    BY <1>19 DEF FlushWrites, Rewrites, stream
  <2>2. /\ Ordered(store') /\ Single(store', revived)
        /\ ResultsIn(store') = ResultsIn(f.on)
    <3>1. f.msg \in Versions(made) /\ f.on \in Seq(Messages(made)) /\ made \in Nat
      BY DEF TypesInv, TimerTypes, StoreTypes
    <3>2. Sound(f.on)
      BY DEF OrderInv
    <3> QED BY <2>1, <3>1, <3>2, SoundReplace
  <2>3. ASSUME NEW s, Sound(s) PROVE Ordered(s) /\ Single(s, revived')
    BY <2>1, <2>3, SingleMore DEF Sound
  <2>4. OrderInv'
    <3>1. Single(store', revived')
      BY <2>1, <2>2, SingleMore
    <3>2. Sound(read) /\ \A e \in flushed : Sound(e.on)
      BY DEF OrderInv
    <3> QED BY <2>1, <2>2, <2>3, <3>1, <3>2 DEF OrderInv, Sound
  <2>5. AllResults' \subseteq AllResults
    BY <2>1, <2>2 DEF AllResults
  <2> QED BY <2>1, <2>2, <2>4, <2>5 DEF ResultInv, Streaming, Cleaning, Writing
<1>20. ASSUME NEW g \in Guidance, InjectStores(g) PROVE OrderInv' /\ ResultInv'
  BY <1>3, <1>20 DEF InjectStores, stream, timer, lost
<1>21. CASE (\E g \in Guidance : InjectBuffers(g)) \/ UNCHANGED vars
  BY <1>1, <1>21 DEF InjectBuffers, vars, stream, timer, file, lost
<1>22. CASE Restart
  <2>1. /\ read' = <<>> /\ flushed' = {} /\ pc' = "over" /\ revived' = revived
    BY <1>22 DEF Restart, GoesOn, lost
  <2>2. RestartLeaves(made')
    BY <1>22, RestartFile
  <2>3. Sound(store')
    <3>1. CASE store' = store
      BY <3>1 DEF OrderInv
    <3>2. CASE Cut(store', store)
      BY <3>2, CutKeeps DEF OrderInv, Sound
    <3>3. ASSUME NEW m, RestartAdds(m, made') PROVE Sound(store')
      <4>1. Longer(store', store, m) /\ made \in Nat /\ store \in Seq(Messages(made))
        BY <3>3 DEF RestartAdds, TypesInv, StoreTypes
      <4>2. CASE \E g \in Nat \cup (Guidance \ stored) : m = User(g)
        BY <4>1, <4>2, SoundLonger DEF User, OrderInv
      <4>3. CASE m = Empty(made') /\ made' = made + 1
        BY <4>1, <4>3, SoundLonger DEF Empty, OrderInv
      <4>4. CASE \E c \in CallsOf(made) : m = Result({c}) /\
                    \/ pc = "stream" /\ c \notin answered
                    \/ pc = "clean" /\ c \in todo \ listed
        <5>1. PICK c \in CallsOf(made) : m = Result({c}) /\
                    \/ pc = "stream" /\ c \notin answered
                    \/ pc = "clean" /\ c \in todo \ listed
          BY <4>4
        <5>2. c \in ResultsIn(store) => c \in revived
          BY <5>1 DEF ResultInv, AllResults, Streaming, Cleaning, Writing
        <5>3. m.role = "tool" /\ m.of = {c}
          BY <5>1 DEF Result
        <5> QED BY <4>1, <5>2, <5>3, SoundLonger DEF OrderInv
      <4> QED BY <3>3, <4>2, <4>3, <4>4 DEF RestartAdds
    <3> QED BY <2>2, <3>1, <3>2, <3>3 DEF RestartLeaves
  <2> QED BY <2>1, <2>3, EmptyList DEF OrderInv, Sound, ResultInv, Streaming, Cleaning, Writing
<1> QED
  BY <1>5, <1>6, <1>7, <1>8, <1>9, <1>10, <1>11, <1>12, <1>13, <1>14, <1>15, <1>16, <1>17,
     <1>18, <1>19, <1>20, <1>21, <1>22 DEF Next

\* The types and the order of the transcript.
TranscriptInv == TypesInv /\ TodoInv /\ OrderInv /\ ResultInv

LEMMA TranscriptInductive == Spec => []TranscriptInv
<1>1. Init => TranscriptInv
  <2>1. Init => TodoInv
    BY DEF Init, TodoInv
  <2> QED BY <2>1, TypesInit, OrderInit DEF TranscriptInv
<1>2. TranscriptInv /\ [Next]_vars => TranscriptInv'
  BY TypesNext, TodoNext, OrderNext DEF TranscriptInv
<1> QED BY <1>1, <1>2, PTL DEF Spec

\* Every prompt is well formed: the calls of an assistant message have results,
\* behind the message and before the next one, one each unless an update brought
\* an older one back, and every result has its call, whatever overlapping
\* updates, failures and crashes lost.
THEOREM PromptsAreWellFormed == Spec => []PromptWellFormed
<1>1. TranscriptInv => PromptWellFormed
  <2> SUFFICES ASSUME TranscriptInv PROVE PromptWellFormed
    OBVIOUS
  <2>1. made \in Nat /\ store \in Seq(Messages(made)) /\ Ordered(store) /\ Single(store, revived)
    BY DEF TranscriptInv, TypesInv, StoreTypes, OrderInv, Sound
  <2> QED BY <2>1, PromptOfOrdered, Zenon DEF PromptWellFormed
<1> QED BY <1>1, TranscriptInductive, PTL

-----------------------------------------------------------------------------
(* Guidance *)

\* Only a crash leaves a line open, and never that of guidance whose Inject has
\* returned.
OpenInv ==
   /\ crashes \in Nat
   /\ given \subseteq stored /\ stored \subseteq Guidance
   /\ crashes = 0 => last = "closed" /\ ~bad /\ joined = {}
   /\ last # "closed" => stored = given
   /\ last = "open" /\ store # <<>> /\ store[Len(store)].role = "user" =>
         store[Len(store)].of \notin given

\* Guidance is stored before it is buffered.  While nothing is overwritten it
\* stays in the store, if its line was not joined to an open one, and without a
\* crash in the buffer until the model has it.
GuideInv ==
   /\ clobbered \in BOOLEAN /\ OpenInv
   /\ ~clobbered => stored \ joined \subseteq Users(store)
   /\ crashes = 0 => given \subseteq seen \cup buffer
   /\ crashes <= 1 => given \cap joined \subseteq seen \cup buffer
   /\ ~clobbered /\ pc # "over" => given \ joined \subseteq seen \cup buffer

\* A list does not lose guidance that has been stored with its last line.
LEMMA GuidanceKept ==
  ASSUME TypesInv, GuideInv, last # "closed" /\ store' = Terminated(store)
  PROVE  \A x \in stored : x \in Users(store) => x \in Users(store')
<1>1. CASE last = "open"
  <2>1. store' = ButLast(store) /\ stored = given
    BY <1>1 DEF Terminated, GuideInv, OpenInv
  <2>2. \A x \in Users(store) : x \in Users(ButLast(store))
           \/ (store # <<>> /\ store[Len(store)].role = "user" /\ store[Len(store)].of = x)
    BY ButLastCuts DEF TypesInv, StoreTypes
  <2> QED BY <1>1, <2>1, <2>2 DEF GuideInv, OpenInv
<1>2. CASE last # "open"
  BY <1>2 DEF Terminated
<1> QED BY <1>1, <1>2

LEMMA GuideCreate ==
  ASSUME TypesInv, GuideInv, NEW m \in Messages(made), Create(m)
  PROVE  /\ \A x \in stored : x \in Users(store) => x \in Users(store')
         /\ last = "closed" /\ m.role = "user" => m.of \in Users(store')
         /\ last' = "closed" /\ (crashes = 0 => last = "closed" /\ ~bad')
<1>1. last' = "closed" /\ (crashes = 0 => last = "closed" /\ ~bad')
  BY DEF Create, GuideInv, OpenInv
<1>2. CASE last = "closed"
  <2>1. Longer(store', store, m)
    BY <1>2, CreateOutcome
  <2>2. Users(store') = IF m.role = "user" THEN Users(store) \cup {m.of} ELSE Users(store)
    BY <2>1, LongerSets, MessageKinds DEF TypesInv, StoreTypes
  <2> QED BY <1>1, <2>2
<1>3. CASE last # "closed"
  <2>1. store' = Terminated(store)
    BY <1>3, CreateOutcome
  <2> QED BY <1>1, <1>3, <2>1, GuidanceKept
<1> QED BY <1>2, <1>3

\* An update that overwrites nothing writes over what it has read.
LEMMA CleanWrite ==
  ASSUME TypesInv, NEW r \in Seq(Messages(made)), NEW m \in Versions(made),
         store' = Replace(r, m), ~Overwrites(r, m)
  PROVE  /\ r = store /\ Rewritten(store', store, m) /\ m.role = "assistant"
         /\ \A e \in Assistants(store) : e.of = m.of => ~Newer(e, m)
<1>1. r = store /\ \A e \in Assistants(store) : e.of = m.of => ~Newer(e, m)
  BY DEF Overwrites
<1>2. Rewritten(store', store, m)
  BY <1>1, ReplaceRewrites DEF TypesInv, StoreTypes
<1> QED BY <1>1, <1>2 DEF Versions, Shapes

LEMMA GuideInit == Init => GuideInv
<1> SUFFICES ASSUME Init PROVE GuideInv
  OBVIOUS
<1>1. clobbered \in BOOLEAN /\ crashes \in Nat
  BY DEF Init
<1>2. given = {} /\ stored = {} /\ joined = {} /\ last = "closed" /\ ~bad
  BY DEF Init
<1> QED BY <1>1, <1>2 DEF GuideInv, OpenInv

LEMMA GuideNext == TypesInv /\ GuideInv /\ [Next]_vars => GuideInv'
<1> SUFFICES ASSUME TypesInv, GuideInv, [Next]_vars PROVE GuideInv'
  OBVIOUS
<1>1. ASSUME UNCHANGED file, UNCHANGED <<clobbered, crashes, guide, seen>>,
             pc' = "over" \/ pc # "over"
      PROVE  GuideInv'
  BY <1>1 DEF GuideInv, OpenInv, guide, file
<1>2. ASSUME Users(store') = Users(store), last' = "closed", bad' = bad \/ ~bad',
             UNCHANGED <<clobbered, crashes, guide, seen>>, pc # "over"
      PROVE  GuideInv'
  BY <1>2 DEF GuideInv, OpenInv, guide
<1>3. CASE TurnBegins
  <2>1. Users(store) \subseteq Users(preparePrompt(store))
    BY PromptHasUsers DEF TypesInv, StoreTypes
  <2>2. /\ seen' = seen \cup Users(preparePrompt(store))
        /\ UNCHANGED <<store, last, bad, buffer, stored, given, joined, clobbered, crashes>>
    BY <1>3 DEF TurnBegins, guide, file, lost
  <2>3. OpenInv'
    BY <2>2 DEF GuideInv, OpenInv
  <2> QED BY <2>1, <2>2, <2>3 DEF GuideInv, OpenInv
<1>4. CASE StorePrompt
  <2>1. User(turn) \in Messages(made) /\ User(turn).role = "user"
    BY NewMessages DEF TypesInv, StoreTypes
  <2>2. /\ \A x \in stored : x \in Users(store) => x \in Users(store')
        /\ last' = "closed" /\ (crashes = 0 => ~bad')
    BY <1>4, <2>1, GuideCreate DEF StorePrompt
  <2>3. /\ seen \subseteq seen' /\ pc = "prompt"
        /\ UNCHANGED <<buffer, stored, given, joined, clobbered, crashes>>
    BY <1>4 DEF StorePrompt, guide, lost
  <2>4. OpenInv'
    BY <2>2, <2>3 DEF GuideInv, OpenInv
  <2> QED BY <2>2, <2>3, <2>4 DEF GuideInv
<1>5. CASE PrepareStep
  <2>1. /\ made' = made + 1 /\ store \in Seq(Messages(made')) /\ made' \in Nat
        /\ store' = Append(store, Empty(made')) /\ made' \in 1..made'
        /\ last' = "closed" /\ bad' = bad
    BY <1>5, MoreMessages, CreateAppends DEF PrepareStep, TypesInv, StoreTypes
  <2>2. Empty(made') \in Messages(made') /\ Empty(made').role = "assistant"
    BY <2>1, NewMessages DEF Empty
  <2>3. Longer(store', store, Empty(made'))
    BY <2>1, <2>2, AppendLonger
  <2>4. Users(store') = Users(store)
    BY <2>2, <2>3, LongerSets
  <2>5. /\ buffer' = {} /\ seen' = seen \cup buffer /\ pc = "prepare"
        /\ UNCHANGED <<stored, given, joined, clobbered, crashes>>
    BY <1>5 DEF PrepareStep, Drain, lost
  <2>6. OpenInv'
    BY <2>1, <2>5 DEF GuideInv, OpenInv
  <2> QED BY <2>4, <2>5, <2>6 DEF GuideInv
<1>6. ASSUME NEW m, NEW next, Update(m, next), pc # "over" PROVE GuideInv'
  BY <1>1, <1>6 DEF Update, lost
<1>7. CASE TextDelta \/ StepFinishes \/ CleanupEnds
  BY <1>6, <1>7 DEF TextDelta, StepFinishes, CleanupEnds
<1>8. ASSUME NEW c \in CallsOf(made), ToolInputStart(c) \/ ToolCall(c) PROVE GuideInv'
  BY <1>6, <1>8 DEF ToolInputStart, ToolCall
<1>9. ASSUME NEW c \in CallsOf(made), ToolResult(c) \/ CleanupCall(c) PROVE GuideInv'
  <2>1. \/ \E m : Update(m, "clean") /\ pc = "clean"
        \/ /\ pc \in {"stream", "clean"} /\ UNCHANGED <<clobbered, crashes, guide, seen>>
           /\ UNCHANGED file \/ Create(Result({c}))
    BY <1>9 DEF ToolResult, CleanupCall, lost
  <2>2. ASSUME pc \in {"stream", "clean"}, Create(Result({c}))
        PROVE  Users(store') = Users(store) /\ last' = "closed" /\ bad' = bad
    <3>1. made \in 1..made
      BY <2>2, CurFields
    <3>2. Result({c}) \in Messages(made) /\ Result({c}).role = "tool"
      BY <3>1, NewMessages DEF TypesInv, StoreTypes, Answers
    <3>3. store' = Append(store, Result({c})) /\ last' = "closed" /\ bad' = bad
      BY <2>2, CreateAppends
    <3>4. Longer(store', store, Result({c}))
      BY <3>2, <3>3, AppendLonger DEF TypesInv, StoreTypes
    <3> QED BY <3>2, <3>3, <3>4, LongerSets
  <2> QED BY <1>1, <1>2, <1>6, <2>1, <2>2
<1>10. CASE UpdateReads \/ CleanupLists
  BY <1>1, <1>10 DEF UpdateReads, CleanupLists, lost
<1>11. CASE StreamFails
  BY <1>1, <1>11 DEF StreamFails, lost
<1>12. ASSUME NEW r \in Seq(Messages(made)), NEW m \in Versions(made), Rewrites(r, m),
              UNCHANGED <<crashes, guide, seen>>, pc' = "over" \/ pc # "over"
       PROVE  GuideInv'
  <2>0. /\ store' = Replace(r, m) /\ last' = "closed" /\ ~bad'
        /\ clobbered' = (clobbered \/ Overwrites(r, m))
    BY <1>12 DEF Rewrites
  <2>1. clobbered' \in BOOLEAN /\ OpenInv'
    BY <1>12, <2>0 DEF GuideInv, OpenInv, guide
  <2>2. ~clobbered' => ~clobbered /\ Users(store') = Users(store)
    <3> SUFFICES ASSUME ~clobbered' PROVE ~clobbered /\ Users(store') = Users(store)
      OBVIOUS
    <3>1. ~clobbered /\ ~Overwrites(r, m)
      BY <2>0
    <3>2. Rewritten(store', store, m) /\ m.role = "assistant"
      BY <2>0, <3>1, CleanWrite
    <3> QED BY <3>1, <3>2, RewrittenKeeps
  <2> QED BY <1>12, <2>1, <2>2 DEF GuideInv, guide
<1>13. CASE UpdateWrites
  <2>1. pc = "write" /\ Writing
    BY <1>13 DEF UpdateWrites, Writing
  <2>2. Head(writes) \in Versions(made)
    BY <2>1, WritesSplit DEF NextWrite
  <2> QED BY <1>12, <1>13, <2>1, <2>2 DEF UpdateWrites, TypesInv, StoreTypes
<1>14. ASSUME NEW f \in flushed, FlushWrites(f) PROVE GuideInv'
  <2>1. f.msg \in Versions(made) /\ f.on \in Seq(Messages(made))
    BY DEF TypesInv, TimerTypes
  <2> QED BY <1>12, <1>14, <2>1 DEF FlushWrites, stream
<1>15. CASE \/ \E p \in pending : FlushTakes(p)
            \/ \E p \in flush : FlushReads(p)
            \/ UNCHANGED vars
  BY <1>1, <1>15 DEF FlushTakes, FlushReads, vars, stream, lost
<1>16. ASSUME NEW g \in Guidance, InjectStores(g) PROVE GuideInv'
  <2>1. User(g) \in Messages(made) /\ User(g).role = "user" /\ User(g).of = g
    BY NewMessages DEF TypesInv, StoreTypes
  <2>2. /\ \A x \in stored : x \in Users(store) => x \in Users(store')
        /\ last = "closed" => g \in Users(store')
        /\ last' = "closed" /\ (crashes = 0 => last = "closed" /\ ~bad')
    BY <1>16, <2>1, GuideCreate DEF InjectStores
  <2>3. /\ g \notin stored /\ stored' = stored \cup {g}
        /\ joined' = IF last = "closed" THEN joined \ {g} ELSE joined \cup {g}
        /\ UNCHANGED <<pc, buffer, given, seen, clobbered, crashes>>
    BY <1>16 DEF InjectStores, stream, lost
  <2>4. OpenInv'
    BY <2>2, <2>3 DEF GuideInv, OpenInv
  <2> QED BY <2>2, <2>3, <2>4 DEF GuideInv, OpenInv
<1>17. ASSUME NEW g \in Guidance, InjectBuffers(g) PROVE GuideInv'
  <2>1. /\ g \in stored \ given /\ buffer' = buffer \cup {g} /\ given' = given \cup {g}
        /\ UNCHANGED <<file, pc, stored, joined, seen, clobbered, crashes>>
    BY <1>17 DEF InjectBuffers, stream, lost
  <2>2. last = "closed"
    BY <2>1 DEF GuideInv, OpenInv
  <2>3. OpenInv'
    BY <2>1, <2>2 DEF GuideInv, OpenInv, file
  <2> QED BY <2>1, <2>3 DEF GuideInv, OpenInv, file
<1>18. CASE Restart
  <2>1. /\ pc' = "over" /\ crashes' = crashes + 1 /\ buffer' = {} /\ stored' = given
        /\ UNCHANGED <<given, joined, seen, clobbered>>
    BY <1>18 DEF Restart, GoesOn, lost
  <2>2. RestartLeaves(made')
    BY <1>18, RestartFile
  <2>3. /\ crashes' \in Nat /\ crashes' # 0 /\ (crashes' <= 1 => joined' = {})
        /\ given \subseteq stored /\ given \subseteq Guidance
    BY <2>1 DEF GuideInv, OpenInv
  <2>4. \A x \in given : x \in Users(store) => x \in Users(store')
    <3>1. ASSUME NEW m, RestartAdds(m, made') PROVE Users(store) \subseteq Users(store')
      BY <3>1, LongerSets, MessageKinds, <2>2 DEF RestartAdds, RestartLeaves
    <3>2. CASE store' = Terminated(store)
      BY <2>3, <3>2, GuidanceKept DEF Terminated
    <3> QED BY <2>2, <3>1, <3>2 DEF RestartLeaves
  <2>5. last' = "open" /\ store' # <<>> /\ store'[Len(store')].role = "user" =>
           store'[Len(store')].of \notin given
    <3>1. CASE UNCHANGED <<store, last>>
      BY <3>1 DEF GuideInv, OpenInv
    <3>2. ASSUME NEW m, RestartAdds(m, made'), m.role = "user"
          PROVE  store'[Len(store')].of \notin given
      <4>1. store'[Len(store')] = m
        BY <3>2 DEF RestartAdds
      <4>2. PICK g \in Nat \cup (Guidance \ stored) : m = User(g)
        BY <3>2 DEF RestartAdds, Empty, Result
      <4>3. g \notin given
        BY <2>3, TextsOK
      <4> QED BY <4>1, <4>2, <4>3 DEF User
    <3>3. ASSUME NEW m, RestartAdds(m, made') PROVE store'[Len(store')] = m
      BY <3>3 DEF RestartAdds
    <3> QED BY <2>2, <3>1, <3>2, <3>3 DEF RestartLeaves
  <2>6. OpenInv'
    BY <2>1, <2>3, <2>5 DEF OpenInv
  <2> QED BY <2>1, <2>3, <2>4, <2>6 DEF GuideInv
<1> QED
  BY <1>3, <1>4, <1>5, <1>7, <1>8, <1>9, <1>10, <1>11, <1>13, <1>14, <1>15, <1>16, <1>17,
     <1>18 DEF Next

\* Guidance whose Inject has returned before a step of the model begins has
\* reached it, however many crashes there are, unless an update overwrote it in
\* the store and a crash then took it from memory, or its line was joined to one
\* that a crash had left open and another crash took it from memory.
THEOREM GuidanceArrives == Spec => GuidanceSeen
<1>1. TranscriptInv /\ GuideInv /\ [Next]_vars =>
         [PrepareStep /\ ~(clobbered /\ crashes > 0) =>
             \A g \in given \ seen' : g \in joined /\ crashes > 1]_vars
  <2> SUFFICES ASSUME GuideInv, PrepareStep, ~(clobbered /\ crashes > 0),
                      NEW g \in given \ seen'
               PROVE  g \in joined /\ crashes > 1
    OBVIOUS
  <2>1. seen' = seen \cup buffer /\ pc = "prepare"
    BY DEF PrepareStep, Drain
  <2>2. crashes \in Nat /\ (~clobbered \/ crashes = 0)
    BY DEF GuideInv, OpenInv
  <2>3. crashes # 0
    BY <2>1 DEF GuideInv
  <2>4. g \in joined
    BY <2>1, <2>2, <2>3 DEF GuideInv
  <2>5. ~(crashes <= 1)
    BY <2>1, <2>4 DEF GuideInv
  <2> QED BY <2>2, <2>4, <2>5
<1>2. TranscriptInv /\ GuideInv /\ [Next]_vars => GuideInv'
  BY GuideNext DEF TranscriptInv
<1> QED BY <1>1, <1>2, GuideInit, TranscriptInductive, PTL DEF Spec, GuidanceSeen

-----------------------------------------------------------------------------
(* A transcript that was not overwritten, without a crash *)

Kept == ~clobbered /\ crashes = 0
Done(e) == e.finish /\ e.calls = e.closed /\ e.calls \subseteq ResultsIn(store)
Same(e, m) == e.calls = m.calls /\ e.closed = m.closed /\ e.finish = m.finish

\* The turn's message is in the store, as far as it is written.
InStore == cur # NoMessage => Has(store, cur)
\* All other messages are done, and the turn's is stored as it is, but for its
\* text, when the stream is not writing it.
OthersDone ==
    \A e \in Assistants(store) :
        IF cur = NoMessage \/ e.of # made THEN Done(e) ELSE ~Writing => Same(e, cur)
\* The results the turn counts on are stored, and every result has its call.
ResultsKept ==
    /\ ResultsIn(store) \subseteq CallsIn(store)
    /\ answered \subseteq ResultsIn(store) /\ listed \subseteq ResultsIn(store)
\* A step, and a turn, ends with its message done.
EndsDone ==
    pc = "prepare" \/ (Writing /\ cont \in {"prepare", "over", "end"}) =>
        cur = NoMessage \/ Done(cur)
\* The clean-up is through with the calls that it no longer looks at.
CleanupDone ==
    Cleaning => cur.calls \ todo \subseteq cur.closed \cap ResultsIn(store)

KeptFacts == InStore /\ OthersDone /\ ResultsKept /\ EndsDone /\ CleanupDone
KeptInv == Kept => KeptFacts

LEMMA NoCalls == ResultsIn(<<>>) = {} /\ Assistants(<<>>) = {}
BY DEF ResultsIn, Assistants

LEMMA KeptInit == Init => KeptInv
<1> SUFFICES ASSUME Init PROVE KeptFacts
  BY DEF KeptInv
<1>1. store = <<>> /\ pc = "over" /\ cur = NoMessage /\ answered = {} /\ listed = {}
  BY DEF Init
<1> QED BY <1>1, NoCalls DEF KeptFacts, InStore, OthersDone, ResultsKept, EndsDone,
           CleanupDone, Cleaning, Writing

\* The call of a message that is stored as it is, is a call of the store.
LEMMA CallStored ==
  ASSUME KeptFacts, ~Writing, cur # NoMessage, cur.of = made, NEW c \in cur.calls
  PROVE  c \in CallsIn(store)
<1>1. PICK e \in Assistants(store) : e.of = cur.of
  BY DEF KeptFacts, InStore, Has
<1>2. e.calls = cur.calls
  BY <1>1 DEF KeptFacts, OthersDone, Same
<1> QED BY <1>2 DEF CallsIn

LEMMA UpdateKept ==
  ASSUME TypesInv, KeptFacts, pc \in {"stream", "clean"},
         NEW m \in Versions(made), m.of = made,
         NEW next \in {"stream", "prepare", "over", "clean", "end"}, Update(m, next),
         UNCHANGED <<answered, todo>>,
         m.finish \/ m.calls # {} \/ (next = "stream" /\ Same(m, cur)),
         next \in {"prepare", "over", "end"} => m.finish /\ Done(m),
         next = "clean" => m.calls \ todo \subseteq m.closed \cap ResultsIn(store)
  PROVE  KeptFacts'
<1>1. /\ UNCHANGED <<store, made, listed, answered, todo>> /\ cur' = m
      /\ \/ pc' = "fetch" /\ cont' = next
         \/ pc' = "stream" /\ next = "stream" /\ Same(m, cur)
  BY DEF Update, file
<1>2. cur # NoMessage /\ cur.of = made /\ ~Writing
  BY DEF TypesInv, CurTypes, Writing
<1>3. m # NoMessage
  BY DEF Versions, Shapes, NoMessage
<1>4. InStore'
  BY <1>1, <1>2 DEF KeptFacts, InStore, Has
<1>5. OthersDone'
  <2> SUFFICES ASSUME NEW e \in Assistants(store)
               PROVE  IF e.of # made THEN Done(e) ELSE ~Writing' => Same(e, m)
    BY <1>1, <1>3 DEF OthersDone, Done, Same
  <2>1. e.of # made => Done(e)
    BY DEF KeptFacts, OthersDone
  <2>2. e.of = made => Same(e, cur)
    BY <1>2 DEF KeptFacts, OthersDone
  <2>3. ~Writing' => Same(m, cur)
    BY <1>1 DEF Writing
  <2> QED BY <2>1, <2>2, <2>3 DEF Same
<1>6. ResultsKept'
  BY <1>1 DEF KeptFacts, ResultsKept
<1>7. EndsDone'
  BY <1>1 DEF EndsDone, Done, Writing
<1>8. CleanupDone'
  BY <1>1 DEF CleanupDone, Cleaning, Writing
<1> QED BY <1>4, <1>5, <1>6, <1>7, <1>8 DEF KeptFacts

\* A user message, and the result of a call of the message that is stored as it
\* is, keep the facts.
LEMMA UserKept ==
  ASSUME TypesInv, KeptFacts, NEW g \in Nat \cup Guidance, store' = Append(store, User(g)),
         UNCHANGED <<made, cur, answered, listed, todo>>,
         UNCHANGED <<pc, cont>> \/ (cur = NoMessage /\ pc' = "prepare")
  PROVE  KeptFacts'
<1>1. User(g) \in Messages(made) /\ User(g).role = "user"
  BY NewMessages DEF TypesInv, StoreTypes
<1>2. Longer(store', store, User(g))
  BY <1>1, AppendLonger DEF TypesInv, StoreTypes
<1>3. ResultsIn(store') = ResultsIn(store) /\ Assistants(store') = Assistants(store)
  BY <1>1, <1>2, LongerSets
<1>4. InStore' /\ OthersDone'
  BY <1>3 DEF KeptFacts, InStore, OthersDone, Has, Done, Same, Writing
<1>5. ResultsKept'
  BY <1>3 DEF KeptFacts, ResultsKept, CallsIn
<1>6. EndsDone' /\ CleanupDone'
  BY <1>3 DEF KeptFacts, EndsDone, CleanupDone, Done, Writing, Cleaning
<1> QED BY <1>4, <1>5, <1>6 DEF KeptFacts

LEMMA ResultKept ==
  ASSUME TypesInv, KeptFacts, pc \in {"stream", "clean"},
         NEW c \in CallsOf(made), c \in cur.closed, store' = Append(store, Result({c})),
         UNCHANGED <<pc, cont, made, cur, listed>>,
         answered' \subseteq answered \cup {c}, todo' \in {todo, todo \ {c}}
  PROVE  KeptFacts'
<1>1. made \in 1..made /\ cur \in Versions(made) /\ cur.of = made /\ cur # NoMessage /\ ~Writing
  BY CurFields DEF TypesInv, CurTypes, Writing
<1>2. /\ Result({c}) \in Messages(made) /\ Result({c}).role = "tool"
      /\ Result({c}).of = {c}
  <2>1. Result({c}) \in Messages(made)
    BY <1>1, NewMessages DEF TypesInv, StoreTypes
  <2> QED BY <2>1 DEF Result
<1>3. Longer(store', store, Result({c}))
  BY <1>2, AppendLonger DEF TypesInv, StoreTypes
<1>4. ResultsIn(store') = ResultsIn(store) \cup {c} /\ Assistants(store') = Assistants(store)
  BY <1>2, <1>3, LongerSets
<1>5. InStore' /\ OthersDone'
  BY <1>4 DEF KeptFacts, InStore, OthersDone, Has, Done, Same, Writing
<1>6. c \in CallsIn(store)
  <2>1. c \in cur.calls
    BY <1>1 DEF Versions
  <2> QED BY <1>1, <2>1, CallStored
<1>7. ResultsKept'
  BY <1>4, <1>6 DEF KeptFacts, ResultsKept, CallsIn
<1>8. EndsDone'
  BY <1>1 DEF EndsDone, Writing
<1>9. CleanupDone'
  BY <1>4 DEF KeptFacts, CleanupDone, Cleaning, Writing
<1> QED BY <1>5, <1>7, <1>8, <1>9 DEF KeptFacts

\* The stream's write, of a version that waited or of its message.
LEMMA WriteKept ==
  ASSUME TypesInv, KeptFacts, UpdateWrites, ~Overwrites(read, Head(writes))
  PROVE  KeptFacts'
<1> DEFINE m == Head(writes)
<1>1. pc = "write" /\ Writing
  BY DEF UpdateWrites, Writing
<1>2. NextWrite(m, Tail(writes)) /\ m \in Versions(made) /\ cur # NoMessage
  BY <1>1, WritesSplit DEF NextWrite, TypesInv, CurTypes
<1>3. store' = Replace(read, m)
  BY DEF UpdateWrites, Rewrites
<1> HIDE DEF m
<1>4. /\ Rewritten(store', store, m) /\ m.role = "assistant"
      /\ \A e \in Assistants(store) : e.of = m.of => ~Newer(e, m)
  BY <1>2, <1>3, CleanWrite DEF TypesInv, StoreTypes, m
<1>5. /\ ResultsIn(store') = ResultsIn(store)
      /\ \A e \in Assistants(store') : e = m \/ (e \in Assistants(store) /\ e.of # m.of)
      /\ \A e \in Assistants(store) : e.of # m.of => e \in Assistants(store')
      /\ \A e \in Assistants(store) : e.of = m.of => m \in Assistants(store')
  BY <1>4, RewrittenKeeps
<1>6. CallsIn(store) \subseteq CallsIn(store')
  <2> SUFFICES ASSUME NEW e \in Assistants(store), NEW c \in e.calls
               PROVE  c \in CallsIn(store')
    BY DEF CallsIn
  <2>1. CASE e.of # m.of
    BY <1>5, <2>1 DEF CallsIn
  <2>2. CASE e.of = m.of
    BY <1>4, <1>5, <2>2 DEF CallsIn, Newer
  <2> QED BY <2>1, <2>2
<1>7. m.of = made /\ cur.of = made /\ made' = made
  BY <1>2 DEF NextWrite, UpdateWrites
<1>8. \E e \in Assistants(store') : e.of = made
  BY <1>2, <1>5, <1>7 DEF KeptFacts, InStore, Has
<1>9. \A e \in Assistants(store') : e = m \/ (e.of # made /\ Done(e))
  BY <1>5, <1>7 DEF KeptFacts, OthersDone
<1>10. CASE Tail(writes) = <<cur>>
  <2>1. <<cur>> # <<>>
    OBVIOUS
  <2>2. /\ pc' = "fetch" /\ UNCHANGED <<cont, cur, answered, listed, todo>>
    BY <1>10, <2>1 DEF UpdateWrites, GoesOn
  <2>3. InStore' /\ OthersDone'
    BY <1>2, <1>5, <1>7, <1>8, <1>9, <2>2 DEF InStore, OthersDone, Has, Done, Writing
  <2>4. ResultsKept' /\ EndsDone' /\ CleanupDone'
    BY <1>1, <1>2, <1>5, <1>6, <2>2
       DEF KeptFacts, ResultsKept, EndsDone, CleanupDone, Done, Writing, Cleaning
  <2> QED BY <2>3, <2>4 DEF KeptFacts
<1>11. CASE m = cur /\ Tail(writes) = <<>>
  <2>1. /\ cont' = "over"
        /\ \/ /\ pc' = "over" /\ cur' = NoMessage /\ cont \in {"over", "end"}
              /\ answered' = {} /\ listed' = {} /\ todo' = {}
           \/ pc' = cont /\ cont # "over" /\ UNCHANGED <<cur, answered, listed, todo>>
    BY <1>11 DEF UpdateWrites, GoesOn
  <2>2. cont \in {"stream", "prepare", "over", "clean", "end"}
    BY <1>1 DEF TypesInv, WriteTypes
  <2>3. CASE /\ pc' = "over" /\ cur' = NoMessage /\ cont \in {"over", "end"}
             /\ answered' = {} /\ listed' = {} /\ todo' = {}
    <3>1. Done(m)
      BY <1>1, <1>2, <1>11, <2>3 DEF KeptFacts, EndsDone
    <3>2. InStore' /\ OthersDone'
      BY <1>5, <1>9, <2>3, <3>1 DEF InStore, OthersDone, Done
    <3>3. ResultsKept' /\ EndsDone' /\ CleanupDone'
      BY <1>5, <1>6, <2>3
         DEF KeptFacts, ResultsKept, EndsDone, CleanupDone, Writing, Cleaning
    <3> QED BY <3>2, <3>3 DEF KeptFacts
  <2>4. CASE pc' = cont /\ cont # "over" /\ UNCHANGED <<cur, answered, listed, todo>>
    <3>1. InStore' /\ OthersDone'
      BY <1>2, <1>5, <1>7, <1>8, <1>9, <1>11, <2>4 DEF InStore, OthersDone, Has, Done, Same
    <3>2. ResultsKept'
      BY <1>5, <1>6, <2>4 DEF KeptFacts, ResultsKept
    <3>3. EndsDone' /\ CleanupDone'
      BY <1>1, <1>5, <2>1, <2>2, <2>4
         DEF KeptFacts, EndsDone, CleanupDone, Done, Writing, Cleaning
    <3> QED BY <3>1, <3>2, <3>3 DEF KeptFacts
  <2> QED BY <2>1, <2>3, <2>4
<1> QED BY <1>2, <1>10, <1>11 DEF NextWrite

\* The timer's write: a version without calls, that only brings a text.
LEMMA FlushKept ==
  ASSUME TypesInv, KeptFacts, NEW f \in flushed, FlushWrites(f), ~Overwrites(f.on, f.msg)
  PROVE  KeptFacts'
<1> DEFINE m == f.msg
<1>1. m \in Versions(made) /\ Early(m) /\ m.calls = {} /\ m.closed = {}
      /\ ~m.finish /\ m.finish \in BOOLEAN
  BY DEF TypesInv, TimerTypes, Early, Versions, Shapes
<1>2. store' = Replace(f.on, m) /\ f.on \in Seq(Messages(made))
  BY DEF FlushWrites, Rewrites, TypesInv, TimerTypes
<1> HIDE DEF m
<1>3. /\ Rewritten(store', store, m) /\ m.role = "assistant"
      /\ \A e \in Assistants(store) : e.of = m.of => ~Newer(e, m)
  BY <1>1, <1>2, CleanWrite DEF m
<1>4. /\ ResultsIn(store') = ResultsIn(store)
      /\ \A e \in Assistants(store') :
            \/ e \in Assistants(store) /\ e.of # m.of
            \/ e = m /\ \E old \in Assistants(store) : old.of = m.of
      /\ \A e \in Assistants(store) : e.of # m.of => e \in Assistants(store')
      /\ \A e \in Assistants(store) : e.of = m.of => m \in Assistants(store')
  BY <1>3, RewrittenKeeps
<1>5. UNCHANGED <<pc, cont, made, cur, answered, listed, todo>>
  BY DEF FlushWrites, stream
<1>6. \A e \in Assistants(store) : e \in Versions(made)
  <2> TAKE e \in Assistants(store)
  <2>1. PICK k \in DOMAIN store : e = store[k] /\ store[k].role = "assistant"
    BY DEF Assistants
  <2>2. store[k] \in Messages(made) /\ made \in Nat
    BY DEF TypesInv, StoreTypes
  <2> QED BY <2>1, <2>2, MessageKinds
<1>7. \A e \in Assistants(store) : e.of = m.of => Same(e, m) /\ ~Done(e)
  <2> TAKE e \in Assistants(store)
  <2>1. HAVE e.of = m.of
  <2>2. e.calls = {} /\ e.closed = {} /\ ~e.finish
    BY <1>1, <1>3, <2>1 DEF Newer
  <2>3. e.finish \in BOOLEAN
    BY <1>6 DEF Versions, Shapes
  <2> QED BY <1>1, <2>2, <2>3 DEF Same, Done
<1>8. CallsIn(store) \subseteq CallsIn(store')
  <2> SUFFICES ASSUME NEW e \in Assistants(store), NEW c \in e.calls
               PROVE  c \in CallsIn(store')
    BY DEF CallsIn
  <2>1. e.of # m.of
    BY <1>1, <1>7 DEF Same
  <2> QED BY <1>4, <2>1 DEF CallsIn
<1>9. InStore'
  BY <1>4, <1>5 DEF KeptFacts, InStore, Has
<1>10. OthersDone'
  <2> SUFFICES ASSUME NEW e \in Assistants(store')
               PROVE  IF cur = NoMessage \/ e.of # made THEN Done(e) ELSE ~Writing => Same(e, cur)
    BY <1>4, <1>5 DEF OthersDone, Done, Same, Writing
  <2>1. CASE e \in Assistants(store)
    BY <2>1 DEF KeptFacts, OthersDone
  <2>2. CASE e = m /\ \E old \in Assistants(store) : old.of = m.of
    <3>1. PICK old \in Assistants(store) : old.of = m.of
      BY <2>2
    <3>2. Same(old, e) /\ ~Done(old) /\ old.of = e.of
      BY <1>7, <2>2, <3>1
    <3> QED BY <3>2 DEF KeptFacts, OthersDone, Same
  <2> QED BY <1>4, <2>1, <2>2
<1>11. ResultsKept'
  BY <1>4, <1>5, <1>8 DEF KeptFacts, ResultsKept
<1>12. EndsDone' /\ CleanupDone'
  BY <1>4, <1>5 DEF KeptFacts, EndsDone, CleanupDone, Done, Writing, Cleaning
<1> QED BY <1>9, <1>10, <1>11, <1>12 DEF KeptFacts

LEMMA KeptNext == TypesInv /\ TodoInv /\ GuideInv /\ KeptInv /\ [Next]_vars => KeptInv'
<1> SUFFICES ASSUME TypesInv, TodoInv, GuideInv, KeptInv, [Next]_vars, Kept'
             PROVE  KeptFacts'
  BY DEF KeptInv
<1>1. Kept /\ KeptFacts
  <2>1. ~clobbered' /\ crashes' = 0
    BY DEF Kept
  <2>2. crashes' = crashes \/ crashes' = crashes + 1
    BY DEF Next, TurnBegins, StorePrompt, PrepareStep, TextDelta, StepFinishes, Update,
           ToolInputStart, ToolCall, ToolResult, UpdateReads, UpdateWrites, StreamFails,
           CleanupLists, CleanupEnds, CleanupCall, FlushTakes, FlushReads, FlushWrites,
           InjectStores, InjectBuffers, Restart, vars
  <2>3. \/ clobbered' = clobbered
        \/ clobbered' = (clobbered \/ Overwrites(read, Head(writes)))
        \/ \E f \in flushed : clobbered' = (clobbered \/ Overwrites(f.on, f.msg))
    BY DEF Next, Rewrites, file, lost, TurnBegins, StorePrompt, PrepareStep, TextDelta, StepFinishes, Update,
           ToolInputStart, ToolCall, ToolResult, UpdateReads, UpdateWrites, StreamFails,
           CleanupLists, CleanupEnds, CleanupCall, FlushTakes, FlushReads, FlushWrites,
           InjectStores, InjectBuffers, Restart, vars
  <2>4. crashes = 0
    BY <2>1, <2>2 DEF GuideInv, OpenInv
  <2>5. ~clobbered
    BY <2>1, <2>3, Zenon
  <2> QED BY <2>4, <2>5 DEF Kept, KeptInv
<1>0. last = "closed" /\ ~bad
  BY <1>1 DEF Kept, GuideInv, OpenInv
<1>2. ASSUME UNCHANGED <<store, pc, cont, made, cur, answered, todo, listed>> PROVE KeptFacts'
  BY <1>1, <1>2 DEF KeptFacts, InStore, OthersDone, ResultsKept, EndsDone, CleanupDone, Has,
                    Done, Same, Writing, Cleaning
<1>3. CASE TurnBegins
  <2>1. /\ UNCHANGED <<store, made, cur, answered, todo, listed>> /\ pc = "over" /\ pc' = "prompt"
    BY <1>3 DEF TurnBegins, file
  <2> QED BY <1>1, <2>1 DEF KeptFacts, InStore, OthersDone, ResultsKept, EndsDone,
             CleanupDone, Has, Done, Same, Writing, Cleaning
<1>4. CASE StorePrompt
  <2>1. cur = NoMessage /\ turn \in Nat
    BY <1>4 DEF StorePrompt, TypesInv, CurTypes, StoreTypes
  <2>2. store' = Append(store, User(turn))
    BY <1>0, <1>4 DEF StorePrompt, Create
  <2> QED BY <1>1, <1>4, <2>1, <2>2, UserKept DEF StorePrompt
<1>5. CASE PrepareStep
  <2>1. /\ made \in Nat /\ made' = made + 1 /\ made' \in Nat /\ made' \in 1..made'
        /\ store \in Seq(Messages(made)) /\ cur' = Empty(made')
        /\ store' = Append(store, Empty(made')) /\ pc = "prepare" /\ pc' = "stream"
        /\ answered' = {} /\ listed' = listed
    BY <1>0, <1>5 DEF PrepareStep, Create, TypesInv, StoreTypes
  <2>2. /\ Empty(made') \in Messages(made') /\ Empty(made').role = "assistant"
        /\ Empty(made').of = made' /\ Empty(made').calls = {} /\ Empty(made') # NoMessage
    BY <2>1, NewMessages DEF Empty, NoMessage
  <2>3. Longer(store', store, Empty(made'))
    <3>1. store \in Seq(Messages(made'))
      BY <2>1, MoreMessages
    <3> QED BY <2>1, <2>2, <3>1, AppendLonger
  <2>4. /\ ResultsIn(store') = ResultsIn(store)
        /\ Assistants(store') = Assistants(store) \cup {Empty(made')}
    BY <2>2, <2>3, LongerSets
  <2>5. \A e \in Assistants(store) : e.of # made' /\ Done(e)
    <3> TAKE e \in Assistants(store)
    <3>1. e.of \in 1..made
      <4>1. PICK k \in DOMAIN store : e = store[k] /\ store[k].role = "assistant"
        BY DEF Assistants
      <4>2. store[k] \in Messages(made)
        BY <2>1
      <4> QED BY <2>1, <4>1, <4>2, MessageKinds DEF Versions
    <3>2. cur = NoMessage \/ Done(cur)
      BY <1>1, <2>1 DEF KeptFacts, EndsDone
    <3>3. Done(e)
      BY <1>1, <2>1, <3>2 DEF KeptFacts, OthersDone, Writing, Same, Done
    <3> QED BY <2>1, <3>1, <3>3
  <2>6. InStore'
    BY <2>1, <2>4 DEF InStore, Has
  <2>7. OthersDone'
    BY <2>1, <2>2, <2>4, <2>5 DEF OthersDone, Done, Same
  <2>8. ResultsKept'
    BY <1>1, <2>1, <2>4 DEF KeptFacts, ResultsKept, CallsIn
  <2>9. EndsDone' /\ CleanupDone'
    BY <2>1 DEF EndsDone, CleanupDone, Writing, Cleaning
  <2> QED BY <2>6, <2>7, <2>8, <2>9 DEF KeptFacts
<1>6. CASE TextDelta
  <2> DEFINE m == [cur EXCEPT !.text = TRUE]
  <2>1. pc = "stream" /\ Update(m, "stream") /\ UNCHANGED <<answered, todo>>
    BY <1>6 DEF TextDelta
  <2>2. m \in Versions(made) /\ m.of = made
    BY <2>1, CurFields
  <2>3. Same(m, cur)
    <3>1. cur \in Shapes
      BY <2>1, CurFields DEF Versions
    <3> QED BY <3>1 DEF Same, Shapes
  <2> HIDE DEF m
  <2> QED BY <1>1, <2>1, <2>2, <2>3, UpdateKept
<1>7. CASE StepFinishes
  <2> DEFINE m == [cur EXCEPT !.finish = TRUE]
  <2>1. /\ pc = "stream" /\ cur.calls = cur.closed /\ cur.closed = answered
        /\ UNCHANGED <<answered, todo>>
    BY <1>7 DEF StepFinishes
  <2>2. PICK next \in {"prepare", "over"} : Update(m, next)
    BY <1>7 DEF StepFinishes
  <2>3. m \in Versions(made) /\ m.of = made /\ m.finish
    BY <2>1, CurFields
  <2>4. Done(m)
    <3>1. cur \in Shapes
      BY <2>1, CurFields DEF Versions
    <3>2. m.calls = cur.calls /\ m.closed = cur.closed
      BY <3>1 DEF Shapes
    <3> QED BY <1>1, <2>1, <2>3, <3>2 DEF Done, KeptFacts, ResultsKept
  <2> HIDE DEF m
  <2> QED BY <1>1, <2>1, <2>2, <2>3, <2>4, UpdateKept
<1>8. ASSUME NEW c \in CallsOf(made), ToolInputStart(c) PROVE KeptFacts'
  <2> DEFINE m == [cur EXCEPT !.calls = @ \cup {c}]
  <2>1. pc = "stream" /\ Update(m, "stream") /\ UNCHANGED <<answered, todo>>
    BY <1>8 DEF ToolInputStart
  <2>2. m \in Versions(made) /\ m.of = made
    BY <2>1, CurFields
  <2>3. m.calls # {}
    <3>1. cur \in Shapes
      BY <2>1, CurFields DEF Versions
    <3> QED BY <3>1 DEF Shapes
  <2> HIDE DEF m
  <2> QED BY <1>1, <2>1, <2>2, <2>3, UpdateKept
<1>9. ASSUME NEW c \in CallsOf(made), ToolCall(c) PROVE KeptFacts'
  <2> DEFINE m == [cur EXCEPT !.closed = @ \cup {c}]
  <2>1. pc = "stream" /\ c \in cur.calls /\ Update(m, "stream") /\ UNCHANGED <<answered, todo>>
    BY <1>9 DEF ToolCall
  <2>2. m \in Versions(made) /\ m.of = made
    BY <2>1, CurFields
  <2>3. m.calls # {}
    <3>1. cur \in Shapes
      BY <2>1, CurFields DEF Versions
    <3> QED BY <2>1, <3>1 DEF Shapes
  <2> HIDE DEF m
  <2> QED BY <1>1, <2>1, <2>2, <2>3, UpdateKept
<1>10. ASSUME NEW c \in CallsOf(made), ToolResult(c) PROVE KeptFacts'
  <2>1. store' = Append(store, Result({c}))
    BY <1>0, <1>10 DEF ToolResult, Create
  <2> QED BY <1>1, <1>10, <2>1, ResultKept DEF ToolResult
<1>11. CASE UpdateReads
  <2>1. pc = "fetch" /\ Writing
    BY <1>11 DEF UpdateReads, Writing
  <2>2. Head(writes).of = made /\ cur.of = made /\ cur # NoMessage
    BY <2>1, WritesSplit DEF NextWrite, TypesInv, CurTypes
  <2>3. Updatable(Head(writes))
    BY <1>0, <1>1, <2>2 DEF KeptFacts, InStore, Has, Updatable
  <2>4. pc' = "write" /\ UNCHANGED <<store, cont, made, cur, answered, todo, listed>>
    BY <1>11, <2>3 DEF UpdateReads, GoesOn, file
  <2> QED BY <1>1, <2>1, <2>4 DEF KeptFacts, InStore, OthersDone, ResultsKept, EndsDone,
             CleanupDone, Has, Done, Same, Writing, Cleaning
<1>12. CASE UpdateWrites
  <2>1. ~Overwrites(read, Head(writes))
    BY <1>12, Zenon DEF Kept, UpdateWrites, Rewrites
  <2> QED BY <1>1, <1>12, <2>1, WriteKept
<1>13. CASE StreamFails
  <2>1. /\ UNCHANGED <<store, made, cur, answered, todo, listed>>
        /\ pc \in {"prepare", "stream"} /\ pc' = "broken"
    BY <1>13 DEF StreamFails, file
  <2> QED BY <1>1, <2>1 DEF KeptFacts, InStore, OthersDone, ResultsKept, EndsDone,
             CleanupDone, Has, Done, Same, Writing, Cleaning
<1>14. CASE CleanupLists
  <2>1. /\ UNCHANGED <<store, made>> /\ pc = "broken"
        /\ \/ /\ pc' = "over" /\ cur = NoMessage /\ cur' = NoMessage
              /\ answered' = {} /\ listed' = {}
           \/ /\ pc' = "clean" /\ todo' = cur.calls /\ listed' = ResultsIn(store)
              /\ UNCHANGED <<cur, answered>>
    BY <1>14 DEF CleanupLists, GoesOn, file
  <2> QED BY <1>1, <2>1 DEF KeptFacts, InStore, OthersDone, ResultsKept, EndsDone,
             CleanupDone, Has, Done, Same, Writing, Cleaning
<1>15. CASE CleanupEnds
  <2> DEFINE m == [cur EXCEPT !.finish = TRUE]
  <2>1. pc = "clean" /\ todo = {} /\ Update(m, "end") /\ UNCHANGED <<answered, todo>>
    BY <1>15 DEF CleanupEnds
  <2>2. m \in Versions(made) /\ m.of = made /\ m.finish
    BY <2>1, CurFields
  <2>3. Done(m)
    <3>1. cur \in Shapes /\ cur.closed \subseteq cur.calls
      BY <2>1, CurFields DEF Versions
    <3>2. m.calls = cur.calls /\ m.closed = cur.closed
      BY <3>1 DEF Shapes
    <3>3. cur.calls \subseteq cur.closed \cap ResultsIn(store)
      BY <1>1, <2>1 DEF KeptFacts, CleanupDone, Cleaning
    <3> QED BY <2>2, <3>1, <3>2, <3>3 DEF Done
  <2> HIDE DEF m
  <2> QED BY <1>1, <2>1, <2>2, <2>3, UpdateKept
<1>16. ASSUME NEW c \in CallsOf(made), CleanupCall(c) PROVE KeptFacts'
  <2> DEFINE m == [cur EXCEPT !.closed = @ \cup {c}]
  <2>1. pc = "clean" /\ c \in todo /\ cur.calls \ todo \subseteq cur.closed \cap ResultsIn(store)
    BY <1>1, <1>16 DEF CleanupCall, KeptFacts, CleanupDone, Cleaning
  <2>2. CASE Update(m, "clean") /\ UNCHANGED <<answered, todo>>
    <3>1. c \in cur.calls
      BY <2>1 DEF TodoInv
    <3>2. m \in Versions(made) /\ m.of = made
      BY <2>1, <3>1, CurFields
    <3>3. m.calls = cur.calls /\ m.closed = cur.closed \cup {c}
      <4>1. cur \in Shapes
        BY <2>1, CurFields DEF Versions
      <4> QED BY <4>1 DEF Shapes
    <3> HIDE DEF m
    <3> QED BY <1>1, <2>1, <2>2, <3>1, <3>2, <3>3, UpdateKept
  <2>3. CASE /\ c \in cur.closed /\ todo' = todo \ {c}
             /\ store' = IF c \in listed THEN store ELSE Append(store, Result({c}))
             /\ UNCHANGED <<pc, cont, made, cur, answered, listed>>
    <3>1. CASE c \in listed
      BY <1>1, <2>1, <2>3, <3>1 DEF KeptFacts, InStore, OthersDone, ResultsKept, EndsDone,
         CleanupDone, Has, Done, Same, Writing, Cleaning
    <3>2. CASE c \notin listed
      BY <1>1, <2>1, <2>3, <3>2, ResultKept
    <3> QED BY <3>1, <3>2
  <2> QED BY <1>0, <1>16, <2>2, <2>3 DEF CleanupCall, Create, file
<1>17. CASE \/ \E p \in pending : FlushTakes(p)
            \/ \E p \in flush : FlushReads(p)
            \/ (\E g \in Guidance : InjectBuffers(g)) \/ UNCHANGED vars
  BY <1>2, <1>17 DEF FlushTakes, FlushReads, InjectBuffers, vars, stream, file
<1>18. ASSUME NEW f \in flushed, FlushWrites(f) PROVE KeptFacts'
  <2>1. ~Overwrites(f.on, f.msg)
    BY <1>18, Zenon DEF Kept, FlushWrites, Rewrites
  <2> QED BY <1>1, <1>18, <2>1, FlushKept
<1>19. ASSUME NEW g \in Guidance, InjectStores(g) PROVE KeptFacts'
  <2>1. store' = Append(store, User(g))
    BY <1>0, <1>19 DEF InjectStores, Create
  <2> QED BY <1>1, <1>19, <2>1, UserKept DEF InjectStores, stream
<1>20. CASE Restart
  <2>1. crashes' = crashes + 1 /\ crashes' = 0 /\ crashes \in Nat
    BY <1>20 DEF Restart, Kept, GuideInv, OpenInv
  <2> QED BY <2>1
<1> QED
  BY <1>3, <1>4, <1>5, <1>6, <1>7, <1>8, <1>9, <1>10, <1>11, <1>12, <1>13, <1>14, <1>15,
     <1>16, <1>17, <1>18, <1>19, <1>20 DEF Next

\* A turn that is over has left every message finished and every call with a
\* result, unless an update overwrote newer messages or the program crashed.
THEOREM TranscriptsAreComplete == Spec => []TranscriptComplete
<1>1. TranscriptInv /\ KeptInv => TranscriptComplete
  <2> SUFFICES ASSUME TypesInv, KeptFacts, pc = "over"
               PROVE  /\ \A e \in Assistants(store) : e.finish /\ e.calls = e.closed
                      /\ CallsIn(store) = ResultsIn(store)
    BY DEF TranscriptInv, KeptInv, Kept, TranscriptComplete
  <2>1. cur = NoMessage
    BY DEF TypesInv, CurTypes
  <2>2. \A e \in Assistants(store) : Done(e)
    BY <2>1 DEF KeptFacts, OthersDone
  <2>3. CallsIn(store) \subseteq ResultsIn(store)
    BY <2>2 DEF CallsIn, Done
  <2> QED BY <2>2, <2>3 DEF Done, KeptFacts, ResultsKept
<1>2. TranscriptInv /\ GuideInv /\ [Next]_vars => GuideInv'
  BY GuideNext DEF TranscriptInv
<1>3. TranscriptInv /\ GuideInv /\ KeptInv /\ [Next]_vars => KeptInv'
  BY KeptNext DEF TranscriptInv
<1> QED BY <1>1, <1>2, <1>3, GuideInit, KeptInit, TranscriptInductive, PTL DEF Spec
=============================================================================
