------------------------- MODULE MessageStoreProofs -------------------------
(***************************************************************************)
(* Proofs about the message store, for any calls in any order and any      *)
(* number of crashes: it implements MessageLog; what was removed stays     *)
(* away but for what an older reading brings back; and a crash costs at    *)
(* most the message behind the unfinished line.                            *)
(***************************************************************************)
EXTENDS MessageStore, SequenceTheorems, FiniteSetTheorems, TLAPS

Labels == Over \cup {"idle", "line", "found", "read", "written"}

\* A rewrite has found the message it looked for in what it has read.  Only calls
\* that are about to replace the file hold a reading.
Editable(w, s) ==
    /\ op[w].kind \in {"update", "delete", "after", "index"}
    /\ op[w].kind \in {"update", "after"} => Has(s, op[w].id)
Readings == \A w \in Writers :
    /\ pc[w] = "found" => op[w].kind = "delete"
    /\ pc[w] = "read" => Editable(w, snapshot[w])
    /\ pc[w] # "read" => snapshot[w] = <<>>

StoreTypes ==
    /\ msgs \in Seq(Line)
    /\ pc \in [Writers -> Labels]
    /\ snapshot \in [Writers -> Seq(Line)]
    /\ last \in {"closed", "open", "torn"}

\* One line is being written at a time, and the file then ends without newline.
LineOpen == \A w \in Writers : pc[w] = "line" =>
    last # "closed" /\ \A v \in Writers \ {w} : pc[v] # "line"

StoreInv == StoreTypes /\ Readings /\ LineOpen

-----------------------------------------------------------------------------
(* What the edits make of a sequence of messages *)

\* A message that is there has a position.
LEMMA PositionIn ==
    ASSUME NEW s \in Seq(Line), NEW m, Has(s, m)
    PROVE  Position(s, m) \in 1..Len(s)
<1>1. DOMAIN s = 1..Len(s)
  OBVIOUS
<1>2. Position(s, m) \in DOMAIN s
  BY Zenon DEF Position, Has
<1> QED
  BY <1>1, <1>2

\* A prefix and the rest without one message are lists of messages.
LEMMA PartsType ==
    ASSUME NEW s \in Seq(Line)
    PROVE  /\ \A n \in Nat : Prefix(s, n) \in Seq(Line)
           /\ ButLast(s) \in Seq(Line)
           /\ \A k \in 1..Len(s) : RemoveAt(s, k) \in Seq(Line)
<1>1. ASSUME NEW n \in Nat PROVE Prefix(s, n) \in Seq(Line)
  BY DEF Prefix
<1>2. ButLast(s) \in Seq(Line)
  BY DEF ButLast
<1>3. ASSUME NEW k \in 1..Len(s) PROVE RemoveAt(s, k) \in Seq(Line)
  BY DEF RemoveAt
<1> QED
  BY <1>1, <1>2, <1>3

\* Replacing the version of a message keeps a list of messages.
LEMMA UpdatedType ==
    ASSUME NEW s \in Seq(Line), NEW m \in Writers, NEW v \in Writers
    PROVE  [k \in DOMAIN s |-> IF s[k].id = m THEN [id |-> m, ver |-> v] ELSE s[k]] \in Seq(Line)
<1> DEFINE t == [k \in 1..Len(s) |-> IF s[k].id = m THEN [id |-> m, ver |-> v] ELSE s[k]]
<1>1. Len(s) \in Nat /\ DOMAIN s = 1..Len(s) /\ \A k \in 1..Len(s) : s[k] \in Line
  OBVIOUS
<1>2. [id |-> m, ver |-> v] \in Line
  BY DEF Line
<1>3. t \in [1..Len(s) -> Line]
  BY <1>1, <1>2
<1>4. t \in Seq(Line)
  BY <1>1, <1>3, SeqDef
<1> QED
  BY <1>1, <1>4

\* What a rewrite writes is a list of messages.
LEMMA EditType ==
    ASSUME NEW w \in Writers, NEW s \in Seq(Line), Editable(w, s)
    PROVE  Edit(w, s) \in Seq(Line)
<1> USE DEF Editable
<1>1. CASE op[w].kind = "update"
  <2>1. op[w].id \in Writers
    BY <1>1, OpsOK
  <2> QED
    BY <1>1, <2>1, UpdatedType DEF Edit
<1>2. CASE op[w].kind = "delete"
  BY <1>2, PositionIn, PartsType DEF Edit, Without
<1>3. CASE op[w].kind = "after"
  <2>1. Position(s, op[w].id) \in Nat
    BY <1>3, PositionIn
  <2> QED
    BY <1>3, <2>1, PartsType DEF Edit, UpTo
<1>4. CASE op[w].kind = "index"
  <2>1. op[w].n + 1 \in Nat
    BY <1>4, OpsOK
  <2> QED
    BY <1>4, <2>1, PartsType DEF Edit
<1> QED
  BY <1>1, <1>2, <1>3, <1>4

-----------------------------------------------------------------------------
(* The invariant *)

\* The types are preserved, by what each step does to the file.
LEMMA TypesKept ==
    ASSUME StoreInv, NEW w \in Writers, Step(w)
    PROVE  StoreTypes'
<1> USE DEF StoreInv, StoreTypes, Goes, Labels, Over
<1>1. CASE CreateWrites(w)
  <2>1. msgs' \in Seq(Line) /\ last' \in {"closed", "open", "torn"}
    <3>1. New(w) \in Line
      BY DEF New, Line
    <3>2. Append(msgs, New(w)) \in Seq(Line) /\ ButLast(msgs) \in Seq(Line)
      BY <3>1, PartsType
    <3> QED
      BY <1>1, <3>2 DEF CreateWrites, AppendLine
  <2> QED
    BY <1>1, <2>1 DEF CreateWrites
<1>2. CASE CreateEnds(w)
  BY <1>2 DEF CreateEnds
<1>3. CASE DeleteFinds(w)
  BY <1>3 DEF DeleteFinds
<1>4. CASE RewriteReads(w)
  BY <1>4 DEF RewriteReads
<1>5. CASE RewriteReplaces(w)
  <2>1. Edit(w, snapshot[w]) \in Seq(Line)
    BY <1>5, EditType DEF RewriteReplaces, Readings
  <2>2. << >> \in Seq(Line)
    OBVIOUS
  <2> QED
    BY <1>5, <2>1, <2>2 DEF RewriteReplaces
<1>6. CASE Returns(w)
  BY <1>6 DEF Returns
<1>7. CASE Crash(w)
  <2>1. ButLast(msgs) \in Seq(Line) /\ << >> \in Seq(Line)
    BY PartsType
  <2> QED
    BY <1>7, <2>1 DEF Crash
<1> QED
  BY <1>1, <1>2, <1>3, <1>4, <1>5, <1>6, <1>7 DEF Step

\* What a rewrite has read is what it needs until it writes.
LEMMA ReadingsKept ==
    ASSUME StoreInv, NEW w \in Writers, Step(w)
    PROVE  (Readings /\ LineOpen)'
<1> USE DEF StoreInv, StoreTypes, Readings, LineOpen, Goes, Labels, Over
<1>1. CASE CreateWrites(w)
  <2>1. last' # "closed"
    BY <1>1 DEF CreateWrites, AppendLine
  <2> QED
    BY <1>1, <2>1 DEF CreateWrites, Free
<1>2. CASE CreateEnds(w)
  <2>1. \A v \in Writers \ {w} : pc[v] # "line"
    BY <1>2 DEF CreateEnds
  <2> QED
    BY <1>2, <2>1 DEF CreateEnds
<1>3. CASE DeleteFinds(w)
  BY <1>3 DEF DeleteFinds
<1>4. CASE RewriteReads(w)
  <2>1. msgs' = msgs /\ last' = last /\ pc[w] # "read"
    BY <1>4 DEF RewriteReads
  <2>2. CASE Goes(w, "failed") /\ UNCHANGED snapshot
    BY <1>4, <2>1, <2>2 DEF RewriteReads
  <2>3. CASE Goes(w, "read") /\ snapshot' = [snapshot EXCEPT ![w] = msgs]
    <3>1. Editable(w, msgs)
      <4>1. CASE op[w].kind \in {"update", "after"}
        BY <1>4, <2>3, <4>1 DEF RewriteReads, Editable
      <4> QED
        BY <1>4, <4>1 DEF RewriteReads, Editable
    <3> QED
      BY <2>1, <2>3, <3>1
  <2>5. \/ Goes(w, "failed") /\ UNCHANGED snapshot
        \/ Goes(w, "read") /\ snapshot' = [snapshot EXCEPT ![w] = msgs]
    BY <1>4, Zenon DEF RewriteReads
  <2> QED
    BY <2>2, <2>3, <2>5
<1>5. CASE RewriteReplaces(w)
  <2>1. \A v \in Writers : pc[v] # "line"
    BY <1>5 DEF RewriteReplaces, Free
  <2> QED
    BY <1>5, <2>1 DEF RewriteReplaces
<1>6. CASE Returns(w)
  BY <1>6 DEF Returns
<1>7. CASE Crash(w)
  BY <1>7 DEF Crash
<1> QED
  BY <1>1, <1>2, <1>3, <1>4, <1>5, <1>6, <1>7 DEF Step

\* The invariant holds initially and is kept by every step.
LEMMA Invariant == Spec => []StoreInv
<1>1. Init => StoreInv
  <2>1. << >> \in Seq(Line)
    OBVIOUS
  <2> QED
    BY <2>1 DEF Init, StoreInv, StoreTypes, Readings, LineOpen, Labels
<1>2. StoreInv /\ [Next]_vars => StoreInv'
  <2> SUFFICES ASSUME StoreInv, [Next]_vars PROVE StoreInv'
    OBVIOUS
  <2>1. ASSUME NEW w \in Writers, Step(w) PROVE StoreInv'
    BY <2>1, TypesKept, ReadingsKept DEF StoreInv
  <2>2. CASE UNCHANGED vars
    BY <2>2 DEF vars, StoreInv, StoreTypes, Readings, LineOpen
  <2> QED
    BY <2>1, <2>2 DEF Next
<1> QED
  BY <1>1, <1>2, PTL DEF Spec

-----------------------------------------------------------------------------
(* The refinement *)

Cut == last # "closed" /\ Free

\* A rewrite puts an edit of its view in the place of the log.
LEMMA RewriteRefines ==
    ASSUME StoreInv, NEW w \in Writers, RewriteReplaces(w)
    PROVE  Log!Replace(w)
<1> USE DEF StoreInv, StoreTypes
<1>1. /\ msgs' = Edit(w, snapshot[w]) /\ last' = "closed"
      /\ snapshot' = [snapshot EXCEPT ![w] = <<>>]
      /\ Editable(w, snapshot[w])
  BY DEF RewriteReplaces, Readings
<1>2. PICK s \in Seq(Line) : s = snapshot[w]
  OBVIOUS
<1>3. Edit(w, s) \in Log!Edits(w, s)
  <2>1. CASE op[w].kind = "update"
    <3>1. op[w].id \in Writers
      BY <2>1, OpsOK
    <3>2. Edit(w, s) = Log!Updated(s, op[w].id, w)
      BY <2>1 DEF Edit, Log!Updated
    <3> QED
      BY <3>1, <3>2 DEF Log!Edits
  <2>2. CASE op[w].kind = "delete" /\ Has(s, op[w].id)
    <3>1. Position(s, op[w].id) \in DOMAIN s
      BY <2>2, PositionIn
    <3>2. Edit(w, s) = RemoveAt(s, Position(s, op[w].id))
      BY <2>2 DEF Edit, Without
    <3>3. Edit(w, s) \in {Log!RemoveAt(s, n) : n \in DOMAIN s}
      BY <3>1, <3>2 DEF Log!RemoveAt, RemoveAt
    <3> QED
      BY <3>3, Zenon DEF Log!Edits
  <2>3. CASE op[w].kind = "delete" /\ ~Has(s, op[w].id)
    <3>1. Edit(w, s) = s /\ s = SubSeq(s, 1, Len(s)) /\ Len(s) \in 0..Len(s)
      BY <2>3 DEF Edit, Without
    <3> QED
      BY <3>1 DEF Log!Edits
  <2>4. CASE op[w].kind \in {"after", "index"}
    <3>1. PICK n \in Nat : Edit(w, s) = Prefix(s, n)
      <4>1. CASE op[w].kind = "after"
        BY <1>1, <1>2, <4>1, PositionIn DEF Edit, UpTo, Editable
      <4>2. CASE op[w].kind = "index"
        <5>1. op[w].n + 1 \in Nat
          BY <4>2, OpsOK
        <5> QED
          BY <4>2, <5>1 DEF Edit
      <4> QED
        BY <2>4, <4>1, <4>2
    <3>2. PICK k \in 0..Len(s) : Edit(w, s) = SubSeq(s, 1, k)
      BY <3>1 DEF Prefix
    <3> QED
      BY <3>2 DEF Log!Edits
  <2> QED
    BY <1>1, <1>2, <2>1, <2>2, <2>3, <2>4 DEF Editable
<1> QED
  BY <1>1, <1>2, <1>3 DEF Log!Replace

\* Every step of a call is a step of the log or leaves the log alone.
LEMMA StepRefines ==
    ASSUME StoreInv, NEW w \in Writers, Step(w)
    PROVE  Log!Next \/ UNCHANGED <<msgs, snapshot, Cut>>
<1> USE DEF StoreInv, StoreTypes, Goes, Labels, Over, Cut, Free
<1>1. CASE CreateWrites(w)
  <2>1. Free /\ Cut' = FALSE
    BY <1>1 DEF CreateWrites
  <2>2. CASE last = "closed"
    <3>1. Log!Create(w)
      BY <1>1, <2>1, <2>2 DEF CreateWrites, AppendLine, New, Log!Create, Log!New
    <3> QED
      BY <3>1 DEF Log!Next
  <2>3. CASE last # "closed"
    <3>1. Log!CreateAfterCut
      BY <1>1, <2>1, <2>3 DEF CreateWrites, AppendLine, ButLast, Log!CreateAfterCut
    <3> QED
      BY <3>1 DEF Log!Next
  <2> QED
    BY <2>2, <2>3
<1>2. CASE CreateEnds(w)
  BY <1>2 DEF CreateEnds
<1>3. CASE DeleteFinds(w)
  BY <1>3 DEF DeleteFinds
<1>4. CASE RewriteReads(w)
  <2>1. msgs' = msgs /\ Cut' = Cut
    <3>1. /\ \A v \in Writers : pc[v] # "line"
          /\ Goes(w, "failed") \/ Goes(w, "read")
      BY <1>4, Zenon DEF RewriteReads
    <3> QED BY <1>4, <3>1 DEF RewriteReads
  <2>2. UNCHANGED snapshot \/ snapshot' = [snapshot EXCEPT ![w] = msgs]
    BY <1>4 DEF RewriteReads
  <2>3. ASSUME snapshot' = [snapshot EXCEPT ![w] = msgs] PROVE Log!Read(w)
    BY <2>1, <2>3 DEF Log!Read
  <2> QED
    BY <2>1, <2>2, <2>3 DEF Log!Next
<1>5. CASE RewriteReplaces(w)
  BY <1>5, RewriteRefines DEF Log!Next
<1>6. CASE Returns(w)
  BY <1>6 DEF Returns
<1>7. CASE Crash(w)
  <2>0. snapshot' = [snapshot EXCEPT ![w] = <<>>]
    BY <1>7 DEF Crash
  <2>1. CASE UNCHANGED <<msgs, last>> /\ pc[w] # "line"
    <3>1. Log!Forget(w)
      BY <1>7, <2>0, <2>1 DEF Crash, Log!Forget
    <3> QED
      BY <3>1 DEF Log!Next
  <2>2. CASE UNCHANGED <<msgs, last>> /\ pc[w] = "line"
    <3>1. Cut' = TRUE
      BY <1>7, <2>2 DEF Crash, LineOpen
    <3>2. UNCHANGED snapshot
      BY <2>0, <2>2 DEF Readings
    <3>3. Log!Crash
      BY <2>2, <3>1, <3>2 DEF Log!Crash
    <3> QED
      BY <3>3 DEF Log!Next
  <2>3. CASE /\ pc[w] = "idle" /\ Free /\ last' = "torn"
             /\ msgs' = IF last = "open" THEN ButLast(msgs) ELSE msgs
    <3>1. Cut' = TRUE
      BY <1>7, <2>3 DEF Crash
    <3>2. UNCHANGED snapshot
      BY <2>0, <2>3 DEF Readings
    <3>3. Log!Crash
      BY <2>3, <3>1, <3>2 DEF Log!Crash, ButLast
    <3> QED
      BY <3>3 DEF Log!Next
  <2> QED
    BY <1>7, <2>1, <2>2, <2>3 DEF Crash
<1> QED
  BY <1>1, <1>2, <1>3, <1>4, <1>5, <1>6, <1>7 DEF Step

\* The message store implements the log, whatever the calls are, however they
\* overlap and however often it crashes.
THEOREM StoreImplementsLog == Spec => ImplementsLog
<1>1. Init => Log!Init
  BY DEF Init, Log!Init
<1>2. StoreInv /\ [Next]_vars => [Log!Next]_<<msgs, snapshot, last # "closed" /\ Free>>
  <2> SUFFICES ASSUME StoreInv, [Next]_vars
               PROVE  Log!Next \/ UNCHANGED <<msgs, snapshot, last # "closed" /\ Free>>
    OBVIOUS
  <2>1. ASSUME NEW w \in Writers, Step(w)
        PROVE  Log!Next \/ UNCHANGED <<msgs, snapshot, last # "closed" /\ Free>>
    BY <2>1, StepRefines DEF Cut
  <2>2. CASE UNCHANGED vars
    BY <2>2 DEF vars, Free
  <2> QED
    BY <2>1, <2>2 DEF Next
<1> QED
  BY <1>1, <1>2, Invariant, PTL DEF Spec, ImplementsLog, Log!Spec

-----------------------------------------------------------------------------
(* What the edits keep and remove *)

UniqueIds(s) == \A i, j \in DOMAIN s : s[i].id = s[j].id => i = j

\* A prefix has the messages up to its end.
LEMMA PrefixIds ==
    ASSUME NEW s \in Seq(Line), NEW n \in Nat, UniqueIds(s)
    PROVE  /\ UniqueIds(Prefix(s, n))
           /\ Ids(Prefix(s, n)) = Ids(s) \ {s[k].id : k \in {i \in DOMAIN s : i > n}}
<1> DEFINE l == IF n <= Len(s) THEN n ELSE Len(s)
           t == SubSeq(s, 1, l)
<1>1. Len(s) \in Nat /\ DOMAIN s = 1..Len(s) /\ l \in 0..Len(s)
  OBVIOUS
<1>2. DOMAIN t = 1..l /\ \A i \in 1..l : t[i] = s[i]
  BY <1>1
<1> HIDE DEF t
<1>3. UniqueIds(t)
  BY <1>1, <1>2 DEF UniqueIds
<1>4. ASSUME NEW x \in Ids(t) PROVE x \in Ids(s) /\ \A i \in DOMAIN s : i > n => s[i].id # x
  <2>1. PICK k \in 1..l : x = t[k].id
    BY <1>2 DEF Ids
  <2> QED BY <1>1, <1>2, <2>1 DEF UniqueIds, Ids
<1>5. ASSUME NEW k \in DOMAIN s, \A i \in DOMAIN s : i > n => s[i].id # s[k].id
      PROVE  s[k].id \in Ids(t)
  <2>1. k \in 1..l
    BY <1>1, <1>5
  <2> QED BY <1>2, <2>1 DEF Ids
<1> DEFINE gone == {s[k].id : k \in {i \in DOMAIN s : i > n}}
<1>6. Ids(t) = Ids(s) \ gone
  <2>1. ASSUME NEW x \in Ids(t) PROVE x \in Ids(s) \ gone
    BY <1>4, <2>1
  <2>2. ASSUME NEW x \in Ids(s) \ gone PROVE x \in Ids(t)
    <3>1. PICK k \in DOMAIN s : x = s[k].id
      BY DEF Ids
    <3>2. \A i \in DOMAIN s : i > n => s[i].id # x
      OBVIOUS
    <3> QED BY <1>5, <3>1, <3>2
  <2> QED BY <2>1, <2>2
<1> QED BY <1>3, <1>6 DEF Prefix, t

\* What a sequence without its p-th element consists of.
LEMMA RemoveAtFacts ==
    ASSUME NEW s \in Seq(Line), NEW p \in 1..Len(s)
    PROVE  /\ DOMAIN RemoveAt(s, p) = 1..(Len(s) - 1)
           /\ \A i \in 1..(Len(s) - 1) :
                 RemoveAt(s, p)[i] = s[IF i < p THEN i ELSE i + 1]
<1>1. Len(s) \in Nat /\ p \in Nat /\ 1 <= p /\ p <= Len(s) /\ \A i \in 1..Len(s) : s[i] \in Line
  OBVIOUS
<1>2. PICK a : a = SubSeq(s, 1, p - 1)
  OBVIOUS
<1>3. PICK b : b = SubSeq(s, p + 1, Len(s))
  OBVIOUS
<1>4. a \in Seq(Line) /\ Len(a) = p - 1 /\ \A i \in 1..(p - 1) : a[i] = s[i]
  BY <1>1, <1>2
<1>5. b \in Seq(Line) /\ Len(b) = Len(s) - p /\ \A i \in 1..(Len(s) - p) : b[i] = s[p + i]
  BY <1>1, <1>3
<1>6. /\ a \o b \in Seq(Line) /\ Len(a \o b) = Len(a) + Len(b)
      /\ \A i \in 1..(Len(a) + Len(b)) :
            (a \o b)[i] = IF i <= Len(a) THEN a[i] ELSE b[i - Len(a)]
  BY <1>4, <1>5, ConcatProperties
<1>7. PICK t : t = a \o b
  OBVIOUS
<1>8. DOMAIN t = 1..(Len(s) - 1)
  BY <1>1, <1>4, <1>5, <1>6, <1>7
<1>9. ASSUME NEW i \in 1..(Len(s) - 1) PROVE t[i] = s[IF i < p THEN i ELSE i + 1]
  <2>1. t[i] = IF i <= p - 1 THEN a[i] ELSE b[i - (p - 1)]
    BY <1>1, <1>4, <1>5, <1>6, <1>7
  <2>2. CASE i < p
    BY <1>1, <1>4, <2>1, <2>2
  <2>3. CASE i >= p
    <3>1. i - (p - 1) \in 1..(Len(s) - p) /\ p + (i - (p - 1)) = i + 1
      BY <1>1, <2>3
    <3> QED BY <1>1, <1>5, <2>1, <2>3, <3>1
  <2> QED BY <1>1, <2>2, <2>3
<1> QED BY <1>2, <1>3, <1>7, <1>8, <1>9 DEF RemoveAt

\* Removing the message at a position leaves the others.
LEMMA RemoveIds ==
    ASSUME NEW s \in Seq(Line), NEW p \in 1..Len(s), UniqueIds(s)
    PROVE  UniqueIds(RemoveAt(s, p)) /\ Ids(RemoveAt(s, p)) = Ids(s) \ {s[p].id}
<1> DEFINE t == RemoveAt(s, p)
           from(i) == IF i < p THEN i ELSE i + 1
<1>1. Len(s) \in Nat /\ DOMAIN s = 1..Len(s)
  OBVIOUS
<1>2. DOMAIN t = 1..(Len(s) - 1) /\ \A i \in 1..(Len(s) - 1) : t[i] = s[from(i)]
  BY RemoveAtFacts
<1> HIDE DEF t
<1>3. \A i \in 1..(Len(s) - 1) : from(i) \in DOMAIN s /\ from(i) # p
  BY <1>1
<1>4. \A k \in DOMAIN s : k # p => \E i \in 1..(Len(s) - 1) : from(i) = k
  <2> SUFFICES ASSUME NEW k \in DOMAIN s, k # p PROVE \E i \in 1..(Len(s) - 1) : from(i) = k
    OBVIOUS
  <2>1. CASE k < p
    BY <1>1, <2>1
  <2>2. CASE k > p
    <3>1. k - 1 \in 1..(Len(s) - 1) /\ from(k - 1) = k
      BY <1>1, <2>2
    <3> QED BY <3>1
  <2> QED BY <1>1, <2>1, <2>2
<1>5. \A i, j \in 1..(Len(s) - 1) : from(i) = from(j) => i = j
  BY <1>1
<1> HIDE DEF from
<1>6. UniqueIds(t)
  BY <1>1, <1>2, <1>3, <1>5 DEF UniqueIds
<1>7. ASSUME NEW x \in Ids(t) PROVE x \in Ids(s) \ {s[p].id}
  <2>1. PICK i \in 1..(Len(s) - 1) : x = s[from(i)].id
    BY <1>2 DEF Ids
  <2> QED BY <1>1, <1>3, <2>1 DEF UniqueIds, Ids
<1>8. ASSUME NEW x \in Ids(s) \ {s[p].id} PROVE x \in Ids(t)
  <2>1. PICK k \in DOMAIN s : x = s[k].id /\ k # p
    BY DEF Ids
  <2>2. PICK i \in 1..(Len(s) - 1) : from(i) = k
    BY <1>4, <2>1
  <2> QED BY <1>2, <2>1, <2>2 DEF Ids
<1> QED BY <1>6, <1>7, <1>8 DEF t

\* A rewrite removes the messages it is asked to remove, and no other.
LEMMA EditIds ==
    ASSUME NEW w \in Writers, NEW s \in Seq(Line), UniqueIds(s), Editable(w, s)
    PROVE  /\ UniqueIds(Edit(w, s)) /\ Ids(Edit(w, s)) = Ids(s) \ Asked(w, s)
           /\ op[w].kind # "delete" => Asked(w, s) \subseteq Ids(s)
           /\ op[w].kind = "delete" => Asked(w, s) = {op[w].id}
<1> DEFINE m == op[w].id
           p == Position(s, m)
<1> USE DEF Editable
<1>1. CASE op[w].kind = "update"
  <2> DEFINE t == [k \in DOMAIN s |-> IF s[k].id = m THEN [id |-> m, ver |-> w] ELSE s[k]]
  <2>1. Edit(w, s) = t /\ Asked(w, s) = {}
    BY <1>1 DEF Edit, Asked
  <2>2. DOMAIN t = DOMAIN s /\ \A k \in DOMAIN s : t[k].id = s[k].id
    OBVIOUS
  <2> HIDE DEF t
  <2>3. UniqueIds(t) /\ Ids(t) = Ids(s)
    BY <2>2 DEF UniqueIds, Ids
  <2> QED BY <1>1, <2>1, <2>3
<1>5. CASE op[w].kind = "delete" /\ ~Has(s, m)
  <2>1. Edit(w, s) = s /\ Asked(w, s) = {m}
    BY <1>5 DEF Edit, Without, Asked
  <2>2. m \notin Ids(s)
    BY <1>5 DEF Has, Ids
  <2> QED BY <1>5, <2>1, <2>2
<1>2. CASE op[w].kind = "delete" /\ Has(s, m)
  <2>1. p \in 1..Len(s) /\ p \in DOMAIN s /\ s[p].id = m
    <3>1. p \in DOMAIN s /\ s[p].id = m
      BY <1>2, Zenon DEF Position, Has
    <3> QED BY <3>1
  <2>2. Edit(w, s) = RemoveAt(s, p) /\ Asked(w, s) = {m}
    BY <1>2 DEF Edit, Without, Asked
  <2>3. UniqueIds(RemoveAt(s, p)) /\ Ids(RemoveAt(s, p)) = Ids(s) \ {s[p].id}
    BY <2>1, RemoveIds
  <2> QED BY <1>2, <2>1, <2>2, <2>3 DEF Ids
<1>3. CASE op[w].kind = "after"
  <2>1. p \in Nat
    BY <1>3, PositionIn
  <2>2. Edit(w, s) = Prefix(s, p) /\ Asked(w, s) = {s[k].id : k \in {i \in DOMAIN s : i > p}}
    BY <1>3 DEF Edit, UpTo, Asked
  <2> HIDE DEF p
  <2>3. Asked(w, s) \subseteq Ids(s)
    BY <2>2 DEF Ids
  <2> QED BY <1>3, <2>1, <2>2, <2>3, PrefixIds
<1>4. CASE op[w].kind = "index"
  <2>1. op[w].n + 1 \in Nat
    BY <1>4, OpsOK
  <2>2. /\ Edit(w, s) = Prefix(s, op[w].n + 1)
        /\ Asked(w, s) = {s[k].id : k \in {i \in DOMAIN s : i > op[w].n + 1}}
    BY <1>4 DEF Edit, Asked
  <2>3. Asked(w, s) \subseteq Ids(s)
    BY <2>2 DEF Ids
  <2> QED BY <1>4, <2>1, <2>2, <2>3, PrefixIds
<1> QED BY <1>1, <1>2, <1>3, <1>4, <1>5

\* The messages of a list that grows or loses its last one.
LEMMA EndIds ==
    ASSUME NEW s \in Seq(Line), UniqueIds(s)
    PROVE  /\ UniqueIds(ButLast(s)) /\ Ids(ButLast(s)) \subseteq Ids(s)
           /\ Len(s) > 0 => Ids(s) \subseteq Ids(ButLast(s)) \cup {s[Len(s)].id}
           /\ \A w \in Writers : w \notin Ids(s) =>
                 UniqueIds(Append(s, New(w))) /\ Ids(Append(s, New(w))) = Ids(s) \cup {w}
<1>1. Len(s) \in Nat /\ DOMAIN s = 1..Len(s)
  OBVIOUS
<1>2. PICK t : t = ButLast(s)
  OBVIOUS
<1>3. DOMAIN t = 1..(Len(s) - 1) /\ \A i \in 1..(Len(s) - 1) : t[i] = s[i]
  BY <1>1, <1>2 DEF ButLast
<1>4. UniqueIds(t) /\ Ids(t) \subseteq Ids(s)
  BY <1>1, <1>3 DEF UniqueIds, Ids
<1>5. Len(s) > 0 => Ids(s) \subseteq Ids(t) \cup {s[Len(s)].id}
  BY <1>1, <1>3 DEF Ids
<1>6. ASSUME NEW w \in Writers, w \notin Ids(s)
      PROVE  UniqueIds(Append(s, New(w))) /\ Ids(Append(s, New(w))) = Ids(s) \cup {w}
  <2>1. New(w) \in Line /\ New(w).id = w
    BY DEF New, Line
  <2>2. PICK a : a = Append(s, New(w))
    OBVIOUS
  <2>3. /\ DOMAIN a = 1..(Len(s) + 1) /\ a[Len(s) + 1] = New(w)
        /\ \A i \in 1..Len(s) : a[i] = s[i]
    BY <1>1, <2>1, <2>2
  <2>4. \A i \in 1..(Len(s) + 1) : i \in 1..Len(s) \/ i = Len(s) + 1
    BY <1>1
  <2>5. \A i \in 1..Len(s) : s[i].id # w /\ s[i].id \in Ids(s)
    BY <1>1, <1>6 DEF Ids
  <2>6. UniqueIds(a)
    <3> SUFFICES ASSUME NEW i \in 1..(Len(s) + 1), NEW j \in 1..(Len(s) + 1), a[i].id = a[j].id
                 PROVE  i = j
      BY <2>3 DEF UniqueIds
    <3> QED BY <1>1, <2>1, <2>3, <2>4, <2>5 DEF UniqueIds
  <2>7. ASSUME NEW x \in Ids(a) PROVE x \in Ids(s) \cup {w}
    <3>1. PICK i \in 1..(Len(s) + 1) : x = a[i].id
      BY <2>3 DEF Ids
    <3> QED BY <2>1, <2>3, <2>4, <2>5, <3>1
  <2>8. ASSUME NEW x \in Ids(s) \cup {w} PROVE x \in Ids(a)
    <3>1. \E i \in 1..(Len(s) + 1) : a[i].id = x
      <4>1. CASE x = w
        BY <1>1, <2>1, <2>3, <4>1
      <4>2. CASE x \in Ids(s)
        <5>1. PICK i \in 1..Len(s) : x = s[i].id
          BY <1>1, <4>2 DEF Ids
        <5>2. i \in 1..(Len(s) + 1) /\ a[i].id = x
          BY <1>1, <2>3, <5>1
        <5> QED BY <5>2
      <4> QED BY <2>8, <4>1, <4>2
    <3> QED BY <2>3, <3>1 DEF Ids
  <2> QED BY <2>2, <2>6, <2>7, <2>8
<1> QED BY <1>2, <1>4, <1>5, <1>6

-----------------------------------------------------------------------------
(* What has been removed stays removed, and what a crash costs *)

\* The file and the readings have no message twice, and none that nobody has
\* created; what was removed and is in the file a rewrite brought back; a line
\* without newline is the one of a call that is writing it or has died over it.
FileInv ==
    /\ UniqueIds(msgs) /\ \A w \in Writers : UniqueIds(snapshot[w])
    /\ removed \subseteq Writers /\ acked \subseteq Writers
    /\ \A m \in Ids(msgs) \cup removed : pc[m] # "idle"
    /\ \A w \in Writers : \A m \in Ids(snapshot[w]) : pc[m] # "idle"
    /\ \A w \in Writers : op[w].kind = "delete" /\ pc[w] \in {"found", "read"}
                              => pc[op[w].id] # "idle"
    /\ removed \cap Ids(msgs) \subseteq revived
    /\ \A w \in acked : pc[w] = "done"
    /\ last = "open" => Len(msgs) > 0 /\ pc[msgs[Len(msgs)].id] \in {"line", "dead"}
    /\ crashes \in Nat

\* Messages that were written to the file, not removed nor dropped by a rewrite
\* that did not know them, and cannot be read.
Lost == {w \in Writers : op[w].kind = "create" /\ pc[w] \in {"line", "written", "done"}}
            \ (removed \cup dropped \cup Ids(msgs))

\* What the file loses when its last line is lost.
LEMMA LastLine ==
    ASSUME StoreInv, FileInv
    PROVE  /\ Ids(msgs) \subseteq Writers
           /\ UniqueIds(ButLast(msgs)) /\ Ids(ButLast(msgs)) \subseteq Ids(msgs)
           /\ last = "open" => \E m \in Writers :
                 pc[m] \in {"line", "dead"} /\ Ids(msgs) \subseteq Ids(ButLast(msgs)) \cup {m}
<1> USE DEF StoreInv, StoreTypes, FileInv
<1>1. Len(msgs) \in Nat /\ DOMAIN msgs = 1..Len(msgs) /\ \A k \in 1..Len(msgs) : msgs[k] \in Line
  OBVIOUS
<1>2. Ids(msgs) \subseteq Writers
  BY <1>1 DEF Ids, Line
<1>3. /\ UniqueIds(ButLast(msgs)) /\ Ids(ButLast(msgs)) \subseteq Ids(msgs)
      /\ Len(msgs) > 0 => Ids(msgs) \subseteq Ids(ButLast(msgs)) \cup {msgs[Len(msgs)].id}
  BY EndIds
<1>4. Len(msgs) > 0 => msgs[Len(msgs)].id \in Writers
  <2>1. Len(msgs) > 0 => Len(msgs) \in 1..Len(msgs)
    BY <1>1
  <2> QED BY <1>1, <2>1 DEF Line
<1> QED BY <1>1, <1>2, <1>3, <1>4

\* A rewrite leaves what it has read but for what it is asked to remove.
LEMMA RewriteIds ==
    ASSUME StoreInv, FileInv, NEW w \in Writers, RewriteReplaces(w)
    PROVE  /\ UniqueIds(msgs') /\ Ids(msgs') = Ids(snapshot[w]) \ Asked(w, snapshot[w])
           /\ removed' = removed \cup Asked(w, snapshot[w])
           /\ revived' = revived \cup (Ids(snapshot[w]) \ Ids(msgs))
           /\ dropped' = dropped \cup (Ids(msgs) \ Ids(snapshot[w]))
           /\ \A m \in Asked(w, snapshot[w]) : m \in Writers /\ pc[m] # "idle"
<1>1. PICK s \in Seq(Line) : s = snapshot[w]
  BY DEF StoreInv, StoreTypes
<1>2. Editable(w, s) /\ UniqueIds(s) /\ pc[w] = "read"
  BY <1>1 DEF RewriteReplaces, StoreInv, Readings, FileInv
<1>3. /\ UniqueIds(Edit(w, s)) /\ Ids(Edit(w, s)) = Ids(s) \ Asked(w, s)
      /\ op[w].kind # "delete" => Asked(w, s) \subseteq Ids(s)
      /\ op[w].kind = "delete" => Asked(w, s) = {op[w].id}
  BY <1>2, EditIds
<1>4. Ids(s) \subseteq Writers
  <2>1. \A k \in DOMAIN s : s[k] \in Line
    OBVIOUS
  <2> QED BY <2>1 DEF Ids, Line
<1>5. \A m \in Asked(w, s) : m \in Writers /\ pc[m] # "idle"
  <2>1. CASE op[w].kind = "delete"
    BY <1>2, <1>3, <2>1, OpsOK DEF FileInv
  <2>2. CASE op[w].kind # "delete"
    BY <1>1, <1>3, <1>4, <2>2 DEF FileInv
  <2> QED BY <2>1, <2>2
<1> QED BY <1>1, <1>3, <1>5 DEF RewriteReplaces

\* A new line is read back, or goes with the line before it.
LEMMA CreateIds ==
    ASSUME StoreInv, FileInv, NEW w \in Writers, CreateWrites(w)
    PROVE  /\ w \notin Ids(msgs) \cup removed /\ UniqueIds(msgs')
           /\ last = "closed" => /\ Ids(msgs') = Ids(msgs) \cup {w} /\ last' = "open"
                                /\ Len(msgs') > 0 /\ msgs'[Len(msgs')].id = w
           /\ last # "closed" =>
                 /\ last' = "torn" /\ Ids(msgs') \subseteq Ids(msgs)
                 /\ \A m \in Ids(msgs) \ Ids(msgs') : pc[m] = "dead"
<1> USE DEF StoreInv, StoreTypes
<1>1. w \notin Ids(msgs) \cup removed /\ UniqueIds(msgs)
  BY DEF CreateWrites, FileInv
<1>2. CASE last = "closed"
  <2>1. msgs' = Append(msgs, New(w)) /\ last' = "open"
    BY <1>2 DEF CreateWrites, AppendLine
  <2>2. UniqueIds(msgs') /\ Ids(msgs') = Ids(msgs) \cup {w}
    BY <1>1, <2>1, EndIds
  <2>3. Len(msgs') > 0 /\ msgs'[Len(msgs')].id = w
    <3>1. New(w) \in Line /\ New(w).id = w
      BY DEF New, Line
    <3> QED BY <2>1, <3>1
  <2> QED BY <1>1, <1>2, <2>1, <2>2, <2>3
<1>3. CASE last = "open"
  <2>1. msgs' = ButLast(msgs) /\ last' = "torn" /\ Free
    BY <1>3 DEF CreateWrites, AppendLine
  <2>2. /\ UniqueIds(msgs') /\ Ids(msgs') \subseteq Ids(msgs)
        /\ \E m \in Writers :
              pc[m] \in {"line", "dead"} /\ Ids(msgs) \subseteq Ids(msgs') \cup {m}
    BY <1>3, <2>1, LastLine
  <2> QED BY <1>1, <1>3, <2>1, <2>2 DEF Free
<1>4. CASE last = "torn"
  BY <1>1, <1>4 DEF CreateWrites, AppendLine
<1> QED BY <1>2, <1>3, <1>4

\* What a crash leaves of the file.
LEMMA CrashIds ==
    ASSUME StoreInv, FileInv, NEW w \in Writers, Crash(w)
    PROVE  /\ UniqueIds(msgs') /\ Ids(msgs') \subseteq Ids(msgs)
           /\ \A m \in Ids(msgs) \ Ids(msgs') : pc[m] = "dead"
           /\ last' # "torn" => UNCHANGED <<msgs, last>>
           /\ last' \in {last, "torn"}
<1>1. CASE UNCHANGED <<msgs, last>>
  BY <1>1 DEF FileInv
<1>2. CASE last = "open" /\ ~UNCHANGED <<msgs, last>>
  <2>1. msgs' = ButLast(msgs) /\ last' = "torn" /\ Free
    BY <1>2 DEF Crash
  <2>2. /\ UniqueIds(msgs') /\ Ids(msgs') \subseteq Ids(msgs)
        /\ \E m \in Writers :
              pc[m] \in {"line", "dead"} /\ Ids(msgs) \subseteq Ids(msgs') \cup {m}
    BY <1>2, <2>1, LastLine
  <2> QED BY <2>1, <2>2 DEF Free
<1>3. CASE last # "open" /\ ~UNCHANGED <<msgs, last>>
  BY <1>3 DEF Crash, FileInv
<1> QED BY <1>1, <1>2, <1>3

\* A step of a call that leaves the file, the readings and what was removed.
LEMMA FileStays ==
    ASSUME StoreInv, FileInv, NEW w \in Writers, Step(w),
           UNCHANGED <<msgs, removed, revived>>,
           \A v \in Writers : pc'[v] # pc[v] => pc'[v] # "idle",
           \A v \in Writers : op[v].kind = "delete" /\ pc'[v] \in {"found", "read"}
               /\ pc'[v] # pc[v] => Has(msgs, op[v].id) \/ pc[v] = "found",
           \A v \in Writers : snapshot'[v] \in {snapshot[v], msgs, <<>>},
           \A v \in acked' : v \in Writers /\ pc'[v] = "done",
           last' = "open" => last = "open" /\ \A v \in Writers :
               pc[v] \in {"line", "dead"} => pc'[v] \in {"line", "dead"},
           crashes' \in Nat
    PROVE  FileInv'
<1> USE DEF StoreInv, StoreTypes
<1>0. Ids(msgs) \subseteq Writers /\ (Len(msgs) > 0 => msgs[Len(msgs)].id \in Writers)
  <2>1. Len(msgs) \in Nat /\ \A k \in 1..Len(msgs) : msgs[k] \in Line
    OBVIOUS
  <2>2. Len(msgs) > 0 => Len(msgs) \in 1..Len(msgs)
    BY <2>1
  <2> QED BY <2>1, <2>2, LastLine DEF Line
<1>1. \A v \in Writers : pc[v] # "idle" => pc'[v] # "idle"
  OBVIOUS
<1>2. UniqueIds(<<>>) /\ Ids(<<>>) = {}
  BY DEF UniqueIds, Ids
<1>3. \A v \in Writers : UniqueIds(snapshot'[v]) /\ \A m \in Ids(snapshot'[v]) : pc'[m] # "idle"
  <2> TAKE v \in Writers
  <2>1. UniqueIds(snapshot'[v]) /\ \A m \in Ids(snapshot'[v]) : m \in Writers /\ pc[m] # "idle"
    <3>1. CASE snapshot'[v] = snapshot[v]
      <4>1. Ids(snapshot[v]) \subseteq Writers
        <5>1. \A k \in DOMAIN snapshot[v] : snapshot[v][k] \in Line
          OBVIOUS
        <5> QED BY <5>1 DEF Ids, Line
      <4> QED BY <3>1, <4>1 DEF FileInv
    <3>2. CASE snapshot'[v] = msgs
      BY <1>0, <3>2 DEF FileInv
    <3>3. CASE snapshot'[v] = <<>>
      BY <1>2, <3>3
    <3> QED BY <3>1, <3>2, <3>3
  <2> QED BY <1>1, <2>1
<1>4. \A v \in Writers : op[v].kind = "delete" /\ pc'[v] \in {"found", "read"}
          => pc'[op[v].id] # "idle"
  <2> SUFFICES ASSUME NEW v \in Writers, op[v].kind = "delete", pc'[v] \in {"found", "read"}
               PROVE  pc'[op[v].id] # "idle"
    OBVIOUS
  <2>1. op[v].id \in Writers
    BY OpsOK
  <2>2. Has(msgs, op[v].id) => pc[op[v].id] # "idle"
    BY DEF Has, Ids, FileInv
  <2> QED BY <1>1, <2>1, <2>2 DEF FileInv
<1>5. /\ UniqueIds(msgs') /\ removed' \subseteq Writers
      /\ \A m \in Ids(msgs') \cup removed' : pc'[m] # "idle"
      /\ removed' \cap Ids(msgs') \subseteq revived'
  BY <1>0, <1>1 DEF FileInv
<1>6. last' = "open" => Len(msgs') > 0 /\ pc'[msgs'[Len(msgs')].id] \in {"line", "dead"}
  BY <1>0 DEF FileInv
<1> QED
  BY <1>3, <1>4, <1>5, <1>6 DEF FileInv

\* A reading that a step leaves alone or ends lists created messages, each once.
LEMMA ReadingStays ==
    ASSUME StoreInv, FileInv,
           \A v \in Writers : pc[v] # "idle" => pc'[v] # "idle",
           NEW x \in Writers, snapshot'[x] \in {snapshot[x], <<>>}
    PROVE  UniqueIds(snapshot'[x]) /\ \A m \in Ids(snapshot'[x]) : pc'[m] # "idle"
<1> USE DEF StoreInv, StoreTypes
<1>1. CASE snapshot'[x] = snapshot[x]
  <2>1. Ids(snapshot[x]) \subseteq Writers
    <3>1. \A k \in DOMAIN snapshot[x] : snapshot[x][k] \in Line
      OBVIOUS
    <3> QED BY <3>1 DEF Ids, Line
  <2> QED BY <1>1, <2>1 DEF FileInv
<1>2. CASE snapshot'[x] = <<>>
  BY <1>2 DEF UniqueIds, Ids
<1> QED BY <1>1, <1>2

LEMMA FileInvKept ==
    ASSUME StoreInv, FileInv, NEW w \in Writers, Step(w)
    PROVE  FileInv'
<1> USE DEF StoreInv, StoreTypes, Goes, Labels, Over, history
<1>0. Ids(msgs) \subseteq Writers /\ (last = "open" => msgs[Len(msgs)].id \in Writers)
  <2>1. Len(msgs) \in Nat /\ \A k \in 1..Len(msgs) : msgs[k] \in Line
    OBVIOUS
  <2>2. Len(msgs) > 0 => Len(msgs) \in 1..Len(msgs)
    BY <2>1
  <2> QED BY <2>1, <2>2, LastLine DEF FileInv, Line
<1>1. CASE CreateWrites(w)
  <2>1. /\ pc' = [pc EXCEPT ![w] = "line"] /\ pc[w] = "idle" /\ op[w].kind = "create"
        /\ UNCHANGED <<acked, removed, revived, crashes, snapshot>>
    BY <1>1 DEF CreateWrites
  <2>2. \A v \in Writers : UniqueIds(snapshot'[v]) /\ \A m \in Ids(snapshot'[v]) : pc'[m] # "idle"
    BY <2>1, ReadingStays
  <2>3. \A v \in Writers : op[v].kind = "delete" /\ pc'[v] \in {"found", "read"}
            => pc'[op[v].id] # "idle"
    BY <2>1, OpsOK DEF FileInv
  <2>4. /\ UniqueIds(msgs') /\ \A m \in Ids(msgs') \cup removed' : pc'[m] # "idle"
        /\ removed' \cap Ids(msgs') \subseteq revived'
    BY <1>0, <1>1, <2>1, CreateIds DEF FileInv
  <2>5. /\ \A v \in acked' : pc'[v] = "done" /\ acked' \subseteq Writers
        /\ last' = "open" => Len(msgs') > 0 /\ pc'[msgs'[Len(msgs')].id] \in {"line", "dead"}
    BY <1>1, <2>1, CreateIds DEF FileInv
  <2> QED BY <2>1, <2>2, <2>3, <2>4, <2>5 DEF FileInv
<1>2. CASE CreateEnds(w)
  BY <1>2, FileStays DEF CreateEnds, FileInv
<1>3. CASE DeleteFinds(w)
  BY <1>3, FileStays DEF DeleteFinds, FileInv
<1>4. CASE RewriteReads(w)
  <2>1. UNCHANGED <<msgs, last, acked, removed, revived, crashes>>
    BY <1>4 DEF RewriteReads
  <2>2. PICK l \in {"failed", "read"} :
            pc' = [pc EXCEPT ![w] = l] /\ snapshot' \in {snapshot, [snapshot EXCEPT ![w] = msgs]}
    <3>1. \/ Goes(w, "failed") /\ UNCHANGED snapshot
          \/ Goes(w, "read") /\ snapshot' = [snapshot EXCEPT ![w] = msgs]
      BY <1>4, Zenon DEF RewriteReads
    <3> QED BY <3>1
  <2>3. pc[w] \in {"found", "idle"} /\ (op[w].kind = "delete" => pc[w] = "found")
    BY <1>4 DEF RewriteReads
  <2>4. \A v \in Writers : pc'[v] # pc[v] => v = w /\ pc'[v] \in {"failed", "read"}
    BY <2>2
  <2>5. \A v \in Writers : pc[v] \in {"line", "dead", "done"} => pc'[v] = pc[v]
    BY <2>3, <2>4
  <2>6. \A v \in Writers : snapshot'[v] \in {snapshot[v], msgs, <<>>}
    BY <2>2
  <2> QED BY <2>1, <2>3, <2>4, <2>5, <2>6, FileStays DEF FileInv
<1>5. CASE RewriteReplaces(w)
  <2>1. /\ pc' = [pc EXCEPT ![w] = "written"] /\ pc[w] = "read" /\ last' = "closed"
        /\ snapshot' = [snapshot EXCEPT ![w] = <<>>]
        /\ UNCHANGED <<acked, crashes>>
    BY <1>5 DEF RewriteReplaces
  <2>2. \A v \in Writers : UniqueIds(snapshot'[v]) /\ \A m \in Ids(snapshot'[v]) : pc'[m] # "idle"
    BY <2>1, ReadingStays
  <2>3. \A v \in Writers : op[v].kind = "delete" /\ pc'[v] \in {"found", "read"}
            => pc'[op[v].id] # "idle"
    BY <2>1, OpsOK DEF FileInv
  <2>4. Ids(snapshot[w]) \subseteq Writers
    <3>1. \A k \in DOMAIN snapshot[w] : snapshot[w][k] \in Line
      OBVIOUS
    <3> QED BY <3>1 DEF Ids, Line
  <2>5. /\ UniqueIds(msgs') /\ removed' \subseteq Writers
        /\ removed' \cap Ids(msgs') \subseteq revived'
    BY <1>5, RewriteIds DEF FileInv
  <2>6. \A m \in Ids(msgs') \cup removed' : m \in Writers /\ pc[m] # "idle"
    BY <1>5, <2>4, RewriteIds DEF FileInv
  <2>7. \A m \in Ids(msgs') \cup removed' : pc'[m] # "idle"
    BY <2>1, <2>6
  <2>8. \A v \in acked : pc'[v] = "done"
    BY <2>1 DEF FileInv
  <2> QED BY <2>1, <2>2, <2>3, <2>5, <2>7, <2>8 DEF FileInv
<1>6. CASE Returns(w)
  BY <1>6, FileStays DEF Returns, FileInv
<1>7. CASE Crash(w)
  <2>1. /\ pc' = [pc EXCEPT ![w] = "dead"] /\ pc[w] \notin Over /\ crashes' = crashes + 1
        /\ snapshot' = [snapshot EXCEPT ![w] = <<>>]
        /\ UNCHANGED <<acked, removed, revived>>
    BY <1>7 DEF Crash
  <2>2. \A v \in Writers : UniqueIds(snapshot'[v]) /\ \A m \in Ids(snapshot'[v]) : pc'[m] # "idle"
    BY <2>1, ReadingStays
  <2>3. \A v \in Writers : op[v].kind = "delete" /\ pc'[v] \in {"found", "read"}
            => pc'[op[v].id] # "idle"
    BY <2>1, OpsOK DEF FileInv
  <2>4. /\ UniqueIds(msgs') /\ \A m \in Ids(msgs') \cup removed' : pc'[m] # "idle"
        /\ removed' \cap Ids(msgs') \subseteq revived'
    BY <1>0, <1>7, <2>1, CrashIds DEF FileInv
  <2>5. /\ \A v \in acked' : pc'[v] = "done" /\ acked' \subseteq Writers
        /\ last' = "open" => Len(msgs') > 0 /\ pc'[msgs'[Len(msgs')].id] \in {"line", "dead"}
    BY <1>0, <1>7, <2>1, CrashIds DEF FileInv
  <2> QED BY <2>1, <2>2, <2>3, <2>4, <2>5 DEF FileInv
<1> QED
  BY <1>1, <1>2, <1>3, <1>4, <1>5, <1>6, <1>7 DEF Step

LEMMA FileInvariant == Spec => []FileInv
<1>1. Init => FileInv
  BY DEF Init, FileInv, UniqueIds, Ids
<1>2. StoreInv /\ FileInv /\ [Next]_vars => FileInv'
  <2> SUFFICES ASSUME StoreInv, FileInv, [Next]_vars PROVE FileInv'
    OBVIOUS
  <2>1. CASE UNCHANGED vars
    BY <2>1 DEF vars, history, FileInv
  <2> QED
    BY <2>1, FileInvKept DEF Next
<1> QED
  BY <1>1, <1>2, Invariant, PTL DEF Spec

\* A message that a call has removed is never listed again, whatever calls and
\* crashes follow, unless a rewrite that had read it before writes it back.
THEOREM RemovalIsFinal == Spec => []RemovedStays
<1>1. FileInv => RemovedStays
  BY DEF FileInv, RemovedStays
<1> QED
  BY <1>1, FileInvariant, PTL

\* Every lost message is paid for by a crash; one more crash is in store while
\* the file ends in the middle of a line that nobody writes.
LossInv == IsFiniteSet(Lost) /\ Cardinality(Lost) + (IF Cut THEN 1 ELSE 0) <= crashes

\* A step loses nothing; or it is a crash; or it writes behind the cut line.
LEMMA StepLoses ==
    ASSUME StoreInv, FileInv, NEW w \in Writers, Step(w)
    PROVE  \/ Lost' \subseteq Lost /\ crashes' = crashes /\ (Cut' => Cut)
           \/ Lost' \subseteq Lost /\ crashes' = crashes + 1
           \/ Lost' \subseteq Lost \cup {w} /\ crashes' = crashes /\ Cut /\ ~Cut'
<1> USE DEF StoreInv, StoreTypes, Goes, Labels, Over, Cut, Free, history
<1>1. CASE CreateWrites(w)
  <2>1. /\ pc' = [pc EXCEPT ![w] = "line"] /\ UNCHANGED <<removed, dropped, crashes>>
        /\ Free /\ ~Free'
    BY <1>1 DEF CreateWrites
  <2>2. CASE last = "closed"
    <3>1. Ids(msgs') = Ids(msgs) \cup {w}
      BY <1>1, <2>2, CreateIds
    <3>2. Lost' \subseteq Lost
      BY <2>1, <3>1 DEF Lost
    <3> QED BY <2>1, <3>2
  <2>3. CASE last # "closed"
    <3>1. \A m \in Ids(msgs) \ Ids(msgs') : pc[m] = "dead"
      BY <1>1, <2>3, CreateIds
    <3>2. Lost' \subseteq Lost \cup {w}
      BY <2>1, <3>1 DEF Lost
    <3> QED BY <2>1, <2>3, <3>2
  <2> QED BY <2>2, <2>3
<1>2. CASE CreateEnds(w)
  <2>1. Lost' \subseteq Lost
    BY <1>2 DEF CreateEnds, Lost
  <2> QED BY <1>2, <2>1 DEF CreateEnds
<1>3. CASE DeleteFinds(w)
  <2>1. Lost' \subseteq Lost
    BY <1>3 DEF DeleteFinds, Lost
  <2> QED BY <1>3, <2>1 DEF DeleteFinds
<1>4. CASE RewriteReads(w)
  <2>1. Lost' \subseteq Lost
    BY <1>4 DEF RewriteReads, Lost
  <2> QED BY <1>4, <2>1 DEF RewriteReads
<1>5. CASE RewriteReplaces(w)
  <2>1. /\ pc' = [pc EXCEPT ![w] = "written"] /\ last' = "closed" /\ crashes' = crashes
        /\ op[w].kind # "create"
    BY <1>5 DEF RewriteReplaces, Readings, Editable
  <2>2. Lost' \subseteq Lost
    BY <1>5, <2>1, RewriteIds DEF Lost
  <2> QED BY <2>1, <2>2
<1>6. CASE Returns(w)
  <2>1. Lost' \subseteq Lost
    BY <1>6 DEF Returns, Lost
  <2> QED BY <1>6, <2>1 DEF Returns
<1>7. CASE Crash(w)
  <2>1. /\ pc' = [pc EXCEPT ![w] = "dead"] /\ UNCHANGED <<removed, dropped>> /\ crashes' = crashes + 1
    BY <1>7 DEF Crash
  <2>2. \A m \in Ids(msgs) \ Ids(msgs') : pc[m] = "dead"
    BY <1>7, CrashIds
  <2>3. Lost' \subseteq Lost
    BY <2>1, <2>2 DEF Lost
  <2> QED BY <2>1, <2>3
<1> QED
  BY <1>1, <1>2, <1>3, <1>4, <1>5, <1>6, <1>7 DEF Step

LEMMA LossKept ==
    ASSUME StoreInv, FileInv, LossInv, NEW w \in Writers, Step(w)
    PROVE  LossInv'
<1>1. Cardinality(Lost) \in Nat /\ crashes \in Nat
  BY FS_CardinalityType DEF LossInv, FileInv
<1>2. ASSUME NEW L, IsFiniteSet(L), Lost' \subseteq L
      PROVE  /\ IsFiniteSet(Lost') /\ Cardinality(Lost') \in Nat
             /\ Cardinality(L) \in Nat /\ Cardinality(Lost') <= Cardinality(L)
  <2>1. Lost' \in SUBSET L
    BY <1>2
  <2>2. IsFiniteSet(Lost') /\ Cardinality(Lost') <= Cardinality(L)
    BY <1>2, <2>1, FS_Subset
  <2> QED BY <1>2, <2>2, FS_CardinalityType
<1>3. CASE Lost' \subseteq Lost /\ crashes' = crashes /\ (Cut' => Cut)
  BY <1>1, <1>2, <1>3 DEF LossInv
<1>4. CASE Lost' \subseteq Lost /\ crashes' = crashes + 1
  BY <1>1, <1>2, <1>4 DEF LossInv
<1>5. CASE Lost' \subseteq Lost \cup {w} /\ crashes' = crashes /\ Cut /\ ~Cut'
  <2>1. /\ IsFiniteSet(Lost \cup {w})
        /\ Cardinality(Lost \cup {w}) \in {Cardinality(Lost), Cardinality(Lost) + 1}
    BY FS_AddElement DEF LossInv
  <2>2. /\ IsFiniteSet(Lost') /\ Cardinality(Lost') \in Nat
        /\ Cardinality(Lost') <= Cardinality(Lost \cup {w})
    BY <1>2, <1>5, <2>1
  <2> QED BY <1>1, <1>5, <2>1, <2>2 DEF LossInv
<1> QED
  BY <1>3, <1>4, <1>5, StepLoses

\* A crash costs one message at most of those whose Create has returned, that no
\* call removed and no rewrite dropped with an older reading, for any calls and
\* any number of crashes.
THEOREM LossIsBounded == Spec => []LossBounded
<1>1. Init => LossInv
  <2>1. Init => Lost = {} /\ ~Cut /\ crashes = 0
    BY DEF Init, Lost, Cut
  <2> QED BY <2>1, FS_EmptySet DEF LossInv
<1>2. StoreInv /\ FileInv /\ LossInv /\ [Next]_vars => LossInv'
  <2> SUFFICES ASSUME StoreInv, FileInv, LossInv, [Next]_vars PROVE LossInv'
    OBVIOUS
  <2>1. CASE UNCHANGED vars
    BY <2>1 DEF vars, history, LossInv, Lost, Cut, Free
  <2> QED
    BY <2>1, LossKept DEF Next
<1>3. FileInv /\ LossInv => LossBounded
  <2> SUFFICES ASSUME FileInv, LossInv PROVE LossBounded
    OBVIOUS
  <2> DEFINE L == (Created \ (removed \cup dropped)) \ Ids(msgs)
  <2>1. L \in SUBSET Lost
    BY DEF FileInv, Created, Lost
  <2> HIDE DEF L
  <2>2. IsFiniteSet(L) /\ Cardinality(L) <= Cardinality(Lost)
    BY <2>1, FS_Subset DEF LossInv
  <2>3. Cardinality(L) \in Nat /\ Cardinality(Lost) \in Nat /\ crashes \in Nat
    BY <2>2, FS_CardinalityType DEF FileInv, LossInv
  <2>4. Cardinality(L) <= crashes
    BY <2>2, <2>3 DEF LossInv
  <2> QED BY <2>4 DEF LossBounded, L
<1> QED
  BY <1>1, <1>2, <1>3, Invariant, FileInvariant, PTL DEF Spec
=============================================================================
