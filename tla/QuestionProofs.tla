--------------------------- MODULE QuestionProofs ---------------------------
(***************************************************************************)
(* Proofs about Question, for any asks and clients, whatever overlaps and   *)
(* whatever arrives late: the slot names an Ask that has not returned, and *)
(* what ends an Ask was given after it had begun.                          *)
(***************************************************************************)
EXTENDS Question, TLAPS

\* The types in parts.  A client that delivers a response has found channels in
\* the slot.
AskTypes ==
    /\ pc \in [Asks -> {"new", "publish", "select", "pending", "receive",
                         "clear", "done"}]
    /\ slot \in Asks \cup {None}
    /\ answer \in [Asks -> Responses] /\ closed \in [Asks -> Responses]
    /\ stale \subseteq Asks /\ misfit \subseteq Asks /\ disturbed \subseteq Asks
    /\ panicked \in BOOLEAN
ReadTypes ==
    reads \in [Asks -> [cancel : Asks \cup {None}, pending : Asks \cup {None}]]
MailTypes == opens \in [Clients -> Seq(Asks)] /\ notes \in [Clients -> Nat]
FormTypes ==
    /\ form \in [Clients -> Asks \cup {None}]
    /\ cpc \in [Clients -> {"idle", "answer", "cancel", "notify"}]
    /\ hold \in [Clients -> [chan : Asks \cup {None}, response : Responses]]
    /\ \A u \in Clients : cpc[u] \in {"answer", "cancel"} => hold[u].chan \in Asks
Types == AskTypes /\ ReadTypes /\ MailTypes /\ FormTypes

\* What the steps of an Ask, and of a client, write.
USE DEF askVars, clientVars

LEMMA OpenTyped == Open \in Responses
  BY DEF Open, Responses

LEMMA AskTypesKept ==
  ASSUME Types, [Next]_vars
  PROVE  AskTypes'
<1> USE DEF AskTypes
<1>1. ASSUME NEW a \in Asks, AskFills(a) \/ AskPublishes(a) \/ AskClears(a)
      PROVE AskTypes'
  <2>1. Disturbs(a) \subseteq Asks
    BY DEF Disturbs
  <2> QED BY <1>1, <2>1 DEF Types, AskFills, AskPublishes, AskClears
<1>2. ASSUME NEW a \in Asks, AskReadsCancel(a) \/ AskReadsPending(a) PROVE AskTypes'
  BY <1>2 DEF Types, AskReadsCancel, AskReadsPending
<1>3. ASSUME NEW a \in Asks, AskReceives(a) PROVE AskTypes'
  <2>1. /\ answer' = [answer EXCEPT ![reads[a].pending] = Open]
        /\ pc' = [pc EXCEPT ![a] = "clear"]
        /\ UNCHANGED <<slot, closed, disturbed, panicked>>
    BY <1>3 DEF AskReceives, Return
  <2>2. stale' \subseteq Asks /\ misfit' \subseteq Asks
    BY <1>3 DEF Types, AskReceives, Return
  <2> QED BY <2>1, <2>2, OpenTyped DEF Types
<1>4. ASSUME NEW a \in Asks, AskCancelled(a) \/ AskAborted(a) PROVE AskTypes'
  BY <1>4 DEF Types, AskCancelled, AskAborted, Return
<1>5. ASSUME NEW u \in Clients, Show(u) \/ Dismiss(u) \/ Responding(u) \/ Notify(u)
      PROVE AskTypes'
  BY <1>5 DEF Types, Show, Dismiss, Responding, Respond, Notify
<1>6. ASSUME NEW u \in Clients, SendAnswer(u) PROVE AskTypes'
  BY <1>6 DEF Types, FormTypes, SendAnswer
<1>8. ASSUME NEW u \in Clients, CloseCancel(u) PROVE AskTypes'
  <2>1. closed' \in [Asks -> Responses]
    <3>1. hold[u].response \in Responses
      BY DEF Types, FormTypes
    <3> QED BY <1>8, <3>1 DEF Types, CloseCancel
  <2>2. panicked' \in BOOLEAN
    BY <1>8, Zenon DEF CloseCancel
  <2>3. UNCHANGED <<pc, slot, answer, stale, misfit, disturbed>>
    BY <1>8 DEF CloseCancel
  <2> QED BY <2>1, <2>2, <2>3 DEF Types
<1>7. CASE UNCHANGED vars
  BY <1>7 DEF Types, vars
<1> QED
  BY <1>1, <1>2, <1>3, <1>4, <1>5, <1>6, <1>7, <1>8 DEF Next, AskStep, ClientStep, Delivering

LEMMA MailTypesKept ==
  ASSUME Types, [Next]_vars
  PROVE  ReadTypes' /\ MailTypes'
<1> USE DEF MailTypes, ReadTypes
<1>1. ASSUME NEW a \in Asks, AskPublishes(a) PROVE ReadTypes' /\ MailTypes'
  BY <1>1 DEF Types, AskPublishes
<1>2. ASSUME NEW a \in Asks, AskReadsCancel(a) \/ AskReadsPending(a)
      PROVE ReadTypes' /\ MailTypes'
  <2>1. ReadTypes'
    <3>1. /\ [reads[a] EXCEPT !.cancel = slot]
                \in [cancel : Asks \cup {None}, pending : Asks \cup {None}]
          /\ [reads[a] EXCEPT !.pending = slot]
                \in [cancel : Asks \cup {None}, pending : Asks \cup {None}]
      BY DEF Types, AskTypes
    <3>2. \/ reads' = [reads EXCEPT ![a] = [reads[a] EXCEPT !.cancel = slot]]
          \/ reads' = [reads EXCEPT ![a] = [reads[a] EXCEPT !.pending = slot]]
      BY <1>2, Zenon DEF AskReadsCancel, AskReadsPending
    <3> HIDE DEF ReadTypes
    <3> DEFINE Rec == [cancel : Asks \cup {None}, pending : Asks \cup {None}]
    <3>3. reads \in [Asks -> Rec]
      BY DEF Types, ReadTypes
    <3> QED BY <3>1, <3>2, <3>3, Zenon DEF ReadTypes
  <2>2. MailTypes'
    BY <1>2 DEF Types, AskReadsCancel, AskReadsPending
  <2> QED BY <2>1, <2>2
<1>3. ASSUME NEW a \in Asks,
             AskFills(a) \/ AskReceives(a) \/ AskCancelled(a)
                \/ AskAborted(a) \/ AskClears(a)
      PROVE ReadTypes' /\ MailTypes'
  BY <1>3 DEF Types, AskFills, AskReceives, AskCancelled, AskAborted,
     AskClears, Return
<1>4. ASSUME NEW u \in Clients, Show(u) PROVE ReadTypes' /\ MailTypes'
  <2>1. Tail(opens[u]) \in Seq(Asks)
    BY <1>4 DEF Types, Show
  <2>2. opens' \in [Clients -> Seq(Asks)]
    BY <1>4, <2>1 DEF Types, Show
  <2> QED BY <1>4, <2>2 DEF Types, Show
<1>5. ASSUME NEW u \in Clients, Dismiss(u) \/ Notify(u) PROVE ReadTypes' /\ MailTypes'
  <2>1. notes' \in [Clients -> Nat]
    <3>1. CASE Dismiss(u)
      BY <3>1 DEF Types, Dismiss
    <3>2. CASE Notify(u)
      BY <3>2 DEF Types, Notify
    <3> QED BY <1>5, <3>1, <3>2
  <2>2. UNCHANGED <<opens, reads>>
    BY <1>5 DEF Dismiss, Notify
  <2> QED BY <2>1, <2>2 DEF Types
<1>6. ASSUME NEW u \in Clients, Responding(u) \/ SendAnswer(u) \/ CloseCancel(u)
      PROVE ReadTypes' /\ MailTypes'
  BY <1>6 DEF Types, Responding, Respond, SendAnswer, CloseCancel
<1>7. CASE UNCHANGED vars
  BY <1>7 DEF Types, vars
<1> QED
  BY <1>1, <1>2, <1>3, <1>4, <1>5, <1>6, <1>7 DEF Next, AskStep, ClientStep, Delivering

LEMMA FormTypesKept ==
  ASSUME Types, [Next]_vars
  PROVE  FormTypes'
<1> USE DEF FormTypes
<1>1. ASSUME NEW a \in Asks, AskFills(a) \/ AskStep(a) \/ AskAborted(a)
      PROVE FormTypes'
  <2>1. UNCHANGED clientVars
    BY <1>1 DEF AskFills, AskStep, AskAborted, AskPublishes, AskReadsCancel,
       AskReadsPending, AskReceives, AskCancelled, AskClears, Return
  <2> QED BY <2>1 DEF Types
<1>2. ASSUME NEW u \in Clients, Show(u) PROVE FormTypes'
  <2>1. Head(opens[u]) \in Asks
    BY <1>2 DEF Types, MailTypes, Show
  <2> QED BY <1>2, <2>1 DEF Types, Show
<1>3. ASSUME NEW u \in Clients, Dismiss(u) PROVE FormTypes'
  BY <1>3 DEF Types, Dismiss
<1>4. ASSUME NEW u \in Clients, Responding(u) PROVE FormTypes'
  <2>1. PICK how \in {"answer", "cancel"} : Respond(u, how)
    BY <1>4 DEF Responding
  <2>2. PICK r \in Responses :
           \/ slot = None /\ UNCHANGED <<cpc, hold>>
           \/ /\ slot \in Asks
              /\ hold' = [hold EXCEPT ![u] = [chan |-> slot, response |-> r]]
              /\ cpc' = [cpc EXCEPT ![u] = how]
    <3> DEFINE r == [form |-> IF how = "answer" THEN form[u] ELSE None,
                     asked |-> Begun]
    <3>1. r \in Responses
      BY DEF Types, Begun, Responses
    <3> QED BY <2>1, <3>1 DEF Types, AskTypes, Respond
  <2>3. form' = [form EXCEPT ![u] = None]
    BY <2>1 DEF Respond
  <2>4. form' \in [Clients -> Asks \cup {None}]
    BY <2>3 DEF Types
  <2>5. CASE UNCHANGED <<cpc, hold>>
    BY <2>4, <2>5 DEF Types
  <2>6. CASE ~UNCHANGED <<cpc, hold>>
    <3>1. [chan |-> slot, response |-> r] \in [chan : Asks \cup {None}, response : Responses]
      BY <2>2, <2>6
    <3> QED BY <2>2, <2>4, <2>6, <3>1 DEF Types
  <2> QED BY <2>5, <2>6
<1>5. ASSUME NEW u \in Clients, Delivering(u) PROVE FormTypes'
  BY <1>5, OpenTyped DEF Types, Delivering, SendAnswer, CloseCancel, Notify
<1>6. CASE UNCHANGED vars
  BY <1>6 DEF Types, vars
<1> QED
  BY <1>1, <1>2, <1>3, <1>4, <1>5, <1>6 DEF Next, ClientStep

LEMMA TypesKept == Spec => []Types
<1>1. Init => AskTypes
  <2> SUFFICES ASSUME Init PROVE AskTypes
    OBVIOUS
  <2>1. /\ slot \in Asks \cup {None} /\ panicked \in BOOLEAN
        /\ stale \subseteq Asks /\ misfit \subseteq Asks /\ disturbed \subseteq Asks
    BY Zenon DEF Init
  <2>2. /\ pc \in [Asks -> {"new", "publish", "select", "pending", "receive",
                              "clear", "done"}]
        /\ answer \in [Asks -> Responses] /\ closed \in [Asks -> Responses]
    BY OpenTyped DEF Init
  <2> QED BY <2>1, <2>2 DEF AskTypes
<1>4. Init => ReadTypes
  BY DEF Init, ReadTypes
<1>5. Init => FormTypes
  BY OpenTyped DEF Init, FormTypes
<1>2. Init => MailTypes
  BY DEF Init, MailTypes
<1>3. Types /\ [Next]_vars => Types'
  BY AskTypesKept, MailTypesKept, FormTypesKept DEF Types
<1> QED
  BY <1>1, <1>2, <1>3, <1>4, <1>5, PTL DEF Spec, Types

\* Overlapping or not, late or not, the slot never names an Ask that has
\* returned: no client can resolve a question that is over.  What makes it hold
\* is that an Ask empties the slot even when another has filled it.
THEOREM SlotNamesLiveAsk == Spec => []SlotIsLive
<1>1. Init => SlotIsLive
  BY DEF Init, SlotIsLive
<1>2. Types /\ SlotIsLive /\ [Next]_vars => SlotIsLive'
  <2> SUFFICES ASSUME Types, SlotIsLive, [Next]_vars PROVE SlotIsLive'
    OBVIOUS
  <2> USE QuestionConstants DEF SlotIsLive, Types, AskTypes
  <2>1. ASSUME NEW a \in Asks, AskFills(a) PROVE SlotIsLive'
    BY <2>1 DEF AskFills
  <2>2. ASSUME NEW a \in Asks,
               \/ AskPublishes(a) \/ AskReadsCancel(a) \/ AskReadsPending(a)
               \/ AskReceives(a) \/ AskCancelled(a) \/ AskAborted(a)
        PROVE SlotIsLive'
    BY <2>2 DEF AskPublishes, AskReadsCancel, AskReadsPending, AskReceives,
       AskCancelled, AskAborted, Return
  <2>3. ASSUME NEW a \in Asks, AskClears(a) PROVE SlotIsLive'
    BY <2>3 DEF AskClears
  <2>4. ASSUME NEW u \in Clients,
               Show(u) \/ Dismiss(u) \/ Responding(u) \/ Delivering(u)
        PROVE SlotIsLive'
    BY <2>4 DEF Show, Dismiss, Responding, Respond, Delivering, SendAnswer,
       CloseCancel, Notify
  <2>5. CASE UNCHANGED vars
    BY <2>5 DEF vars
  <2> QED
    BY <2>1, <2>2, <2>3, <2>4, <2>5 DEF Next, AskStep, ClientStep
<1> QED
  BY <1>1, <1>2, TypesKept, PTL DEF Spec

-----------------------------------------------------------------------------
(* Fresh responses *)

\* Ask a receives, or will receive, from the channels of y.
Takes(a, y) ==
    \/ pc[a] = "receive" /\ reads[a].pending = y
    \/ pc[a] \in {"publish", "select", "pending"} /\ slot = y
Heeds(a, y) ==
    \/ pc[a] \in {"pending", "receive"} /\ reads[a].cancel = y
    \/ pc[a] \in {"publish", "select"} /\ slot = y
Listens(a, y) == Takes(a, y) \/ Heeds(a, y)

\* Channels that are not made yet are in nobody's hands.
NewInv == \A y \in Asks : pc[y] = "new" =>
    /\ answer[y] = Open /\ closed[y] = Open
    /\ \A u \in Clients : hold[u].chan # y
    /\ \A a \in Asks : ~Listens(a, y)

\* Whoever receives from a channel had begun when the user gave what is in it,
\* or what a client is about to put into it.
HoldInv == \A u \in Clients, a \in Asks :
    cpc[u] \in {"answer", "cancel"} /\ Listens(a, hold[u].chan)
        => a \in hold[u].response.asked
ValueInv == \A a, y \in Asks :
    /\ Takes(a, y) /\ answer[y] # Open => a \in answer[y].asked
    /\ Heeds(a, y) /\ closed[y] # Open => a \in closed[y].asked
FreshInv == NewInv /\ HoldInv /\ ValueInv /\ stale = {}

\* A step of an Ask that makes nobody listen to a channel it did not listen to.
LEMMA QuietAsk ==
  ASSUME Types, FreshInv, UNCHANGED <<cpc, hold, answer, closed, stale>>,
         \A b \in Asks : pc'[b] = "new" => pc[b] = "new",
         \A b, y \in Asks : (Takes(b, y)' => Takes(b, y)) /\ (Heeds(b, y)' => Heeds(b, y))
  PROVE  FreshInv'
<1>1. NewInv'
  BY DEF FreshInv, NewInv, Listens
<1>2. HoldInv'
  BY DEF FreshInv, HoldInv, Listens, Types, FormTypes
<1>3. ValueInv'
  BY DEF FreshInv, ValueInv
<1> QED BY <1>1, <1>2, <1>3 DEF FreshInv

LEMMA AskFresh ==
  ASSUME Types, FreshInv, NEW a \in Asks, AskFills(a) \/ AskStep(a) \/ AskAborted(a)
  PROVE  FreshInv'
<1> USE DEF Types, AskTypes, ReadTypes
<1>1. CASE AskFills(a)
  <2>1. /\ pc[a] = "new" /\ slot' = a /\ pc' = [pc EXCEPT ![a] = "publish"]
        /\ UNCHANGED <<cpc, hold, answer, closed, stale, reads>>
    BY <1>1 DEF AskFills
  <2>2. /\ answer[a] = Open /\ closed[a] = Open
        /\ \A u \in Clients : hold[u].chan # a
    BY <2>1 DEF FreshInv, NewInv
  <2>3. \A b, y \in Asks : y # a =>
           /\ Takes(b, y)' => Takes(b, y)
           /\ Heeds(b, y)' => Heeds(b, y)
    BY <2>1 DEF Takes, Heeds
  <2>4. NewInv'
    BY <2>1, <2>3 DEF FreshInv, NewInv, Listens
  <2>5. HoldInv'
    BY <2>1, <2>2, <2>3 DEF FreshInv, HoldInv, Listens, FormTypes
  <2>6. ValueInv'
    BY <2>1, <2>2, <2>3 DEF FreshInv, ValueInv
  <2> QED BY <2>1, <2>4, <2>5, <2>6 DEF FreshInv
<1>2. CASE AskPublishes(a)
  BY <1>2, QuietAsk DEF AskPublishes, Takes, Heeds
<1>3. CASE AskReadsCancel(a)
  <2>1. /\ pc[a] = "select" /\ pc' = [pc EXCEPT ![a] = "pending"]
        /\ reads' = [reads EXCEPT ![a].cancel = slot]
        /\ UNCHANGED <<slot, cpc, hold, answer, closed, stale>>
    BY <1>3 DEF AskReadsCancel
  <2>2. /\ reads'[a].cancel = slot
        /\ \A b \in Asks : reads'[b].pending = reads[b].pending
        /\ \A b \in Asks \ {a} : reads'[b] = reads[b]
    BY <2>1
  <2>3. \A b, y \in Asks : (Takes(b, y)' => Takes(b, y)) /\ (Heeds(b, y)' => Heeds(b, y))
    BY <2>1, <2>2 DEF Takes, Heeds
  <2> QED BY <2>1, <2>3, QuietAsk
<1>4. CASE AskReadsPending(a)
  <2>1. /\ pc[a] = "pending" /\ pc' = [pc EXCEPT ![a] = "receive"]
        /\ reads' = [reads EXCEPT ![a].pending = slot]
        /\ UNCHANGED <<slot, cpc, hold, answer, closed, stale>>
    BY <1>4 DEF AskReadsPending
  <2>2. /\ reads'[a].pending = slot
        /\ \A b \in Asks : reads'[b].cancel = reads[b].cancel
        /\ \A b \in Asks \ {a} : reads'[b] = reads[b]
    BY <2>1
  <2>3. \A b, y \in Asks : (Takes(b, y)' => Takes(b, y)) /\ (Heeds(b, y)' => Heeds(b, y))
    BY <2>1, <2>2 DEF Takes, Heeds
  <2> QED BY <2>1, <2>3, QuietAsk
<1>5. CASE AskReceives(a)
  <2> DEFINE y == reads[a].pending
  <2>1. /\ pc[a] = "receive" /\ y \in Asks /\ answer[y] # Open
        /\ pc' = [pc EXCEPT ![a] = "clear"]
        /\ \A b \in Asks \ {a} : reads'[b] = reads[b]
        /\ UNCHANGED <<slot, cpc, hold, closed>>
        /\ answer' = [answer EXCEPT ![y] = Open]
        /\ stale' = stale \cup (IF a \in answer[y].asked THEN {} ELSE {a})
    BY <1>5, QuestionConstants DEF AskReceives, Return
  <2>2. \A b, z \in Asks : (Takes(b, z)' => Takes(b, z)) /\ (Heeds(b, z)' => Heeds(b, z))
    BY <2>1 DEF Takes, Heeds
  <2>3. a \in answer[y].asked
    BY <2>1 DEF FreshInv, ValueInv, Takes
  <2>4. stale' = {}
    BY <2>1, <2>3 DEF FreshInv
  <2>5. NewInv'
    BY <2>1, <2>2 DEF FreshInv, NewInv, Listens
  <2>6. HoldInv'
    BY <2>1, <2>2 DEF FreshInv, HoldInv, Listens, FormTypes
  <2>7. ValueInv'
    BY <2>1, <2>2 DEF FreshInv, ValueInv
  <2> QED BY <2>4, <2>5, <2>6, <2>7 DEF FreshInv
<1>6. CASE AskCancelled(a) \/ AskAborted(a)
  <2> DEFINE y == reads[a].cancel
  <2>1. /\ pc[a] = "receive" /\ pc' = [pc EXCEPT ![a] = "clear"]
        /\ \A b \in Asks \ {a} : reads'[b] = reads[b]
        /\ UNCHANGED <<slot, cpc, hold, closed, answer>>
    BY <1>6 DEF AskCancelled, AskAborted, Return
  <2>2. \A b, z \in Asks : (Takes(b, z)' => Takes(b, z)) /\ (Heeds(b, z)' => Heeds(b, z))
    BY <2>1 DEF Takes, Heeds
  <2>3. stale' = stale
    <3>1. CASE AskAborted(a)
      BY <3>1 DEF AskAborted, Return
    <3>2. CASE AskCancelled(a)
      <4>1. /\ y \in Asks /\ closed[y] # Open
            /\ stale' = stale \cup (IF a \in closed[y].asked THEN {} ELSE {a})
        BY <3>2, QuestionConstants DEF AskCancelled, Return
      <4>2. a \in closed[y].asked
        BY <2>1, <4>1 DEF FreshInv, ValueInv, Heeds
      <4> QED BY <4>1, <4>2
    <3> QED BY <1>6, <3>1, <3>2
  <2> QED BY <2>1, <2>2, <2>3, QuietAsk
<1>7. CASE AskClears(a)
  <2>1. /\ slot' = None /\ pc' = [pc EXCEPT ![a] = "done"]
        /\ UNCHANGED <<reads, cpc, hold, answer, closed, stale>>
    BY <1>7 DEF AskClears
  <2>2. \A b, z \in Asks : (Takes(b, z)' => Takes(b, z)) /\ (Heeds(b, z)' => Heeds(b, z))
    BY <2>1, QuestionConstants DEF Takes, Heeds
  <2> QED BY <2>1, <2>2, QuietAsk
<1> QED
  BY <1>1, <1>2, <1>3, <1>4, <1>5, <1>6, <1>7 DEF AskStep

\* A step of a client leaves who listens to what.
LEMMA ClientFresh ==
  ASSUME Types, SlotIsLive, FreshInv, NEW u \in Clients, ClientStep(u)
  PROVE  FreshInv'
<1> USE DEF Types, AskTypes, FormTypes
<1>1. UNCHANGED <<pc, slot, reads, stale>>
  BY DEF ClientStep, Show, Dismiss, Responding, Respond, Delivering, SendAnswer,
     CloseCancel, Notify
<1>2. \A b, z \in Asks : (Takes(b, z)' <=> Takes(b, z)) /\ (Heeds(b, z)' <=> Heeds(b, z))
  BY <1>1 DEF Takes, Heeds
<1>3. CASE Show(u) \/ Dismiss(u)
  BY <1>1, <1>2, <1>3, QuietAsk DEF Show, Dismiss
<1>4. CASE Responding(u)
  <2>1. PICK how \in {"answer", "cancel"} : Respond(u, how)
    BY <1>4 DEF Responding
  <2>2. UNCHANGED <<answer, closed>>
    BY <2>1 DEF Respond
  <2>3. CASE UNCHANGED <<cpc, hold>>
    BY <1>1, <1>2, <2>2, <2>3, QuietAsk
  <2>4. CASE ~UNCHANGED <<cpc, hold>>
    <3>1. /\ slot \in Asks
          /\ \A v \in Clients \ {u} : hold'[v] = hold[v] /\ cpc'[v] = cpc[v]
          /\ hold'[u].chan = slot /\ hold'[u].response.asked = Begun
      BY <2>1, <2>4 DEF Respond
    <3>2. \A a \in Asks : Listens(a, slot) => a \in Begun
      BY DEF Begun, Listens, Takes, Heeds
    <3>3. NewInv'
      <4>1. pc[slot] # "new"
        BY <3>1, QuestionConstants DEF SlotIsLive
      <4> QED BY <1>1, <1>2, <2>2, <3>1, <4>1 DEF FreshInv, NewInv, Listens
    <3>4. HoldInv'
      BY <1>1, <1>2, <3>1, <3>2 DEF FreshInv, HoldInv, Listens
    <3>5. ValueInv'
      BY <1>1, <1>2, <2>2 DEF FreshInv, ValueInv
    <3> QED BY <1>1, <3>3, <3>4, <3>5 DEF FreshInv
  <2> QED BY <2>3, <2>4
<1>5. CASE SendAnswer(u)
  <2> DEFINE y == hold[u].chan
  <2>1. /\ cpc[u] = "answer" /\ y \in Asks
        /\ answer' = [answer EXCEPT ![y] = hold[u].response]
        /\ cpc' = [cpc EXCEPT ![u] = "notify"]
        /\ UNCHANGED <<hold, closed>>
    BY <1>5 DEF SendAnswer
  <2>2. NewInv'
    BY <1>1, <1>2, <2>1 DEF FreshInv, NewInv, Listens
  <2>3. HoldInv'
    BY <1>1, <1>2, <2>1 DEF FreshInv, HoldInv, Listens
  <2>4. ValueInv'
    BY <1>1, <1>2, <2>1 DEF FreshInv, ValueInv, HoldInv, Listens
  <2> QED BY <1>1, <2>2, <2>3, <2>4 DEF FreshInv
<1>6. CASE CloseCancel(u)
  <2> DEFINE y == hold[u].chan
  <2>1. /\ cpc[u] = "cancel" /\ y \in Asks
        /\ closed' = [closed EXCEPT ![y] = hold[u].response]
        /\ cpc' = [cpc EXCEPT ![u] = "notify"]
        /\ UNCHANGED <<hold, answer>>
    BY <1>6 DEF CloseCancel
  <2>2. NewInv'
    BY <1>1, <1>2, <2>1 DEF FreshInv, NewInv, Listens
  <2>3. HoldInv'
    BY <1>1, <1>2, <2>1 DEF FreshInv, HoldInv, Listens
  <2>4. ValueInv'
    BY <1>1, <1>2, <2>1 DEF FreshInv, ValueInv, HoldInv, Listens
  <2> QED BY <1>1, <2>2, <2>3, <2>4 DEF FreshInv
<1>7. CASE Notify(u)
  <2>1. /\ \A v \in Clients \ {u} : hold'[v] = hold[v] /\ cpc'[v] = cpc[v]
        /\ hold'[u].chan = None /\ cpc'[u] = "idle"
        /\ UNCHANGED <<answer, closed>>
    BY <1>7 DEF Notify
  <2>2. NewInv'
    BY <1>1, <1>2, <2>1, QuestionConstants DEF FreshInv, NewInv, Listens
  <2>3. HoldInv'
    BY <1>1, <1>2, <2>1 DEF FreshInv, HoldInv, Listens
  <2>4. ValueInv'
    BY <1>1, <1>2, <2>1 DEF FreshInv, ValueInv
  <2> QED BY <1>1, <2>2, <2>3, <2>4 DEF FreshInv
<1> QED
  BY <1>3, <1>4, <1>5, <1>6, <1>7 DEF ClientStep, Delivering

\* Whatever overlaps and whatever arrives late, no Ask takes for its own what a
\* user gave before it had begun.
THEOREM ResponsesAreFresh == Spec => []ResponseIsFresh
<1>1. Init => FreshInv
  <2> SUFFICES ASSUME Init PROVE FreshInv
    OBVIOUS
  <2>1. \A a, y \in Asks : ~Takes(a, y) /\ ~Heeds(a, y)
    BY DEF Init, Takes, Heeds
  <2>2. NewInv
    BY <2>1, QuestionConstants DEF Init, NewInv, Listens
  <2>3. HoldInv /\ ValueInv
    BY <2>1 DEF Init, HoldInv, ValueInv
  <2> QED BY <2>2, <2>3 DEF Init, FreshInv
<1>2. Types /\ SlotIsLive /\ FreshInv /\ [Next]_vars => FreshInv'
  <2> SUFFICES ASSUME Types, SlotIsLive, FreshInv, [Next]_vars PROVE FreshInv'
    OBVIOUS
  <2>1. CASE UNCHANGED vars
    BY <2>1, QuietAsk DEF vars, Takes, Heeds
  <2> QED BY <2>1, AskFresh, ClientFresh DEF Next
<1>3. FreshInv => ResponseIsFresh
  BY DEF FreshInv, ResponseIsFresh
<1> QED
  BY <1>1, <1>2, <1>3, TypesKept, SlotNamesLiveAsk, PTL DEF Spec
=============================================================================
