------------------------- MODULE SessionAgentProofs -------------------------
(***************************************************************************)
(* Proofs about SessionAgent, for every value of the constants: its types, *)
(* and that no prompt is lost; where nothing summarizes, that turns are    *)
(* strictly serialized if no force kick meets a clear of the queue, and    *)
(* that no queue is orphaned; where nothing is forced, that a prompt has   *)
(* one owner; and where no turn needs a summary either, that it runs once, *)
(* and never after a Cancel that came behind it, and that the dispatcher   *)
(* implements SerialDispatch.                                              *)
(***************************************************************************)
EXTENDS SessionAgent, TLAPS

USE ConstantsOK

\* A sequence's head, tail, extensions and elements stay within its set.
LEMMA SeqFacts ==
  ASSUME NEW S, NEW s \in Seq(S), NEW e \in S
  PROVE  /\ ToSet(s) \subseteq S
         /\ Append(s, e) \in Seq(S) /\ Append(s, e) # <<>>
         /\ <<e>> \o s \in Seq(S)   /\ <<e>> \o s # <<>>
         /\ s # <<>> => Head(s) \in S /\ Tail(s) \in Seq(S)
<1>1. ToSet(s) \subseteq S
  BY DEF ToSet
<1>2. Append(s, e) \in Seq(S) /\ Append(s, e) # <<>>
  OBVIOUS
<1>3. <<e>> \o s \in Seq(S) /\ <<e>> \o s # <<>>
  OBVIOUS
<1>4. s # <<>> => Head(s) \in S /\ Tail(s) \in Seq(S)
  OBVIOUS
<1> QED BY <1>1, <1>2, <1>3, <1>4

\* The state a beginning turn writes has its types.
LEMMA BeginTurnTypes ==
  ASSUME TypeOK, NEW p \in Calls, NEW c \in Calls, BeginTurn(p, c)
  PROVE  /\ pc' \in [Procs -> CallPC \cup SummarizerPC \cup CancellerPC]
         /\ call' \in [Calls -> Calls]
         /\ busy' \in Owners \cup {None}
         /\ served' \subseteq Calls
         /\ parked' \in Calls \cup {None}
BY DEF TypeOK, BeginTurn, CallPC, Handover, Owners, Procs

\* And so does what the end of a turn writes, with a call popped or without.
LEMMA EndTurnTypes ==
  ASSUME TypeOK, NEW p \in Calls, NEW at \in CallPC, NEW idle \in CallPC,
         EndTurn(p, at, idle)
  PROVE  TypeOK'
<1> USE DEF TypeOK, Owners, Procs, Holders, Expire, history
<1>1. pc' = [pc EXCEPT ![p] = at] \/ pc' = [pc EXCEPT ![p] = idle]
  BY DEF EndTurn, PopNext
<1>2. queue # <<>> => Head(queue) \in Calls /\ Tail(queue) \in Seq(Calls)
  BY SeqFacts
<1>3. call' \in [Calls -> Calls] /\ queue' \in Seq(Calls)
  <2>1. CASE queue # <<>> /\ PopNext(p, at)
    BY <1>2, <2>1 DEF PopNext
  <2>2. CASE UNCHANGED <<queue, call>>
    BY <2>2
  <2> QED BY <2>1, <2>2 DEF EndTurn, PopNext
<1>4. pc' \in [Procs -> CallPC \cup SummarizerPC \cup CancellerPC]
  BY <1>1
<1> QED BY <1>3, <1>4 DEF EndTurn

\* The dispatcher's state keeps its types, with any prompts, cancellers,
\* summarizers and bounds.
THEOREM TypeCorrect == Spec => []TypeOK
<1> USE DEF TypeOK, Owners, Procs, Holders, CallPC, Handover, SummarizerPC,
            CancellerPC
<1>1. Init => TypeOK
  BY DEF Init
<1>2. TypeOK /\ [Next]_vars => TypeOK'
  <2> SUFFICES ASSUME TypeOK, [Next]_vars
               PROVE  TypeOK'
    OBVIOUS
  <2>1. ASSUME NEW c \in Calls, Run(c) PROVE TypeOK'
    BY <2>1 DEF Run, history
  <2>2. ASSUME NEW c \in Calls, ForceRun(c) PROVE TypeOK'
    BY <2>2 DEF ForceRun, history
  <2>3. ASSUME NEW c \in Calls, Kick(c) PROVE TypeOK'
    BY <2>3 DEF Kick, Signal, history
  <2>4. ASSUME NEW c \in Calls, AcquireOrEnqueue(c) PROVE TypeOK'
    <3>1. CASE busy = None
      <4>1. BeginTurn(c, call[c]) /\ Expire(c) /\ UNCHANGED queue
        BY <2>4, <3>1 DEF AcquireOrEnqueue
      <4> QED BY <2>4, <4>1, BeginTurnTypes DEF AcquireOrEnqueue, Expire
    <3>2. CASE busy # None
      <4>1. Append(queue, call[c]) \in Seq(Calls)
        BY SeqFacts
      <4> QED BY <2>4, <3>2, <4>1 DEF AcquireOrEnqueue, Expire
    <3> QED BY <3>1, <3>2
  <2>5. ASSUME NEW c \in Calls, AcquireFromQueue(c) PROVE TypeOK'
    <3>1. CASE busy = None /\ queue # <<>>
      <4>1. Head(queue) \in Calls /\ Tail(queue) \in Seq(Calls)
        BY <3>1, SeqFacts
      <4>2. BeginTurn(c, Head(queue))
        BY <2>5, <3>1 DEF AcquireFromQueue
      <4> QED BY <2>5, <3>1, <4>1, <4>2, BeginTurnTypes DEF AcquireFromQueue, Expire
    <3>2. CASE busy # None \/ queue = <<>>
      BY <2>5, <3>2 DEF AcquireFromQueue
    <3> QED BY <3>1, <3>2
  <2>6. ASSUME NEW c \in Calls, TurnSucceeds(c) \/ TurnKicked(c) PROVE TypeOK'
    BY <2>6, EndTurnTypes DEF TurnSucceeds, TurnKicked, Handover
  <2>7. ASSUME NEW c \in Calls, HandOver(c) PROVE TypeOK'
    BY <2>7 DEF HandOver, BeginTurn
  <2>15. ASSUME NEW c \in Calls, HandOverFails(c) PROVE TypeOK'
    <3>1. queue' \in Seq(Calls)
      BY <2>15, SeqFacts DEF HandOverFails
    <3> QED BY <2>15, <3>1 DEF HandOverFails, history
  <2>8. ASSUME NEW c \in Calls, TurnStops(c) PROVE TypeOK'
    BY <2>8 DEF TurnStops, Expire, StopDispatch
  <2>9. ASSUME NEW c \in Calls, TurnNeedsSummary(c) PROVE TypeOK'
    BY <2>9 DEF TurnNeedsSummary, Expire, history
  <2>10. ASSUME NEW c \in Calls, AppendContinuation(c) PROVE TypeOK'
    BY <2>10 DEF AppendContinuation, history
  <2>11. ASSUME NEW o \in Owners, SummarizeStep(o) PROVE TypeOK'
    BY <2>11 DEF SummarizeStep, SummarizeCheck, SummarizeGivesUp, SummarizeRegister,
                 SummarizeEnds, SummarizeReturns, StopDispatch, Expire, history
  <2>12. ASSUME NEW k \in Cancellers, CancelFetch(k) \/ CancelSignal(k) PROVE TypeOK'
    BY <2>12 DEF CancelFetch, CancelSignal, Signal, history
  <2>13. ASSUME NEW k \in Cancellers, CancelCheck(k) \/ CancelClear(k) PROVE TypeOK'
    <3>1. ToSet(queue) \subseteq Calls
      BY DEF ToSet
    <3>2. CASE CancelCheck(k)
      BY <3>1, <3>2 DEF CancelCheck, Accepted
    <3>3. CASE CancelClear(k)
      <4>1. queue' = <<>> /\ <<>> \in Seq(Calls)
        BY <3>3 DEF CancelClear, DropQueue
      <4> QED BY <3>1, <3>3, <4>1 DEF CancelClear, DropQueue, Accepted
    <3> QED BY <2>13, <3>2, <3>3
  <2>16. ASSUME NEW k \in Cancellers, ClearQueue(k) \/ ClearQueueDrops(k) PROVE TypeOK'
    <3>1. ToSet(queue) \subseteq Calls
      BY DEF ToSet
    <3>2. CASE ClearQueue(k)
      BY <3>2 DEF ClearQueue, history
    <3>3. CASE ClearQueueDrops(k)
      BY <3>1, <3>3 DEF ClearQueueDrops, DropQueue
    <3> QED BY <2>16, <3>2, <3>3
  <2>14. CASE UNCHANGED vars
    BY <2>14 DEF vars
  <2> QED
    BY <2>1, <2>2, <2>3, <2>4, <2>5, <2>6, <2>7, <2>8, <2>9, <2>10, <2>11, <2>12,
       <2>13, <2>14, <2>15, <2>16
    DEF Next, DispatchStep, CancelStep, Idle
<1> QED
  BY <1>1, <1>2, PTL DEF Spec

-----------------------------------------------------------------------------
\* The end of a turn keeps DispatchInv: the kicks aimed at the turn are spent.
LEMMA EndTurnKeepsInv ==
  ASSUME TypeOK, DispatchInv, Undisturbed, NEW p \in Calls, pc[p] = "turn",
         NEW at \in {"next", "kicked"}, NEW idle, EndTurn(p, at, idle),
         idle = "done" \/ queue # <<>>
  PROVE  DispatchInv'
<1> USE DEF TypeOK, Undisturbed, Owners, Procs, Holders, Handover
<1>1. busy = p /\ busy' = None /\ RunMuFree
  BY DEF EndTurn, DispatchInv
<1>2. pc' = [pc EXCEPT ![p] = at] \/ pc' = [pc EXCEPT ![p] = "done"]
  BY DEF EndTurn, PopNext
<1>3. \A q \in Calls : cause'[q] # "kick"
  BY <1>1 DEF EndTurn, Expire, DispatchInv
<1>4. \A f \in Forced : target'[f] = None
  BY <1>1 DEF EndTurn, Expire, DispatchInv
<1>5. \A q \in Calls : pc'[q] \in {"new", "kick", "enter", "turn", "next", "kicked", "done"}
  BY <1>2 DEF DispatchInv
<1>6. \A q \in Calls : pc'[q] # "turn"
  BY <1>1, <1>2 DEF DispatchInv
<1>7. \A q, r \in Calls : pc'[q] \in Handover /\ pc'[r] \in Handover => q = r
  BY <1>1, <1>2 DEF RunMuFree
<1>8. \A q \in Calls : pc'[q] = "kick" => q \in Forced
  BY <1>2 DEF DispatchInv
<1> QED
  BY <1>1, <1>3, <1>4, <1>5, <1>6, <1>7, <1>8 DEF DispatchInv

LEMMA DispatchInvariant == ASSUME Undisturbed PROVE Spec => []DispatchInv
<1> USE DEF Undisturbed, Owners, Procs, Holders, Handover
<1>1. Init => DispatchInv
  BY DEF Init, DispatchInv
<1>2. TypeOK /\ DispatchInv /\ [Next]_vars => DispatchInv'
  <2> SUFFICES ASSUME TypeOK, DispatchInv, [Next]_vars
               PROVE  DispatchInv'
    OBVIOUS
  <2> USE DEF TypeOK, DispatchInv
  <2>1. ASSUME NEW c \in Calls, Run(c) PROVE DispatchInv'
    BY <2>1 DEF Run, history
  <2>2. ASSUME NEW c \in Calls, ForceRun(c) PROVE DispatchInv'
    <3>1. queue' # <<>>
      BY <2>2, SeqFacts DEF ForceRun
    <3> QED BY <2>2, <3>1 DEF ForceRun, history
  <2>3. ASSUME NEW c \in Calls, Kick(c) PROVE DispatchInv'
    BY <2>3 DEF Kick, Signal, history
  <2>4. ASSUME NEW c \in Calls, AcquireOrEnqueue(c) PROVE DispatchInv'
    <3>1. CASE busy = None
      BY <2>4, <3>1 DEF AcquireOrEnqueue, BeginTurn, Expire, RunMuFree
    <3>2. CASE busy # None
      <4>1. queue' # <<>>
        BY <2>4, <3>2, SeqFacts DEF AcquireOrEnqueue
      <4>2. pc[c] = "enter" /\ pc' = [pc EXCEPT ![c] = "done"] /\ UNCHANGED <<busy, cause, target>>
        BY <2>4, <3>2 DEF AcquireOrEnqueue
      <4> QED BY <4>1, <4>2
    <3> QED BY <3>1, <3>2
  <2>5. ASSUME NEW c \in Calls,
               AcquireFromQueue(c) \/ TurnNeedsSummary(c) \/ AppendContinuation(c)
        PROVE  DispatchInv'
    BY <2>5 DEF AcquireFromQueue, TurnNeedsSummary, AppendContinuation
  <2>6. ASSUME NEW c \in Calls, TurnSucceeds(c) \/ TurnKicked(c) PROVE DispatchInv'
    <3>1. \/ pc[c] = "turn" /\ EndTurn(c, "next", "done")
          \/ pc[c] = "turn" /\ queue # <<>> /\ EndTurn(c, "kicked", "gap")
      BY <2>6 DEF TurnSucceeds, TurnKicked
    <3> QED BY <3>1, EndTurnKeepsInv
  <2>7. ASSUME NEW c \in Calls, HandOver(c) \/ HandOverFails(c) PROVE DispatchInv'
    <3>1. BeginTurn(c, call[c]) /\ UNCHANGED <<queue, cause, target>> /\ pc[c] \in Handover
      BY <2>7 DEF HandOver, HandOverFails, Handover
    <3>2. /\ \A q \in Calls : cause[q] # "kick" /\ pc[q] # "turn"
          /\ \A f \in Forced : target[f] = None
      BY <3>1
    <3> QED BY <3>1, <3>2 DEF BeginTurn, Handover
  <2>8. ASSUME NEW c \in Calls, TurnStops(c) PROVE DispatchInv'
    <3>1. \A q \in Calls : cause'[q] # "kick"
      BY <2>8 DEF TurnStops, Expire
    <3>2. \A f \in Forced : target'[f] = None
      BY <2>8 DEF TurnStops, Expire
    <3> QED BY <2>8, <3>1, <3>2 DEF TurnStops, StopDispatch
  <2>9. ASSUME NEW o \in Owners, SummarizeStep(o) PROVE DispatchInv'
    BY <2>9 DEF SummarizeStep, SummarizeCheck, SummarizeGivesUp, SummarizeRegister,
                SummarizeEnds
  <2>10. ASSUME NEW k \in Cancellers, CancelFetch(k) \/ CancelSignal(k)
         PROVE  DispatchInv'
    BY <2>10, ConstantsOK DEF CancelFetch, CancelSignal, Signal, history
  <2>11. ASSUME NEW k \in Cancellers,
                CancelCheck(k) \/ CancelClear(k) \/ ClearQueue(k) \/ ClearQueueDrops(k)
         PROVE  DispatchInv'
    BY <2>11 DEF CancelCheck, CancelClear, ClearQueue, ClearQueueDrops, DropQueue, history
  <2>12. CASE UNCHANGED vars
    BY <2>12 DEF vars
  <2> QED
    BY <2>1, <2>2, <2>3, <2>4, <2>5, <2>6, <2>7, <2>8, <2>9, <2>10, <2>11, <2>12
    DEF Next, DispatchStep, CancelStep, Idle
<1> QED
  BY <1>1, <1>2, TypeCorrect, PTL DEF Spec

\* Run "executes a prompt as one or more strictly serialized turns": with no
\* summaries, and with forced calls or cancels but not both, no two
\* goroutines stream for the session at once, for any number of prompts.
THEOREM Serialized == ASSUME Undisturbed PROVE Spec => []TurnsSerialized
<1>1. Undisturbed /\ TypeOK /\ DispatchInv => TurnsSerialized
  BY DEF Undisturbed, DispatchInv, TurnsSerialized, Owners
<1> QED
  BY <1>1, DispatchInvariant, TypeCorrect, PTL

-----------------------------------------------------------------------------
(* No prompt is lost, whatever the prompts, cancellers and summarizers are *)

\* The elements of a sequence that grows at its end.
LEMMA AppendSet ==
  ASSUME NEW S, NEW s \in Seq(S), NEW e \in S
  PROVE  ToSet(Append(s, e)) = ToSet(s) \cup {e}
<1>1. \A i \in 1..Len(s) : Append(s, e)[i] = s[i]
  OBVIOUS
<1>2. Len(Append(s, e)) = Len(s) + 1 /\ Append(s, e)[Len(s) + 1] = e
  OBVIOUS
<1>3. DOMAIN s = 1..Len(s) /\ DOMAIN Append(s, e) = 1..(Len(s) + 1)
  OBVIOUS
<1> QED BY <1>1, <1>2, <1>3 DEF ToSet

\* The elements of a sequence that grows at either end or loses its head.
LEMMA ToSetFacts ==
  ASSUME NEW S, NEW s \in Seq(S), NEW e \in S
  PROVE  /\ ToSet(<<>>) = {}
         /\ ToSet(Append(s, e)) = ToSet(s) \cup {e}
         /\ ToSet(<<e>> \o s) = ToSet(s) \cup {e}
         /\ s # <<>> => ToSet(s) = ToSet(Tail(s)) \cup {Head(s)}
<1>1. ToSet(<<>>) = {}
  BY DEF ToSet
<1>2. ToSet(Append(s, e)) = ToSet(s) \cup {e}
  BY AppendSet
<1>3. ToSet(<<e>> \o s) = ToSet(s) \cup {e}
  <2> DEFINE t == <<e>> \o s
  <2>1. t[1] = e /\ \A i \in 1..Len(s) : t[i + 1] = s[i]
    OBVIOUS
  <2>2. DOMAIN s = 1..Len(s) /\ DOMAIN t = 1..(Len(s) + 1)
    OBVIOUS
  <2>3. ASSUME NEW i \in 1..(Len(s) + 1) PROVE t[i] \in ToSet(s) \cup {e}
    <3>1. i = 1 \/ i - 1 \in 1..Len(s)
      OBVIOUS
    <3> QED BY <2>1, <2>2, <3>1 DEF ToSet
  <2>4. ASSUME NEW i \in 1..Len(s) PROVE s[i] \in ToSet(t)
    <3>1. i + 1 \in DOMAIN t
      BY <2>2
    <3> QED BY <2>1, <3>1 DEF ToSet
  <2>5. e \in ToSet(t)
    BY <2>1, <2>2 DEF ToSet
  <2> QED BY <2>2, <2>3, <2>4, <2>5 DEF ToSet
<1>4. s # <<>> => ToSet(s) = ToSet(Tail(s)) \cup {Head(s)}
  <2> SUFFICES ASSUME s # <<>> PROVE ToSet(s) = ToSet(Tail(s)) \cup {Head(s)}
    OBVIOUS
  <2> DEFINE t == Tail(s)
  <2>1. Head(s) = s[1] /\ Len(s) \in Nat \ {0} /\ DOMAIN s = 1..Len(s)
    OBVIOUS
  <2>2. DOMAIN t = 1..(Len(s) - 1) /\ \A i \in 1..(Len(s) - 1) : t[i] = s[i + 1]
    OBVIOUS
  <2>3. ASSUME NEW i \in 1..Len(s) PROVE s[i] \in ToSet(t) \cup {Head(s)}
    <3>1. i = 1 \/ (i - 1 \in 1..(Len(s) - 1) /\ t[i - 1] = s[i])
      BY <2>1, <2>2
    <3> QED BY <2>1, <2>2, <3>1 DEF ToSet
  <2>4. ASSUME NEW i \in 1..(Len(s) - 1) PROVE t[i] \in ToSet(s)
    <3>1. i + 1 \in DOMAIN s
      BY <2>1
    <3> QED BY <2>2, <3>1 DEF ToSet
  <2>5. Head(s) \in ToSet(s)
    BY <2>1 DEF ToSet
  <2> QED BY <2>1, <2>2, <2>3, <2>4, <2>5 DEF ToSet
<1> QED BY <1>1, <1>2, <1>3, <1>4

\* What a goroutine of Run carries is a prompt, and can be enqueued.
LEMMA EnqueueFacts ==
  ASSUME TypeOK, NEW p \in Calls
  PROVE  ToSet(Append(queue, call[p])) = ToSet(queue) \cup {call[p]}
<1>1. queue \in Seq(Calls) /\ call[p] \in Calls
  BY DEF TypeOK
<1> QED BY <1>1, AppendSet

\* The prompts that have come further than the hands of their own goroutine.
Kept == ToSet(queue) \cup served \cup cleared

\* Where the prompts are: kept, about to be enqueued by their own goroutine,
\* popped for the turn that comes next, or lost by a dispatcher that slipped.
Located(c) ==
    \/ c \in Kept \cup slipped
    \/ pc[c] = "enter" /\ call[c] = c
    \/ \E p \in Calls : pc[p] \in Handover /\ call[p] = c

CallInv ==
    /\ \A c \in Calls : pc[c] = "new" => call[c] = c
    /\ \A c \in Calls : pc[c] # "new" => Located(c)

\* A step that leaves the calls where they are carried keeps CallInv.
LEMMA LocatedStays ==
  ASSUME TypeOK, CallInv, UNCHANGED call, Kept \subseteq Kept', slipped \subseteq slipped',
         NEW p \in Procs, NEW at, pc' = [pc EXCEPT ![p] = at], at # "new",
         pc[p] \notin {"new", "enter"} \cup Handover \/ (p \in Calls /\ call[p] \in (Kept \cup slipped)')
  PROVE  CallInv'
<1>1. \A c \in Calls : pc'[c] = IF c = p THEN at ELSE pc[c]
  BY DEF TypeOK, Procs, Owners
<1>2. ASSUME NEW c \in Calls, pc'[c] # "new", pc[c] # "new" PROVE Located(c)'
  <2>1. CASE c \in Kept \cup slipped
    BY <2>1 DEF Located
  <2>2. CASE pc[c] = "enter" /\ call[c] = c
    BY <1>1, <2>2 DEF Located
  <2>3. CASE \E q \in Calls : pc[q] \in Handover /\ call[q] = c
    BY <1>1, <2>3 DEF Located
  <2> QED BY <1>2, <2>1, <2>2, <2>3 DEF CallInv, Located
<1>3. ASSUME NEW c \in Calls, pc'[c] # "new", pc[c] = "new" PROVE Located(c)'
  BY <1>1, <1>3 DEF CallInv, Located
<1> QED BY <1>1, <1>2, <1>3 DEF CallInv

\* A dispatcher that takes the queue's head has it in its turn, or in its hands.
LEMMA PopLocates ==
  ASSUME TypeOK, CallInv, NEW p \in Calls, NEW at \in {"turn"} \cup Handover,
         pc[p] \notin {"new", "enter"} \cup Handover, queue # <<>>, queue' = Tail(queue),
         pc' = [pc EXCEPT ![p] = at], call' = [call EXCEPT ![p] = Head(queue)],
         served \subseteq served', UNCHANGED <<cleared, slipped>>,
         at = "turn" => Head(queue) \in served'
  PROVE  CallInv'
<1>0. PICK h \in Calls : h = Head(queue)
  BY SeqFacts DEF TypeOK
<1>2. ToSet(queue) = ToSet(queue') \cup {h}
  BY <1>0, ToSetFacts DEF TypeOK
<1>3. \A c \in Calls : pc'[c] = (IF c = p THEN at ELSE pc[c])
                       /\ call'[c] = (IF c = p THEN h ELSE call[c])
  BY <1>0 DEF TypeOK, Procs, Owners
<1>4. Located(h)'
  <2>1. CASE at = "turn"
    BY <1>0, <2>1 DEF Located, Kept
  <2>2. CASE at \in Handover
    BY <1>3, <2>2 DEF Located
  <2> QED BY <2>1, <2>2
<1>5. ASSUME NEW c \in Calls, c # h, pc'[c] # "new" PROVE Located(c)'
  <2>1. pc[c] # "new" /\ Located(c)
    BY <1>3, <1>5 DEF CallInv
  <2>2. CASE c \in Kept \cup slipped
    BY <1>2, <1>5, <2>2 DEF Located, Kept
  <2>3. CASE pc[c] = "enter" /\ call[c] = c
    BY <1>3, <2>3 DEF Located
  <2>4. CASE \E q \in Calls : pc[q] \in Handover /\ call[q] = c
    BY <1>3, <2>4 DEF Located
  <2> QED BY <2>1, <2>2, <2>3, <2>4 DEF Located
<1>6. \A c \in Calls : pc'[c] = "new" => call'[c] = c
  BY <1>3 DEF CallInv, Handover
<1> QED BY <1>4, <1>5, <1>6 DEF CallInv

LEMMA EndTurnLocates ==
  ASSUME TypeOK, CallInv, NEW p \in Calls, pc[p] \in {"turn", "gap"},
         NEW at \in Handover, NEW idle \in {"gap", "done"}, EndTurn(p, at, idle)
  PROVE  CallInv'
<1>1. CASE queue # <<>>
  <2>1. PopNext(p, at) /\ UNCHANGED <<served, cleared, slipped>>
    BY <1>1 DEF EndTurn, history
  <2> QED BY <1>1, <2>1, PopLocates DEF PopNext, Handover
<1>2. CASE queue = <<>>
  <2>1. pc' = [pc EXCEPT ![p] = idle] /\ UNCHANGED <<call, queue, served, cleared, slipped>>
    BY <1>2 DEF EndTurn, PopNext, history
  <2> QED BY <2>1, LocatedStays DEF Kept, Handover, Procs, Owners
<1> QED BY <1>1, <1>2

\* Whatever the other goroutines do, a submitted prompt is queued, carried by a
\* goroutine of Run, has had its turn, or was cleared by a user; or a dispatcher
\* that had been kicked popped it without the busy entry.
THEOREM NothingLost == Spec => []NoLostCall
<1> USE DEF Owners, Procs
<1>1. Init => CallInv
  BY DEF Init, CallInv
<1>2. TypeOK /\ CallInv /\ [Next]_vars => CallInv'
  <2> SUFFICES ASSUME TypeOK, CallInv, [Next]_vars
               PROVE  CallInv'
    OBVIOUS
  <2> USE DEF TypeOK
  <2>1. ASSUME NEW c \in Calls, Run(c) PROVE CallInv'
    BY <2>1 DEF Run, CallInv, Located, Kept, Handover, history
  <2>2. ASSUME NEW c \in Calls, ForceRun(c) PROVE CallInv'
    <3>1. ToSet(queue') = ToSet(queue) \cup {c}
      BY <2>2, ToSetFacts DEF ForceRun
    <3>2. call[c] = c
      BY <2>2 DEF ForceRun, CallInv
    <3>3. \E at \in {"kick", "enter"} : pc' = [pc EXCEPT ![c] = at]
      BY <2>2 DEF ForceRun
    <3> QED BY <2>2, <3>1, <3>2, <3>3, LocatedStays DEF ForceRun, Kept, history
  <2>3. ASSUME NEW c \in Calls, Kick(c) PROVE CallInv'
    BY <2>3, LocatedStays DEF Kick, Kept, Handover, history
  <2>4. ASSUME NEW c \in Calls, AcquireOrEnqueue(c) PROVE CallInv'
    <3>1. CASE busy = None
      <4>1. /\ pc' = [pc EXCEPT ![c] = "turn"] /\ call' = call
            /\ served' = served \cup {call[c]} /\ UNCHANGED <<queue, cleared, slipped>>
        BY <2>4, <3>1 DEF AcquireOrEnqueue, BeginTurn
      <4> QED BY <4>1, LocatedStays DEF Kept
    <3>2. CASE busy # None
      <4>1. ToSet(queue') = ToSet(queue) \cup {call[c]}
        <5>1. queue' = Append(queue, call[c])
          BY <2>4, <3>2 DEF AcquireOrEnqueue
        <5> QED BY <5>1, EnqueueFacts
      <4> QED BY <2>4, <3>2, <4>1, LocatedStays DEF AcquireOrEnqueue, Kept
    <3> QED BY <3>1, <3>2
  <2>5. ASSUME NEW c \in Calls, AcquireFromQueue(c) PROVE CallInv'
    <3>1. CASE busy = None /\ queue # <<>>
      BY <2>5, <3>1, PopLocates DEF AcquireFromQueue, BeginTurn, Handover
    <3>2. CASE busy # None \/ queue = <<>>
      BY <2>5, <3>2, LocatedStays DEF AcquireFromQueue, Kept, Handover
    <3> QED BY <3>1, <3>2
  <2>6. ASSUME NEW c \in Calls, TurnSucceeds(c) \/ TurnKicked(c) PROVE CallInv'
    BY <2>6, EndTurnLocates DEF TurnSucceeds, TurnKicked, Handover
  <2>7. ASSUME NEW c \in Calls, HandOver(c) PROVE CallInv'
    <3>1. \E at \in {"turn", "enter", "resume"} : pc' = [pc EXCEPT ![c] = at]
      BY <2>7 DEF HandOver, BeginTurn
    <3>2. call' = call /\ call[c] \in (Kept \cup slipped)'
      BY <2>7 DEF HandOver, BeginTurn, Kept
    <3>3. Kept \subseteq Kept' /\ slipped \subseteq slipped'
      BY <2>7 DEF HandOver, BeginTurn, Kept
    <3> QED BY <3>1, <3>2, <3>3, LocatedStays
  <2>8. ASSUME NEW c \in Calls, HandOverFails(c) PROVE CallInv'
    <3>1. ToSet(queue') = ToSet(queue) \cup {call[c]}
      BY <2>8, ToSetFacts DEF HandOverFails
    <3>2. \E at \in {"gap", "done"} : pc' = [pc EXCEPT ![c] = at]
      BY <2>8 DEF HandOverFails
    <3> QED BY <2>8, <3>1, <3>2, LocatedStays DEF HandOverFails, Kept, history
  <2>9. ASSUME NEW c \in Calls, TurnStops(c) \/ TurnNeedsSummary(c) PROVE CallInv'
    BY <2>9, LocatedStays
    DEF TurnStops, StopDispatch, TurnNeedsSummary, Kept, Handover, history
  <2>10. ASSUME NEW c \in Calls, AppendContinuation(c) PROVE CallInv'
    <3>1. ToSet(queue') = ToSet(queue) \cup {call[c]}
      BY <2>10, EnqueueFacts DEF AppendContinuation
    <3> QED BY <2>10, <3>1, LocatedStays DEF AppendContinuation, Kept, history, Handover
  <2>11. ASSUME NEW o \in Owners, SummarizeStep(o) PROVE CallInv'
    <3>1. /\ pc[o] \in {"check", "set", "summarize"}
          /\ UNCHANGED <<call, queue, served, cleared, slipped>>
      BY <2>11 DEF SummarizeStep, SummarizeCheck, SummarizeGivesUp, SummarizeRegister,
                   SummarizeEnds, history
    <3>2. \E at \in {"set", "summarize", "done", "enter", "append", "resume"} :
             pc' = [pc EXCEPT ![o] = at]
      BY <2>11 DEF SummarizeStep, SummarizeCheck, SummarizeGivesUp, SummarizeRegister,
                   SummarizeEnds, SummarizeReturns, StopDispatch
    <3> QED BY <3>1, <3>2, LocatedStays DEF Kept, Handover
  <2>12. ASSUME NEW k \in Cancellers, CancelStep(k) \/ CancelFetch(k) \/ ClearQueue(k)
         PROVE  CallInv'
    <3>1. UNCHANGED call /\ slipped' = slipped /\ \A c \in Calls : pc'[c] = pc[c]
      BY <2>12, ConstantsOK
      DEF CancelStep, CancelFetch, CancelSignal, CancelCheck, CancelClear, ClearQueue,
          ClearQueueDrops, history
    <3>2. Kept \subseteq Kept'
      BY <2>12 DEF CancelStep, CancelFetch, CancelSignal, CancelCheck, CancelClear,
                   ClearQueue, ClearQueueDrops, DropQueue, Kept, history
    <3> QED BY <3>1, <3>2 DEF CallInv, Located
  <2>13. CASE UNCHANGED vars
    BY <2>13 DEF vars, CallInv, Located, Kept
  <2> QED
    BY <2>1, <2>2, <2>3, <2>4, <2>5, <2>6, <2>7, <2>8, <2>9, <2>10, <2>11, <2>12,
       <2>13
    DEF Next, DispatchStep, Idle
<1>3. TypeOK /\ CallInv => NoLostCall
  BY DEF CallInv, Located, Kept, NoLostCall, Holds
<1> QED
  BY <1>1, <1>2, <1>3, TypeCorrect, PTL DEF Spec

-----------------------------------------------------------------------------
(* Somebody starts a queued prompt *)

\* The inductive invariant behind NoOrphanedQueue: until a dispatcher slips, the
\* busy entry belongs to a goroutine that is in its turn or summarizes.
QueueInv ==
    slipped = {} =>
        /\ busy # None => busy \in Calls /\ pc[busy] \in {"turn", "summarize"}
        /\ queue # <<>> => Dispatching # {} \/ parked # None

\* A queued prompt has somebody to start it, if Summarize is only called by the
\* dispatchers and none of them has slipped: the entry of an outside Summarize
\* keeps prompts waiting that nobody comes back for.
THEOREM NothingOrphaned ==
  ASSUME Summarizers = {}
  PROVE  Spec => []NoOrphanedQueue
<1> USE DEF Owners, Procs, Dispatching, CallPC, Handover
<1>1. Init => QueueInv
  BY DEF Init, QueueInv
<1>2. TypeOK /\ QueueInv /\ [Next]_vars => QueueInv'
  <2> SUFFICES ASSUME TypeOK, QueueInv, [Next]_vars
               PROVE  QueueInv'
    OBVIOUS
  <2> USE DEF TypeOK, QueueInv
  <2>1. ASSUME NEW c \in Calls, NEW e, BeginTurn(c, e), UNCHANGED slipped PROVE QueueInv'
    BY <2>1 DEF BeginTurn
  <2>2. ASSUME NEW c \in Calls, StopDispatch(c), UNCHANGED <<queue, slipped>>,
               busy' = None \/ (busy' = busy /\ busy # c)
        PROVE  QueueInv'
    BY <2>2, ConstantsOK DEF StopDispatch
  <2>3. ASSUME NEW c \in Calls, Run(c) \/ ForceRun(c) \/ Kick(c) PROVE QueueInv'
    BY <2>3 DEF Run, ForceRun, Kick, history
  <2>4. ASSUME NEW c \in Calls, AcquireOrEnqueue(c) PROVE QueueInv'
    BY <2>1, <2>4 DEF AcquireOrEnqueue
  <2>5. ASSUME NEW c \in Calls, AcquireFromQueue(c) PROVE QueueInv'
    BY <2>1, <2>5 DEF AcquireFromQueue
  <2>6. ASSUME NEW c \in Calls, TurnSucceeds(c) \/ TurnKicked(c) PROVE QueueInv'
    <3>1. /\ busy' = None /\ UNCHANGED slipped
          /\ queue = <<>> => UNCHANGED queue
          /\ queue # <<>> => pc' \in {[pc EXCEPT ![c] = at] : at \in Handover}
      BY <2>6 DEF TurnSucceeds, TurnKicked, EndTurn, PopNext, history
    <3> QED BY <3>1
  <2>7. ASSUME NEW c \in Calls, HandOver(c) \/ HandOverFails(c) PROVE QueueInv'
    BY <2>1, <2>7 DEF HandOver, HandOverFails, history
  <2>8. ASSUME NEW c \in Calls, TurnStops(c) PROVE QueueInv'
    BY <2>2, <2>8 DEF TurnStops
  <2>9. ASSUME NEW c \in Calls, TurnNeedsSummary(c) \/ AppendContinuation(c)
        PROVE  QueueInv'
    BY <2>9 DEF TurnNeedsSummary, AppendContinuation, history
  <2>10. ASSUME NEW c \in Calls, NEW ok \in BOOLEAN, SummarizeReturns(c, ok),
                UNCHANGED <<queue, slipped>>, pc[c] \in {"check", "set", "summarize"},
                busy' = None \/ (busy' = busy /\ pc[c] # "summarize")
         PROVE  QueueInv'
    <3>1. busy' = None \/ slipped # {} \/ (busy' = busy /\ busy # c)
      BY <2>10, ConstantsOK
    <3>2. CASE ok
      BY <2>10, <3>1, <3>2 DEF SummarizeReturns
    <3>3. CASE ~ok
      BY <2>2, <2>10, <3>1, <3>3 DEF SummarizeReturns
    <3> QED BY <3>2, <3>3
  <2>11. ASSUME NEW c \in Calls, SummarizeStep(c) PROVE QueueInv'
    <3>1. CASE SummarizeCheck(c)
      BY <2>10, <3>1 DEF SummarizeCheck
    <3>2. CASE SummarizeGivesUp(c)
      BY <2>10, <3>2 DEF SummarizeGivesUp
    <3>3. CASE SummarizeRegister(c)
      BY <3>3 DEF SummarizeRegister, history
    <3>4. CASE SummarizeEnds(c)
      BY <2>10, <3>4 DEF SummarizeEnds
    <3> QED BY <2>11, <3>1, <3>2, <3>3, <3>4 DEF SummarizeStep
  <2>12. ASSUME NEW k \in Cancellers, CancelStep(k) \/ CancelFetch(k) \/ ClearQueue(k)
         PROVE  QueueInv'
    BY <2>12, ConstantsOK
    DEF CancelStep, CancelFetch, CancelSignal, CancelCheck, CancelClear, ClearQueue,
        ClearQueueDrops, DropQueue, history
  <2>13. CASE UNCHANGED vars
    BY <2>13 DEF vars
  <2> QED
    BY <2>3, <2>4, <2>5, <2>6, <2>7, <2>8, <2>9, <2>11, <2>12, <2>13
    DEF Next, DispatchStep, Idle
<1>3. TypeOK /\ QueueInv => NoOrphanedQueue
  BY DEF QueueInv, NoOrphanedQueue
<1> QED
  BY <1>1, <1>2, <1>3, TypeCorrect, PTL DEF Spec

-----------------------------------------------------------------------------
(* One turn for each prompt *)

\* A sequence without repetitions stays so when it loses its head, and the head
\* is gone; and when it grows by something new.
LEMMA PopInjective ==
  ASSUME NEW S, NEW s \in Seq(S), s # <<>>, IsInjective(s)
  PROVE  IsInjective(Tail(s)) /\ Head(s) \notin ToSet(Tail(s))
<1> DEFINE t == Tail(s)
<1>1. Head(s) = s[1] /\ Len(s) \in Nat \ {0} /\ DOMAIN s = 1..Len(s)
  OBVIOUS
<1>2. DOMAIN t = 1..(Len(s) - 1) /\ \A i \in 1..(Len(s) - 1) : t[i] = s[i + 1]
  OBVIOUS
<1>3. \A i, j \in 1..Len(s) : s[i] = s[j] => i = j
  BY <1>1 DEF IsInjective
<1>4. ASSUME NEW i \in DOMAIN t, NEW j \in DOMAIN t, t[i] = t[j] PROVE i = j
  <2>1. s[i + 1] = s[j + 1] /\ i + 1 \in 1..Len(s) /\ j + 1 \in 1..Len(s)
    BY <1>1, <1>2, <1>4
  <2>2. i + 1 = j + 1
    BY <1>3, <2>1
  <2> QED BY <1>1, <1>2, <2>2
<1>5. ASSUME NEW i \in DOMAIN t PROVE t[i] # Head(s)
  <2>1. t[i] = s[i + 1] /\ i + 1 \in 1..Len(s) /\ i + 1 # 1 /\ 1 \in 1..Len(s)
    BY <1>1, <1>2
  <2> QED BY <1>1, <1>3, <2>1
<1> QED BY <1>4, <1>5 DEF IsInjective, ToSet

LEMMA GrowInjective ==
  ASSUME NEW S, NEW s \in Seq(S), NEW e \in S,
         IsInjective(s), \A i \in 1..Len(s) : s[i] # e
  PROVE  IsInjective(Append(s, e))
<1> DEFINE t == Append(s, e)
<1>1. DOMAIN s = 1..Len(s) /\ DOMAIN t = 1..(Len(s) + 1) /\ Len(s) \in Nat
  OBVIOUS
<1>2. t[Len(s) + 1] = e /\ \A i \in 1..Len(s) : t[i] = s[i]
  OBVIOUS
<1>3. \A i, j \in 1..Len(s) : s[i] = s[j] => i = j
  BY <1>1 DEF IsInjective
<1>4. ASSUME NEW i \in 1..(Len(s) + 1), NEW j \in 1..(Len(s) + 1), t[i] = t[j]
      PROVE  i = j
  BY <1>1, <1>2, <1>3, <1>4
<1>5. \A i, j \in DOMAIN t : t[i] = t[j] => i = j
  BY <1>1, <1>4
<1> HIDE DEF t
<1>6. IsInjective(t)
  BY <1>5 DEF IsInjective
<1> QED BY <1>6 DEF t

LEMMA PrependInjective ==
  ASSUME NEW S, NEW s \in Seq(S), NEW e \in S,
         IsInjective(s), \A i \in 1..Len(s) : s[i] # e
  PROVE  IsInjective(<<e>> \o s)
<1> DEFINE t == <<e>> \o s
<1>1. DOMAIN s = 1..Len(s) /\ DOMAIN t = 1..(Len(s) + 1) /\ Len(s) \in Nat
  OBVIOUS
<1>2. t[1] = e /\ \A i \in 1..Len(s) : t[i + 1] = s[i]
  OBVIOUS
<1>3. \A i, j \in 1..Len(s) : s[i] = s[j] => i = j
  BY <1>1 DEF IsInjective
<1> HIDE DEF t
<1>4. ASSUME NEW i \in 1..(Len(s) + 1), NEW j \in 1..(Len(s) + 1), t[i] = t[j]
      PROVE  i = j
  <2>1. i = 1 \/ (i - 1 \in 1..Len(s) /\ t[i] = s[i - 1])
    BY <1>1, <1>2
  <2>2. j = 1 \/ (j - 1 \in 1..Len(s) /\ t[j] = s[j - 1])
    BY <1>1, <1>2
  <2> QED BY <1>1, <1>2, <1>3, <1>4, <2>1, <2>2
<1>5. IsInjective(t)
  BY <1>1, <1>4 DEF IsInjective
<1> QED BY <1>5 DEF t

\* The same of the queue, when a prompt that is not in it is enqueued.
LEMMA EnqueueInjective ==
  ASSUME NEW c \in Calls, queue \in Seq(Calls), IsInjective(queue),
         \A i \in 1..Len(queue) : queue[i] # c
  PROVE  IsInjective(Append(queue, c))
BY GrowInjective

\* Prompts are only queued once and no interrupted prompt is continued.
OnceEach == Forced = {} /\ ~AutoSummarize

\* A prompt is in one place: with its own goroutine until it is enqueued or
\* served, in the queue once, in the hands of the one dispatcher that is between
\* two turns, or served; what a Cancel revoked or a clear took is not queued.
OwnerInv ==
    /\ \A p \in Calls : pc[p] \in {"new", "enter", "turn", "next", "done"} /\ cause[p] # "kick"
    /\ \A p \in Calls :
          pc[p] \in {"new", "enter"} =>
             call[p] = p /\ p \notin ToSet(queue) \cup served \cup revoked \cup cleared
    /\ \A p \in Calls : pc[p] = "turn" => call[p] \in served
    /\ \A p \in Calls : pc[p] = "next" =>
          call[p] \notin ToSet(queue) \cup served \cup revoked \cup cleared
    /\ \A p, q \in Calls : pc[p] = "turn" /\ pc[q] = "turn" /\ call[p] = call[q] => p = q
    /\ \A p, q \in Calls : pc[p] = "next" /\ pc[q] = "next" => p = q
    /\ \A p, q \in Calls : pc[p] = "next" /\ pc[q] \in {"new", "enter"} => call[p] # q
    /\ IsInjective(queue)
    /\ ToSet(queue) \cap (served \cup revoked \cup cleared) = {}

\* What a step that takes the queue's head may rely on.
LEMMA PopOwner ==
  ASSUME TypeOK, OwnerInv, queue # <<>>
  PROVE  /\ Head(queue) \in Calls /\ Head(queue) \notin served \cup revoked \cup cleared
         /\ IsInjective(Tail(queue))
         /\ ToSet(queue) = ToSet(Tail(queue)) \cup {Head(queue)}
         /\ Head(queue) \notin ToSet(Tail(queue))
<1>1. queue \in Seq(Calls) /\ Head(queue) \in Calls
  BY SeqFacts DEF TypeOK
<1>2. ToSet(queue) = ToSet(Tail(queue)) \cup {Head(queue)}
  BY <1>1, ToSetFacts
<1>3. IsInjective(Tail(queue)) /\ Head(queue) \notin ToSet(Tail(queue))
  BY <1>1, PopInjective DEF OwnerInv
<1> QED BY <1>1, <1>2, <1>3 DEF OwnerInv

LEMMA EndTurnKeepsOwner ==
  ASSUME TypeOK, OwnerInv, NEW p \in Calls, pc[p] = "turn", EndTurn(p, "next", "done")
  PROVE  OwnerInv'
<1> USE DEF TypeOK, Procs, Owners
<1>0. \A q \in Calls : cause'[q] # "kick" /\ pc[q] # "next"
  BY DEF EndTurn, Expire, RunMuFree, Handover, OwnerInv
<1>1. CASE queue # <<>>
  <2>0. PICK h \in Calls : h = Head(queue)
    BY <1>1, PopOwner
  <2>1. /\ pc' = [pc EXCEPT ![p] = "next"] /\ call' = [call EXCEPT ![p] = h]
        /\ queue' = Tail(queue) /\ UNCHANGED <<served, revoked, cleared>>
    BY <1>1, <2>0 DEF EndTurn, PopNext, history
  <2>2. /\ h \notin served \cup revoked \cup cleared /\ IsInjective(queue')
        /\ ToSet(queue) = ToSet(queue') \cup {h} /\ h \notin ToSet(queue')
    BY <1>1, <2>0, <2>1, PopOwner
  <2>3. \A q \in Calls : pc[q] \in {"new", "enter"} => q # h
    BY <2>2 DEF OwnerInv
  <2> QED BY <1>0, <2>1, <2>2, <2>3 DEF OwnerInv
<1>2. CASE queue = <<>>
  <2>1. pc' = [pc EXCEPT ![p] = "done"] /\ UNCHANGED <<call, queue, served, revoked, cleared>>
    BY <1>2 DEF EndTurn, PopNext, history
  <2> QED BY <1>0, <2>1 DEF OwnerInv
<1> QED BY <1>1, <1>2

LEMMA OwnerStep ==
  ASSUME OnceEach, TypeOK, OwnerInv, [Next]_vars
  PROVE  OwnerInv'
<1> USE DEF TypeOK, OnceEach, Owners, Procs
<1>1. ASSUME NEW c \in Calls, Run(c) PROVE OwnerInv'
  BY <1>1 DEF Run, OwnerInv, history
<1>2. ASSUME NEW c \in Calls,
             \/ ForceRun(c) \/ Kick(c) \/ AcquireFromQueue(c) \/ TurnKicked(c)
             \/ TurnNeedsSummary(c) \/ AppendContinuation(c)
      PROVE  OwnerInv'
  BY <1>2 DEF ForceRun, Kick, AcquireFromQueue, TurnKicked, TurnNeedsSummary,
              AppendContinuation, OwnerInv
<1>3. ASSUME NEW c \in Calls, AcquireOrEnqueue(c) PROVE OwnerInv'
  <2>1. pc[c] = "enter" /\ call[c] = c /\ c \notin ToSet(queue) \cup served \cup revoked \cup cleared
    BY <1>3 DEF AcquireOrEnqueue, OwnerInv
  <2>2. CASE busy = None
    <3>1. /\ pc' = [pc EXCEPT ![c] = "turn"] /\ call' = [call EXCEPT ![c] = c]
          /\ served' = served \cup {c} /\ UNCHANGED <<queue, revoked, cleared>>
          /\ \A p \in Calls : cause'[p] # "kick" /\ pc[p] # "next"
      BY <1>3, <2>1, <2>2
      DEF AcquireOrEnqueue, BeginTurn, Expire, RunMuFree, Handover, OwnerInv
    <3> QED BY <2>1, <3>1 DEF OwnerInv
  <2>3. CASE busy # None
    <3>1. queue' = Append(queue, c)
      BY <1>3, <2>1, <2>3 DEF AcquireOrEnqueue
    <3>2. ToSet(queue') = ToSet(queue) \cup {c}
      BY <3>1, AppendSet
    <3>3. queue \in Seq(Calls) /\ IsInjective(queue) /\ \A i \in 1..Len(queue) : queue[i] # c
      BY <2>1 DEF OwnerInv, ToSet
    <3>4. IsInjective(queue')
      BY <3>1, <3>3, EnqueueInjective
    <3>5. /\ pc' = [pc EXCEPT ![c] = "done"] /\ \A p \in Calls : pc[p] # "next"
          /\ UNCHANGED <<call, cause, served, revoked, cleared>>
      BY <1>3, <2>3 DEF AcquireOrEnqueue, RunMuFree, Handover
    <3> QED BY <2>1, <3>2, <3>4, <3>5 DEF OwnerInv
  <2> QED BY <2>2, <2>3
<1>4. ASSUME NEW c \in Calls, TurnSucceeds(c) \/ HandOver(c) \/ HandOverFails(c)
      PROVE  OwnerInv'
  <2>1. CASE TurnSucceeds(c)
    <3>1. pc[c] = "turn" /\ EndTurn(c, "next", "done")
      BY <2>1 DEF TurnSucceeds, OwnerInv
    <3> QED BY <3>1, EndTurnKeepsOwner
  <2>2. CASE HandOver(c)
    <3>1. /\ pc[c] = "next" /\ pc' = [pc EXCEPT ![c] = "turn"] /\ call' = call
          /\ served' = served \cup {call[c]} /\ UNCHANGED <<queue, cause, revoked, cleared>>
      BY <2>2 DEF HandOver, BeginTurn, Handover, OwnerInv
    <3> QED BY <3>1 DEF OwnerInv
  <2>3. CASE HandOverFails(c)
    <3>1. /\ pc[c] = "next" /\ pc' = [pc EXCEPT ![c] = "done"] /\ queue' = <<call[c]>> \o queue
          /\ UNCHANGED <<call, cause, served, revoked, cleared>>
      BY <2>3 DEF HandOverFails, Handover, OwnerInv, history
    <3>2. queue \in Seq(Calls) /\ call[c] \in Calls /\ call[c] \notin ToSet(queue)
      BY <3>1 DEF OwnerInv
    <3>3. ToSet(queue') = ToSet(queue) \cup {call[c]}
      BY <3>1, <3>2, ToSetFacts
    <3>4. \A i \in 1..Len(queue) : queue[i] # call[c]
      BY <3>2 DEF ToSet
    <3>5. IsInjective(queue')
      BY <3>1, <3>2, <3>4, PrependInjective DEF OwnerInv
    <3>6. \A p \in Calls : pc'[p] # "next"
      BY <3>1 DEF OwnerInv
    <3> QED BY <3>1, <3>3, <3>5, <3>6 DEF OwnerInv
  <2> QED BY <1>4, <2>1, <2>2, <2>3
<1>5. ASSUME NEW c \in Calls, TurnStops(c) PROVE OwnerInv'
  BY <1>5 DEF TurnStops, Expire, StopDispatch, OwnerInv
<1>6. ASSUME NEW c \in Calls, SummarizeStep(c) PROVE OwnerInv'
  BY <1>6 DEF SummarizeStep, SummarizeCheck, SummarizeGivesUp, SummarizeRegister,
              SummarizeEnds, OwnerInv
<1>7. ASSUME NEW o \in Summarizers, SummarizeStep(o) PROVE OwnerInv'
  BY <1>7 DEF SummarizeStep, SummarizeCheck, SummarizeGivesUp, SummarizeRegister,
              SummarizeEnds, SummarizeReturns, Expire, OwnerInv, history
<1>8. ASSUME NEW k \in Cancellers, CancelFetch(k) \/ CancelSignal(k) PROVE OwnerInv'
  BY <1>8 DEF CancelFetch, CancelSignal, Signal, OwnerInv, history
<1>9. ASSUME NEW k \in Cancellers, CancelClear(k) \/ ClearQueueDrops(k) PROVE OwnerInv'
  <2>1. queue' = <<>> /\ ToSet(queue') = {} /\ IsInjective(queue')
    BY <1>9 DEF CancelClear, ClearQueueDrops, DropQueue, ToSet, IsInjective
  <2>2. cleared' = cleared \cup ToSet(queue) /\ UNCHANGED <<call, cause, served>>
    BY <1>9 DEF CancelClear, ClearQueueDrops, DropQueue
  <2>3. revoked' \subseteq revoked \cup ToSet(queue) \cup served
    BY <1>9 DEF CancelClear, ClearQueueDrops, Accepted
  <2>4. \A p \in Calls : pc'[p] = pc[p] /\ pc[p] # "next"
    BY <1>9 DEF CancelClear, ClearQueueDrops, RunMuFree, Handover
  <2> QED BY <2>1, <2>2, <2>3, <2>4 DEF OwnerInv
<1>11. ASSUME NEW k \in Cancellers, CancelCheck(k) \/ ClearQueue(k) PROVE OwnerInv'
  <2>1. /\ revoked' \subseteq revoked \cup served
        /\ UNCHANGED <<call, cause, queue, served, cleared>>
    BY <1>11 DEF CancelCheck, ClearQueue, Accepted, ToSet, history
  <2>2. \A p \in Calls : pc'[p] = pc[p]
    BY <1>11 DEF CancelCheck, ClearQueue
  <2> QED BY <2>1, <2>2 DEF OwnerInv
<1>10. CASE UNCHANGED vars
  BY <1>10 DEF vars, OwnerInv
<1> QED
  BY <1>1, <1>2, <1>3, <1>4, <1>5, <1>6, <1>7, <1>8, <1>9, <1>10, <1>11
  DEF Next, DispatchStep, CancelStep, Idle

\* The prompt of a turn that begins has had no turn, and no clear and no Cancel
\* that has returned came after it was accepted.
LEMMA TurnIsFresh ==
  ASSUME OnceEach, TypeOK, OwnerInv, NEW p \in Calls, StartsTurn(p)
  PROVE  call'[p] \notin served \cup revoked \cup cleared
<1> USE DEF TypeOK, OnceEach, Owners, Procs
<1>1. CASE AcquireOrEnqueue(p)
  BY <1>1 DEF StartsTurn, AcquireOrEnqueue, BeginTurn, OwnerInv
<1>2. CASE HandOver(p)
  BY <1>2 DEF StartsTurn, HandOver, Handover, BeginTurn, OwnerInv
<1>3. ~(Kick(p) \/ AcquireFromQueue(p) \/ TurnKicked(p) \/ AppendContinuation(p))
  BY DEF Kick, AcquireFromQueue, TurnKicked, AppendContinuation, OwnerInv
<1>4. ~(TurnStops(p) \/ TurnNeedsSummary(p) \/ TurnSucceeds(p) \/ HandOverFails(p))
  BY DEF StartsTurn, TurnStops, StopDispatch, TurnNeedsSummary, TurnSucceeds, EndTurn,
         PopNext, HandOverFails
<1> QED BY <1>1, <1>2, <1>3, <1>4 DEF StartsTurn, DispatchStep

LEMMA OwnerInvariant == ASSUME OnceEach PROVE Spec => []OwnerInv
<1>1. Init => OwnerInv
  <2>1. ToSet(<<>>) = {} /\ IsInjective(<<>>)
    BY DEF ToSet, IsInjective
  <2> QED BY <2>1 DEF Init, OwnerInv, Owners, Procs
<1>2. OnceEach /\ TypeOK /\ OwnerInv /\ [Next]_vars => OwnerInv'
  BY OwnerStep
<1> QED
  BY <1>1, <1>2, TypeCorrect, PTL DEF Spec

\* A prompt that is not forced and not continued gets one turn at most, however
\* many dispatchers, cancellers and outside summaries interleave.
THEOREM TurnsAreUnique == ASSUME OnceEach PROVE Spec => OneTurnPerCall
<1>1. TypeOK /\ OwnerInv /\ [Next]_vars =>
         [\A p \in Calls : StartsTurn(p) => call[p]' \notin served]_vars
  BY TurnIsFresh
<1> QED
  BY <1>1, OwnerInvariant, TypeCorrect, PTL DEF Spec, OneTurnPerCall

\* Once Cancel has returned, no prompt that it found queued or started begins a
\* turn, nor does any prompt that was cleared.
THEOREM CancelIsFinal == ASSUME OnceEach PROVE Spec => CancelStopsDispatch
<1>1. TypeOK /\ OwnerInv /\ [Next]_vars =>
         [\A p \in Calls : StartsTurn(p) => call[p]' \notin revoked \cup cleared]_vars
  BY TurnIsFresh
<1> QED
  BY <1>1, OwnerInvariant, TypeCorrect, PTL DEF Spec, CancelStopsDispatch

-----------------------------------------------------------------------------
(* The dispatcher as one server *)

\* The turn that the goroutines give, as the server sees it, and the prompts it
\* has taken.
TurnOf == IF InTurn = {} THEN None ELSE CHOOSE c \in InTurn : TRUE
Past == served \cup cleared \cup InTurn

LEMMA Elements == ASSUME NEW s PROVE Serial!ToSet(s) = ToSet(s)
BY DEF Serial!ToSet, ToSet

\* The server's turn is that of the one goroutine in a turn or between two.
LEMMA TurnSeen ==
  ASSUME Summarizers = {}, TypeOK, DispatchInv
  PROVE  /\ \A p \in Calls : pc[p] \in {"turn"} \cup Handover =>
               InTurn = {call[p]} /\ TurnOf = call[p] /\ TurnOf # None
         /\ busy = None /\ RunMuFree => InTurn = {} /\ TurnOf = None
<1>1. ASSUME NEW p \in Calls, pc[p] \in {"turn"} \cup Handover
      PROVE  InTurn = {call[p]} /\ TurnOf = call[p] /\ TurnOf # None
  <2>1. ASSUME NEW q \in Calls, pc[q] \in {"turn"} \cup Handover PROVE q = p
    BY <1>1, <2>1, ConstantsOK DEF DispatchInv, Procs, Owners
  <2>2. InTurn = {call[p]}
    BY <1>1, <2>1 DEF InTurn
  <2>3. call[p] \in Calls /\ None \notin Calls
    BY ConstantsOK DEF TypeOK, Procs, Owners
  <2> QED BY <2>2, <2>3 DEF TurnOf
<1>2. ASSUME busy = None, RunMuFree PROVE InTurn = {} /\ TurnOf = None
  BY <1>2, ConstantsOK DEF InTurn, TurnOf, DispatchInv, RunMuFree, Procs, Owners
<1> QED BY <1>1, <1>2

\* The same after a step.
LEMMA TurnSeenAfter ==
  ASSUME Summarizers = {}, TypeOK', DispatchInv'
  PROVE  /\ \A p \in Calls : pc'[p] \in {"turn"} \cup Handover =>
               InTurn' = {call'[p]} /\ TurnOf' = call'[p] /\ TurnOf' # None
         /\ busy' = None /\ RunMuFree' => InTurn' = {} /\ TurnOf' = None
<1>1. ASSUME NEW p \in Calls, pc'[p] \in {"turn"} \cup Handover
      PROVE  InTurn' = {call'[p]} /\ TurnOf' = call'[p] /\ TurnOf' # None
  <2>1. ASSUME NEW q \in Calls, pc'[q] \in {"turn"} \cup Handover PROVE q = p
    BY <1>1, <2>1, ConstantsOK DEF DispatchInv, Procs, Owners
  <2>2. InTurn' = {call'[p]}
    BY <1>1, <2>1 DEF InTurn
  <2>3. call'[p] \in Calls /\ None \notin Calls
    BY ConstantsOK DEF TypeOK, Procs, Owners
  <2> QED BY <2>2, <2>3 DEF TurnOf
<1>2. ASSUME busy' = None, RunMuFree' PROVE InTurn' = {} /\ TurnOf' = None
  BY <1>2, ConstantsOK DEF InTurn, TurnOf, DispatchInv, RunMuFree, Procs, Owners
<1> QED BY <1>1, <1>2

\* A step that moves no goroutine into a turn or out of one is not seen.
LEMMA TurnStays ==
  ASSUME UNCHANGED call,
         \A p \in Calls : pc'[p] \in {"turn"} \cup Handover <=> pc[p] \in {"turn"} \cup Handover
  PROVE  UNCHANGED <<InTurn, TurnOf>>
BY DEF InTurn, TurnOf

\* A prompt that enters has its turn, or waits in line.
LEMMA EntersServer ==
  ASSUME Summarizers = {}, TypeOK, OwnerInv, DispatchInv, TypeOK', DispatchInv',
         NEW c \in Calls, AcquireOrEnqueue(c)
  PROVE  Serial!Next
<1> USE DEF TypeOK, Procs, Owners
<1>1. pc[c] = "enter" /\ call[c] = c /\ c \notin ToSet(queue) \cup served \cup cleared /\ RunMuFree
  BY DEF AcquireOrEnqueue, OwnerInv
<1>2. CASE busy = None
  <2>1. BeginTurn(c, c) /\ UNCHANGED <<queue, cleared>>
    BY <1>1, <1>2 DEF AcquireOrEnqueue
  <2>2. InTurn = {} /\ TurnOf = None
    BY <1>1, <1>2, TurnSeen
  <2>3. pc'[c] = "turn" /\ call'[c] = c /\ served' = served \cup {c}
    BY <2>1 DEF BeginTurn
  <2>4. InTurn' = {c} /\ TurnOf' = c
    BY <2>3, TurnSeenAfter
  <2>5. Past' = Past \cup {c} /\ c \in Serial!Fresh
    BY <1>1, <2>1, <2>2, <2>3, <2>4, Elements DEF Past, Serial!Fresh, TurnOf
  <2>6. Serial!GoFirst(c)
    BY <2>1, <2>2, <2>4, <2>5 DEF Serial!GoFirst, TurnOf, Past
  <2> QED BY <2>6 DEF Serial!Next
<1>3. CASE busy # None
  <2>1. /\ queue' = Append(queue, c) /\ UNCHANGED <<call, served, cleared>>
        /\ pc' = [pc EXCEPT ![c] = "done"]
    BY <1>1, <1>3 DEF AcquireOrEnqueue
  <2>2. PICK p \in Calls : pc[p] = "turn"
    BY <1>3 DEF DispatchInv
  <2>3. InTurn = {call[p]} /\ TurnOf # None /\ c # call[p]
    BY <1>1, <2>2, TurnSeen DEF OwnerInv
  <2>4. UNCHANGED <<InTurn, TurnOf>>
    BY <1>1, <2>1, TurnStays DEF Handover
  <2>5. c \in Serial!Fresh /\ Past' = Past
    BY <1>1, <2>1, <2>3, <2>4, Elements DEF Serial!Fresh, Past
  <2>6. Serial!Wait(c)
    BY <2>1, <2>3, <2>4, <2>5 DEF Serial!Wait, TurnOf, Past
  <2> QED BY <2>6 DEF Serial!Next
<1> QED BY <1>2, <1>3 DEF AcquireOrEnqueue

\* A turn that ends goes on to the first in line, if there is one.
LEMMA GoesOn ==
  ASSUME Summarizers = {}, TypeOK, OwnerInv, DispatchInv, TypeOK', DispatchInv',
         NEW p \in Calls, pc[p] = "turn", EndTurn(p, "next", "done")
  PROVE  Serial!Next
<1> USE DEF TypeOK, Procs, Owners
<1>1. InTurn = {call[p]} /\ TurnOf # None /\ call[p] \in served
  BY TurnSeen DEF OwnerInv
<1>2. CASE queue # <<>>
  <2>1. /\ pc' = [pc EXCEPT ![p] = "next"] /\ call' = [call EXCEPT ![p] = Head(queue)]
        /\ queue' = Tail(queue) /\ UNCHANGED <<served, cleared>>
    BY <1>2 DEF EndTurn, PopNext, history
  <2>2. Head(queue) \in Calls /\ Head(queue) \notin Past
    BY <1>1, <1>2, PopOwner DEF Past
  <2>3. InTurn' = {Head(queue)} /\ TurnOf' = Head(queue)
    <3>1. pc'[p] \in Handover /\ call'[p] = Head(queue)
      BY <2>1, <2>2 DEF Handover
    <3> QED BY <3>1, TurnSeenAfter
  <2>4. Past' = Past \cup {Head(queue)}
    BY <1>1, <2>1, <2>3 DEF Past
  <2>5. Serial!GoOn
    BY <1>1, <1>2, <2>1, <2>2, <2>3, <2>4 DEF Serial!GoOn, TurnOf, Past
  <2> QED BY <2>5 DEF Serial!Next
<1>3. CASE queue = <<>>
  <2>1. /\ pc' = [pc EXCEPT ![p] = "done"] /\ busy' = None /\ RunMuFree
        /\ UNCHANGED <<queue, served, cleared>>
    BY <1>3 DEF EndTurn, PopNext, history
  <2>2. RunMuFree'
    BY <2>1 DEF RunMuFree, Handover
  <2>3. InTurn' = {} /\ TurnOf' = None
    BY <2>1, <2>2, TurnSeenAfter
  <2>4. Past' = Past
    BY <1>1, <2>1, <2>3 DEF Past
  <2>5. Serial!Stop
    BY <1>1, <2>1, <2>3, <2>4 DEF Serial!Stop, TurnOf, Past
  <2> QED BY <2>5 DEF Serial!Next
<1> QED BY <1>2, <1>3

\* A user clears the line.
LEMMA LineCleared ==
  ASSUME TypeOK, NEW k \in Cancellers, CancelClear(k) \/ ClearQueueDrops(k)
  PROVE  Serial!Next
<1>1. /\ queue' = <<>> /\ cleared' = cleared \cup ToSet(queue)
      /\ UNCHANGED <<call, served>> /\ \A p \in Calls : pc'[p] = pc[p]
  <2>1. k \notin Calls /\ \E at : pc' = [pc EXCEPT ![k] = at]
    BY ConstantsOK DEF CancelClear, ClearQueueDrops, Owners
  <2> QED BY <2>1 DEF CancelClear, ClearQueueDrops, DropQueue, TypeOK, Procs, Owners
<1>2. UNCHANGED <<InTurn, TurnOf>>
  BY <1>1, TurnStays
<1>3. Serial!Clear
  BY <1>1, <1>2, Elements DEF Serial!Clear, TurnOf
<1> QED BY <1>3 DEF Serial!Next

\* For any number of prompts and cancellers, the goroutines that run turns,
\* queue prompts, pop, stop and clear are one server: a turn at a time, in the
\* order of arrival ("Keep FIFO order"), and no prompt twice.
THEOREM DispatchIsSerial ==
  ASSUME OnceEach, Summarizers = {}
  PROVE  Spec => ImplementsSerial
<1>1. Init => Serial!Init
  <2>1. Init => InTurn = {}
    BY DEF Init, InTurn, Handover, Procs, Owners
  <2> QED BY <2>1 DEF Init, Serial!Init
<1> DEFINE seen == <<queue, TurnOf, Past>>
<1>2. TypeOK /\ OwnerInv /\ DispatchInv /\ TypeOK' /\ DispatchInv' /\ [Next]_vars =>
        Serial!Next \/ UNCHANGED seen
  <2> SUFFICES ASSUME TypeOK, OwnerInv, DispatchInv, TypeOK', DispatchInv', [Next]_vars
               PROVE  Serial!Next \/ UNCHANGED seen
    OBVIOUS
  <2> USE DEF Owners
  <2>1. ASSUME UNCHANGED <<queue, call, served, cleared>>,
               \A p \in Calls :
                  pc'[p] \in {"turn"} \cup Handover <=> pc[p] \in {"turn"} \cup Handover
        PROVE  UNCHANGED seen
    BY <2>1, TurnStays DEF Past
  <2>2. ASSUME NEW c \in Calls, Run(c) PROVE UNCHANGED seen
    BY <2>1, <2>2 DEF Run, history, Handover, TypeOK, Procs
  <2>3. ASSUME NEW c \in Calls,
               \/ ForceRun(c) \/ Kick(c) \/ AcquireFromQueue(c) \/ TurnKicked(c)
               \/ TurnNeedsSummary(c) \/ AppendContinuation(c) \/ SummarizeStep(c)
               \/ HandOverFails(c)
        PROVE  FALSE
    BY <2>3 DEF ForceRun, Kick, AcquireFromQueue, TurnKicked, TurnNeedsSummary,
                AppendContinuation, SummarizeStep, SummarizeCheck, SummarizeGivesUp,
                SummarizeRegister, SummarizeEnds, HandOverFails, OwnerInv, OnceEach,
                DispatchInv
  <2>4. ASSUME NEW c \in Calls, AcquireOrEnqueue(c) PROVE Serial!Next
    BY <2>4, EntersServer
  <2>5. ASSUME NEW c \in Calls, TurnSucceeds(c) PROVE Serial!Next
    <3>1. pc[c] = "turn" /\ EndTurn(c, "next", "done")
      BY <2>5 DEF TurnSucceeds, OwnerInv
    <3> QED BY <3>1, GoesOn
  <2>6. ASSUME NEW c \in Calls, HandOver(c) PROVE UNCHANGED seen
    <3>1. /\ pc[c] = "next" /\ pc'[c] = "turn" /\ call' = call
          /\ served' = served \cup {call[c]} /\ UNCHANGED <<queue, cleared>>
      BY <2>6 DEF HandOver, BeginTurn, Handover, OwnerInv, TypeOK, Procs
    <3>2. InTurn = {call[c]} /\ TurnOf = call[c]
      BY <3>1, TurnSeen DEF Handover
    <3>3. InTurn' = {call[c]} /\ TurnOf' = call[c]
      BY <3>1, TurnSeenAfter DEF Handover
    <3> QED BY <3>1, <3>2, <3>3 DEF Past
  <2>7. ASSUME NEW c \in Calls, TurnStops(c) PROVE Serial!Next
    <3>1. /\ pc[c] = "turn" /\ pc' = [pc EXCEPT ![c] = "done"] /\ busy' = None /\ RunMuFree
          /\ UNCHANGED <<queue, call, served, cleared>>
      BY <2>7 DEF TurnStops, StopDispatch
    <3>2. RunMuFree'
      BY <3>1 DEF RunMuFree, Handover, TypeOK, Procs
    <3>3. InTurn = {call[c]} /\ TurnOf # None /\ InTurn' = {} /\ TurnOf' = None
      BY <3>1, <3>2, TurnSeen, TurnSeenAfter
    <3>4. Past' = Past
      BY <3>1, <3>3 DEF Past, OwnerInv
    <3>5. Serial!Stop
      BY <3>1, <3>3, <3>4 DEF Serial!Stop, TurnOf, Past
    <3> QED BY <3>5 DEF Serial!Next
  <2>8. ASSUME NEW k \in Cancellers,
               CancelFetch(k) \/ CancelSignal(k) \/ CancelCheck(k) \/ ClearQueue(k)
        PROVE  UNCHANGED seen
    <3>1. UNCHANGED <<queue, call, served, cleared>> /\ \A p \in Calls : pc'[p] = pc[p]
      <4>1. k \notin Calls /\ \E at : pc' = [pc EXCEPT ![k] = at]
        BY <2>8, ConstantsOK DEF CancelFetch, CancelSignal, CancelCheck, ClearQueue
      <4> QED BY <2>8, <4>1 DEF CancelFetch, CancelSignal, CancelCheck, ClearQueue, history
    <3> QED BY <2>1, <3>1
  <2>9. ASSUME NEW k \in Cancellers, CancelClear(k) \/ ClearQueueDrops(k) PROVE Serial!Next
    BY <2>9, LineCleared
  <2>10. CASE UNCHANGED vars
    BY <2>1, <2>10 DEF vars
  <2> QED
    BY <2>2, <2>3, <2>4, <2>5, <2>6, <2>7, <2>8, <2>9, <2>10
    DEF Next, DispatchStep, CancelStep, Idle
<1>3. TypeOK /\ OwnerInv /\ DispatchInv /\ TypeOK' /\ DispatchInv' /\ [Next]_vars =>
        [Serial!Next]_<<queue, IF InTurn = {} THEN None ELSE CHOOSE c \in InTurn : TRUE,
                        served \cup cleared \cup InTurn>>
  BY <1>2 DEF TurnOf, Past
<1>4. Undisturbed
  BY DEF OnceEach, Undisturbed
<1> QED
  BY <1>1, <1>3, <1>4, OwnerInvariant, DispatchInvariant, TypeCorrect, PTL
  DEF Spec, ImplementsSerial, Serial!Spec

-----------------------------------------------------------------------------
(* One owner for each prompt *)

\* A goroutine that has not called Run yet has its own prompt, which nobody else
\* has; what is appended after a summary is the prompt that was interrupted.
CarrierInv ==
    /\ \A p \in Calls : pc[p] = "new" =>
          call[p] = p /\ p \notin ToSet(queue) /\ \A q \in Calls \ {p} : call[q] # p
    /\ \A p \in Calls : pc[p] = "append" => plan[p] = "continue"
    /\ IsInjective(queue)
    /\ \A p, q \in Calls : Holds(p) /\ Holds(q) /\ call[p] = call[q] => p = q
    /\ \A p \in Calls : Holds(p) => call[p] \notin ToSet(queue)

\* A goroutine that takes the queue's head is the only one that carries it.
LEMMA PopCarries ==
  ASSUME TypeOK, CarrierInv, NEW p \in Calls, NEW at \in {"turn"} \cup Handover,
         pc[p] # "new", queue # <<>>, queue' = Tail(queue), UNCHANGED plan,
         pc' = [pc EXCEPT ![p] = at], call' = [call EXCEPT ![p] = Head(queue)]
  PROVE  CarrierInv'
<1>0. PICK h \in Calls : h = Head(queue)
  BY SeqFacts DEF TypeOK
<1>1. ToSet(queue) = ToSet(queue') \cup {h}
  BY <1>0, ToSetFacts DEF TypeOK
<1>2. IsInjective(queue') /\ h \notin ToSet(queue')
  BY <1>0, PopInjective DEF CarrierInv, TypeOK
<1>3. \A q \in Calls \ {p} : (Holds(q)' <=> Holds(q)) /\ call'[q] = call[q] /\ pc'[q] = pc[q]
  BY DEF TypeOK, Procs, Owners, Holds, Handover
<1>4. call'[p] = h /\ pc'[p] = at /\ at \notin {"new", "append"}
  BY <1>0 DEF TypeOK, Procs, Owners, Handover
<1> QED
  BY <1>0, <1>1, <1>2, <1>3, <1>4 DEF CarrierInv

\* A goroutine that appends the prompt it carries to the queue gives it up.
LEMMA AppendGivesUp ==
  ASSUME TypeOK, CarrierInv, NEW p \in Calls, Holds(p), pc[p] # "new",
         queue' = Append(queue, call[p]),
         pc' = [pc EXCEPT ![p] = "done"] \/ pc' = [pc EXCEPT ![p] = "resume"],
         UNCHANGED <<call, plan>>
  PROVE  CarrierInv'
<1> DEFINE c == call[p]
<1>1. c \in Calls /\ c \notin ToSet(queue) /\ queue \in Seq(Calls)
  BY DEF TypeOK, CarrierInv
<1>2. ToSet(queue') = ToSet(queue) \cup {c}
  BY <1>1, AppendSet
<1>3. \A i \in 1..Len(queue) : queue[i] # c
  BY <1>1 DEF ToSet
<1>4. IsInjective(queue')
  BY <1>1, <1>3, EnqueueInjective DEF CarrierInv
<1>5. ~Holds(p)' /\ pc'[p] \notin {"new", "append"}
  BY DEF TypeOK, Procs, Owners, Holds, Handover
<1>6. \A q \in Calls \ {p} : (Holds(q)' <=> Holds(q)) /\ pc'[q] = pc[q]
  BY DEF TypeOK, Procs, Owners, Holds, Handover
<1> QED
  BY <1>1, <1>2, <1>4, <1>5, <1>6 DEF CarrierInv

\* So does one that puts it back at the head.
LEMMA PutBackGivesUp ==
  ASSUME TypeOK, CarrierInv, NEW p \in Calls, HandOverFails(p)
  PROVE  CarrierInv'
<1> DEFINE c == call[p]
<1>1. c \in Calls /\ c \notin ToSet(queue) /\ queue \in Seq(Calls) /\ Holds(p)
  BY DEF TypeOK, CarrierInv, HandOverFails, Holds
<1>2. queue' = <<c>> \o queue /\ UNCHANGED <<call, plan>>
  BY DEF HandOverFails
<1>3. ToSet(queue') = ToSet(queue) \cup {c}
  BY <1>1, <1>2, ToSetFacts
<1>4. \A i \in 1..Len(queue) : queue[i] # c
  BY <1>1 DEF ToSet
<1>5. IsInjective(queue')
  BY <1>1, <1>2, <1>4, PrependInjective DEF CarrierInv
<1>6. ~Holds(p)' /\ pc'[p] \notin {"new", "append"} /\ pc[p] # "new"
  BY DEF HandOverFails, Handover, TypeOK, Procs, Owners, Holds, Handover
<1>7. \A q \in Calls \ {p} : (Holds(q)' <=> Holds(q)) /\ pc'[q] = pc[q]
  BY DEF HandOverFails, TypeOK, Procs, Owners, Holds, Handover
<1> QED
  BY <1>1, <1>2, <1>3, <1>5, <1>6, <1>7 DEF CarrierInv

\* Any other step of a goroutine leaves its prompt with it or drops it.
LEMMA CarriesOn ==
  ASSUME TypeOK, CarrierInv, UNCHANGED <<call, queue>>,
         \A p \in Calls : Holds(p)' => Holds(p),
         \A p \in Calls : pc'[p] = "new" => pc[p] = "new",
         \A p \in Calls : pc'[p] = "append" => plan'[p] = "continue"
  PROVE  CarrierInv'
BY DEF CarrierInv

LEMMA CarrierStep ==
  ASSUME Forced = {}, TypeOK, CarrierInv, [Next]_vars
  PROVE  CarrierInv'
<1> USE DEF TypeOK, Owners, Procs
<1>1. ASSUME NEW c \in Calls, Run(c) PROVE CarrierInv'
  <2>1. pc[c] = "new" /\ pc' = [pc EXCEPT ![c] = "enter"] /\ UNCHANGED <<call, plan, queue>>
    BY <1>1 DEF Run
  <2>2. Holds(c)' /\ pc'[c] = "enter"
    BY <2>1 DEF Holds
  <2>3. \A q \in Calls \ {c} : (Holds(q)' <=> Holds(q)) /\ pc'[q] = pc[q]
    BY <2>1 DEF Holds
  <2> QED BY <2>1, <2>2, <2>3 DEF CarrierInv
<1>2. ASSUME NEW c \in Calls, ForceRun(c) PROVE CarrierInv'
  BY <1>2 DEF ForceRun
<1>3. ASSUME NEW c \in Calls, AcquireOrEnqueue(c) PROVE CarrierInv'
  <2>1. CASE busy = None
    <3>1. UNCHANGED <<plan, queue>> /\ BeginTurn(c, call[c]) /\ pc[c] = "enter"
      BY <1>3, <2>1 DEF AcquireOrEnqueue
    <3>2. UNCHANGED call /\ pc' = [pc EXCEPT ![c] = "turn"]
      BY <3>1 DEF BeginTurn
    <3> QED BY <3>1, <3>2, CarriesOn DEF Holds, CarrierInv
  <2>2. CASE busy # None
    BY <1>3, <2>2, AppendGivesUp DEF AcquireOrEnqueue, Holds
  <2> QED BY <2>1, <2>2
<1>4. ASSUME NEW c \in Calls, AcquireFromQueue(c) PROVE CarrierInv'
  <2>1. CASE busy = None /\ queue # <<>>
    BY <1>4, <2>1, PopCarries DEF AcquireFromQueue, BeginTurn
  <2>2. CASE ~(busy = None /\ queue # <<>>)
    BY <1>4, <2>2, CarriesOn DEF AcquireFromQueue, Holds, Handover, CarrierInv
  <2> QED BY <2>1, <2>2
<1>5. ASSUME NEW c \in Calls, pc[c] \in {"turn", "gap"}, NEW at \in Handover,
             NEW idle \in {"gap", "done"}, EndTurn(c, at, idle)
      PROVE  CarrierInv'
  <2>1. CASE queue # <<>>
    BY <1>5, <2>1, PopCarries DEF EndTurn, PopNext
  <2>2. CASE queue = <<>>
    BY <1>5, <2>2, CarriesOn DEF EndTurn, PopNext, Holds, Handover, CarrierInv
  <2> QED BY <2>1, <2>2
<1>6. ASSUME NEW c \in Calls, TurnSucceeds(c) \/ TurnKicked(c) PROVE CarrierInv'
  BY <1>5, <1>6 DEF TurnSucceeds, TurnKicked, Handover
<1>7. ASSUME NEW c \in Calls, HandOver(c) PROVE CarrierInv'
  <2>1. UNCHANGED <<call, plan, queue>> /\ Holds(c)
    BY <1>7 DEF HandOver, BeginTurn, Holds
  <2>2. \E at \in {"turn", "enter", "resume"} : pc' = [pc EXCEPT ![c] = at]
    BY <1>7 DEF HandOver, BeginTurn
  <2> QED BY <2>1, <2>2, CarriesOn DEF Holds, CarrierInv
<1>16. ASSUME NEW c \in Calls, HandOverFails(c) PROVE CarrierInv'
  BY <1>16, PutBackGivesUp
<1>8. ASSUME NEW c \in Calls, Kick(c) \/ TurnStops(c) PROVE CarrierInv'
  BY <1>8, CarriesOn DEF Kick, TurnStops, StopDispatch, Holds, Handover, CarrierInv
<1>9. ASSUME NEW c \in Calls, TurnNeedsSummary(c) PROVE CarrierInv'
  BY <1>9, CarriesOn DEF TurnNeedsSummary, Holds, CarrierInv, history
<1>10. ASSUME NEW c \in Calls, SummarizeStep(c) PROVE CarrierInv'
  <2>1. UNCHANGED <<call, plan, queue>>
    BY <1>10 DEF SummarizeStep, SummarizeCheck, SummarizeGivesUp, SummarizeRegister,
                 SummarizeEnds, history
  <2>2. \/ \E ok \in BOOLEAN : SummarizeReturns(c, ok)
        \/ pc' = [pc EXCEPT ![c] = "set"] /\ pc[c] = "check"
        \/ pc' = [pc EXCEPT ![c] = "summarize"] /\ pc[c] = "set"
    BY <1>10 DEF SummarizeStep, SummarizeCheck, SummarizeGivesUp, SummarizeRegister,
                 SummarizeEnds
  <2>3. pc[c] \in {"check", "set", "summarize"}
    BY <1>10 DEF SummarizeStep, SummarizeCheck, SummarizeGivesUp, SummarizeRegister,
                 SummarizeEnds
  <2>4. \/ pc' = [pc EXCEPT ![c] = "done"] \/ pc' = [pc EXCEPT ![c] = "resume"]
        \/ pc' = [pc EXCEPT ![c] = "enter"] /\ plan[c] = "retry"
        \/ pc' = [pc EXCEPT ![c] = "append"] /\ plan[c] = "continue"
        \/ pc' = [pc EXCEPT ![c] = "set"] \/ pc' = [pc EXCEPT ![c] = "summarize"]
    BY <2>2, ConstantsOK DEF SummarizeReturns, StopDispatch
  <2> QED BY <2>1, <2>3, <2>4, CarriesOn DEF Holds, Handover, CarrierInv
<1>11. ASSUME NEW o \in Summarizers, SummarizeStep(o) PROVE CarrierInv'
  <2>1. UNCHANGED <<call, plan, queue>> /\ \A p \in Calls : pc'[p] = pc[p]
    BY <1>11, ConstantsOK
    DEF SummarizeStep, SummarizeCheck, SummarizeGivesUp, SummarizeRegister,
        SummarizeEnds, SummarizeReturns, history
  <2> QED BY <2>1, CarriesOn DEF Holds, CarrierInv
<1>12. ASSUME NEW c \in Calls, AppendContinuation(c) PROVE CarrierInv'
  <2>1. Holds(c)
    BY <1>12 DEF AppendContinuation, CarrierInv, Holds
  <2> QED BY <1>12, <2>1, AppendGivesUp DEF AppendContinuation
<1>13. ASSUME NEW k \in Cancellers,
              CancelFetch(k) \/ CancelSignal(k) \/ CancelCheck(k) \/ ClearQueue(k)
       PROVE  CarrierInv'
  BY <1>13, CarriesOn, ConstantsOK
  DEF CancelFetch, CancelSignal, CancelCheck, ClearQueue, history, Holds, CarrierInv
<1>14. ASSUME NEW k \in Cancellers, CancelClear(k) \/ ClearQueueDrops(k) PROVE CarrierInv'
  <2>1. ToSet(queue') = {} /\ IsInjective(queue')
    BY <1>14 DEF CancelClear, ClearQueueDrops, DropQueue, ToSet, IsInjective
  <2>2. UNCHANGED <<call, plan>> /\ \A p \in Calls : pc'[p] = pc[p]
    BY <1>14, ConstantsOK DEF CancelClear, ClearQueueDrops, DropQueue
  <2> QED BY <2>1, <2>2 DEF CarrierInv, Holds
<1>15. CASE UNCHANGED vars
  BY <1>15 DEF vars, CarrierInv, Holds
<1> QED
  BY <1>1, <1>2, <1>3, <1>4, <1>6, <1>7, <1>8, <1>9, <1>10, <1>11, <1>12, <1>13, <1>14,
     <1>15, <1>16 DEF Next, DispatchStep, CancelStep, Idle

\* A prompt that is not forced has one owner at every moment, also when turns end
\* in summaries and are continued: it is not queued twice, not carried by two
\* goroutines, and not queued while one carries it.
THEOREM PromptsAreOwned == ASSUME Forced = {} PROVE Spec => []OneOwner
<1>1. Init => CarrierInv
  <2>1. ToSet(<<>>) = {} /\ IsInjective(<<>>)
    BY DEF ToSet, IsInjective
  <2> QED BY <2>1 DEF Init, CarrierInv, Holds, Owners, Procs
<1>2. TypeOK /\ CarrierInv /\ [Next]_vars => CarrierInv'
  BY CarrierStep
<1>3. TypeOK /\ CarrierInv => OneOwner
  <2> SUFFICES ASSUME TypeOK, CarrierInv PROVE OneOwner
    OBVIOUS
  <2>1. \A i, j \in 1..Len(queue) : queue[i] = queue[j] => i = j
    BY DEF TypeOK, CarrierInv, IsInjective
  <2> QED BY <2>1 DEF CarrierInv, OneOwner
<1> QED
  BY <1>1, <1>2, <1>3, TypeCorrect, PTL DEF Spec
=============================================================================
