------------------------- MODULE WeChatAccountProofs -------------------------
(***************************************************************************)
(* Proofs about WeChatAccount, for any numbers of messages, runs and       *)
(* expired logins: types, that a message is handled once, and that one run *)
(* polls at a time.                                                        *)
(***************************************************************************)
EXTENDS WeChatAccount, TLAPS

USE AccountBounds

\* The calls of the interface and of the logout, which start or cancel a run.
Managing ==
    \/ Start \/ Stop \/ ReconnectCancels \/ ReconnectStarts \/ Delete
    \/ LogoutCancels \/ LogoutReturns

\* TypeOK in parts: the manager and its runs, the poll loops, the messages.
RunTypes ==
    /\ entry \in Runs \cup {NoRun} /\ latest \in Runs \cup {NoRun}
    /\ deleted \in BOOLEAN /\ early \in BOOLEAN /\ overtaken \in BOOLEAN
    /\ op \in {"idle", "sleeping"} /\ logout \in {"idle", "waiting", "done"}
    /\ started \in 0..MaxRuns
    /\ loop \in [Runs -> Live \cup {"none", "left", "gone"}]
    /\ cancelled \subseteq Runs /\ handlers \subseteq Runs /\ strays \subseteq Runs
    /\ crashes \in 0..MaxCrashes /\ files \in BOOLEAN
    /\ \A r \in Runs : r > started => loop[r] = "none"
PollTypes ==
    /\ expiries \in 0..MaxExpiries /\ cursor \in 0..Sent /\ saved \in 0..Sent
    /\ asked \in [Runs -> 0..Sent]
    /\ \A r \in Runs : loop[r] \in {"got", "saved"} => asked[r] < Sent
MailTypes ==
    /\ waiting \in [Messages -> [Runs -> Nat]]
    /\ recent \subseteq Messages /\ kept \subseteq Messages /\ dropped \subseteq Messages
    /\ begun \in [Messages -> Nat] /\ forgotten \in [Messages -> Nat]
HandlingTypes == handling \in [msg : Messages, run : Runs] \cup {NoMessage}

\* A call that starts a run starts the next one; anything else is a no-op.
LEMMA StartRunFacts ==
  ASSUME RunTypes, StartRun
  PROVE  \/ UNCHANGED <<entry, started, loop, early, overtaken>>
         \/ /\ entry = NoRun /\ early' \in BOOLEAN /\ overtaken' \in BOOLEAN
            /\ ~early' => ~early /\ \A r \in Runs : ~InProgress(r)
            /\ early => early'
            /\ \E n \in Runs :
                  /\ n = started + 1 /\ started' = n /\ entry' = n /\ loop[n] = "none"
                  /\ loop' = [loop EXCEPT ![n] = "new"]
<1>1. CASE entry # NoRun \/ deleted
  BY <1>1 DEF StartRun, starts
<1>2. CASE ~(entry # NoRun \/ deleted)
  <2>1. /\ started < MaxRuns /\ started' = started + 1 /\ entry' = started'
        /\ loop' = [loop EXCEPT ![started'] = "new"]
    BY <1>2 DEF StartRun
  <2>2. started + 1 \in Runs /\ loop[started + 1] = "none"
    BY <2>1 DEF RunTypes, Runs
  <2>3. /\ early' = (early \/ \E r \in Runs : InProgress(r))
        /\ overtaken' = (overtaken \/ logout = "waiting")
    BY <1>2 DEF StartRun
  <2>4. /\ early' \in BOOLEAN /\ overtaken' \in BOOLEAN /\ (early => early')
        /\ (~early' => ~early /\ \A r \in Runs : ~InProgress(r))
    BY <2>3, Zenon DEF RunTypes
  <2> QED BY <1>2, <2>1, <2>2, <2>4
<1> QED BY <1>1, <1>2

LEMMA RunTypesKept ==
  ASSUME RunTypes, [Next]_vars
  PROVE  RunTypes'
<1> USE DEF RunTypes, Runs, NoRun, Live
<1>1. CASE Start \/ ReconnectStarts
  <2>1. /\ StartRun /\ UNCHANGED <<deleted, latest, cancelled, handlers, logout, strays, process>>
        /\ op' \in {"idle", "sleeping"}
    BY <1>1 DEF Start, ReconnectStarts
  <2> QED BY <2>1, StartRunFacts DEF process
<1>2. CASE Stop \/ ReconnectCancels \/ Delete \/ LogoutCancels \/ LogoutReturns
  BY <1>2 DEF Stop, ReconnectCancels, Delete, LogoutCancels, LogoutReturns, Cancel, poll,
              starts, process
<1>3. ASSUME NEW r \in Runs, Runner(r) PROVE RunTypes'
  BY <1>3 DEF Runner, RunBegins, PollSaves, PollDelivers, LoopLeaves, RunnerEnds, Goes,
              manager, starts, process
<1>4. ASSUME NEW r \in Runs, PollAsks(r) \/ PollGets(r) \/ PollExpires(r) PROVE RunTypes'
  BY <1>4 DEF PollAsks, PollGets, PollExpires, Goes, manager, starts, process
<1>5. CASE \/ \E m \in Messages, h \in Runs : Handle(m, h)
           \/ \E m \in Messages : MarkLapses(m)
           \/ HandlingEnds \/ UNCHANGED vars
  BY <1>5 DEF Handle, HandlingEnds, MarkLapses, vars, manager, poll, starts, process
<1>6. CASE Restart
  <2>1. /\ loop' \in [Runs -> Live \cup {"none", "left", "gone"}]
        /\ \A r \in Runs : r > started' => loop'[r] = "none"
    BY <1>6 DEF Restart
  <2>2. /\ entry' = NoRun /\ latest' = NoRun /\ op' = "idle" /\ logout' = "idle"
        /\ early' = FALSE /\ overtaken' = FALSE /\ strays' = {} /\ handlers' = {}
        /\ files' \in BOOLEAN /\ UNCHANGED <<deleted, started>>
    BY <1>6 DEF Restart
  <2>3. cancelled' \subseteq Runs /\ crashes' \in 0..MaxCrashes
    BY <1>6 DEF Restart
  <2> QED BY <2>1, <2>2, <2>3
<1> QED
  BY <1>1, <1>2, <1>3, <1>4, <1>5, <1>6 DEF Next

\* A call of the manager leaves the poll loops and the messages alone, but for
\* the one that it starts.
LEMMA ManagingLeaves ==
  ASSUME RunTypes, Managing
  PROVE  /\ UNCHANGED <<handlers, cursor, asked, saved, expiries, mail, process>>
         /\ \A r \in Runs : loop'[r] = loop[r] \/ (loop[r] = "none" /\ loop'[r] = "new")
<1>1. UNCHANGED <<handlers, cursor, asked, saved, expiries, mail, process>>
  BY DEF Managing, Start, ReconnectStarts, Stop, ReconnectCancels, Delete, LogoutCancels,
         LogoutReturns, poll
<1>2. UNCHANGED loop \/ StartRun
  BY DEF Managing, Start, ReconnectStarts, Stop, ReconnectCancels, Delete, LogoutCancels,
         LogoutReturns, poll
<1>3. \A r \in Runs : loop'[r] = loop[r] \/ (loop[r] = "none" /\ loop'[r] = "new")
  BY <1>2, StartRunFacts DEF RunTypes
<1> QED BY <1>1, <1>3

LEMMA PollTypesKept ==
  ASSUME RunTypes, PollTypes, [Next]_vars
  PROVE  PollTypes'
<1>1. CASE Managing
  BY <1>1, ManagingLeaves DEF PollTypes
<1>2. ASSUME NEW r \in Runs, Runner(r) PROVE PollTypes'
  BY <1>2 DEF Runner, RunBegins, PollSaves, PollDelivers, LoopLeaves, RunnerEnds, Goes,
              RunTypes, PollTypes
<1>3. ASSUME NEW r \in Runs, PollAsks(r) \/ PollGets(r) \/ PollExpires(r) PROVE PollTypes'
  BY <1>3 DEF PollAsks, PollGets, PollExpires, Goes, RunTypes, PollTypes
<1>4. CASE \/ \E m \in Messages, h \in Runs : Handle(m, h)
           \/ \E m \in Messages : MarkLapses(m)
           \/ HandlingEnds \/ UNCHANGED vars
  BY <1>4 DEF Handle, HandlingEnds, MarkLapses, vars, poll, PollTypes
<1>5. CASE Restart
  <2>1. /\ expiries' = expiries /\ cursor' = 0 /\ asked' = [r \in Runs |-> 0]
        /\ saved' \in {saved, 0}
        /\ \A r \in Runs : loop'[r] \in {"none", "gone"}
    BY <1>5 DEF Restart, CursorLeft
  <2> QED BY <2>1 DEF PollTypes
<1> QED
  BY <1>1, <1>2, <1>3, <1>4, <1>5 DEF Next, Managing

\* What a delivery adds to the goroutines that wait.
LEMMA Delivered ==
  ASSUME PollTypes, MailTypes, NEW r \in Runs, PollDelivers(r)
  PROVE  LET n == asked[r] + 1
         IN  /\ n \in Messages /\ waiting' \in [Messages -> [Runs -> Nat]]
             /\ \A m \in Messages : m # n => waiting'[m] = waiting[m]
             /\ \A h \in Runs : waiting'[n][h] =
                     IF h \in handlers THEN waiting[n][h] + 1 ELSE waiting[n][h]
<1> DEFINE n == asked[r] + 1
           f == [h \in Runs |-> IF h \in handlers THEN waiting[n][h] + 1 ELSE waiting[n][h]]
<1>1. n \in Messages
  BY DEF PollDelivers, PollTypes, Messages
<1>2. waiting \in [Messages -> [Runs -> Nat]]
  BY DEF MailTypes
<1>3. f \in [Runs -> Nat]
  BY <1>1, <1>2
<1>4. waiting' = [waiting EXCEPT ![n] = f]
  BY <1>1, <1>2 DEF PollDelivers
<1> QED BY <1>1, <1>2, <1>3, <1>4

LEMMA MailTypesKept ==
  ASSUME RunTypes, PollTypes, MailTypes, HandlingTypes, [Next]_vars
  PROVE  MailTypes' /\ HandlingTypes'
<1>1. CASE UNCHANGED mail
  BY <1>1 DEF mail, MailTypes, HandlingTypes
<1>2. ASSUME NEW r \in Runs, PollDelivers(r) PROVE MailTypes' /\ HandlingTypes'
  <2>1. UNCHANGED <<handling, recent, kept, begun, forgotten, dropped>>
    BY <1>2 DEF PollDelivers
  <2> QED BY <1>2, <2>1, Delivered DEF MailTypes, HandlingTypes
<1>3. ASSUME NEW m \in Messages, NEW h \in Runs, Handle(m, h)
      PROVE  MailTypes' /\ HandlingTypes'
  <2>1. waiting[m] \in [Runs -> Nat] /\ waiting[m][h] - 1 \in Nat
    BY <1>3 DEF Handle, MailTypes
  <2>2. waiting' = [waiting EXCEPT ![m] = [waiting[m] EXCEPT ![h] = waiting[m][h] - 1]]
    BY <1>3, <2>1 DEF Handle, MailTypes
  <2>3. [waiting[m] EXCEPT ![h] = waiting[m][h] - 1] \in [Runs -> Nat]
    BY <2>1
  <2>4. waiting' \in [Messages -> [Runs -> Nat]]
    BY <2>2, <2>3 DEF MailTypes
  <2>5. /\ recent' \subseteq Messages /\ kept' \subseteq Messages /\ begun' \in [Messages -> Nat]
        /\ HandlingTypes' /\ UNCHANGED <<forgotten, dropped>>
    BY <1>3 DEF Handle, isDuplicate, MailTypes, HandlingTypes
  <2> QED BY <2>4, <2>5 DEF MailTypes
<1>4. CASE HandlingEnds
  BY <1>4 DEF HandlingEnds, MailTypes, HandlingTypes
<1>5. ASSUME NEW m \in Messages, MarkLapses(m) PROVE MailTypes' /\ HandlingTypes'
  BY <1>5 DEF MarkLapses, MailTypes, HandlingTypes
<1>6. CASE Restart
  <2>1. kept' \subseteq Messages /\ recent' \subseteq Messages /\ dropped' \subseteq Messages
    BY <1>6 DEF Restart, MarksLeft, MailTypes
  <2>2. waiting' \in [Messages -> [Runs -> Nat]] /\ handling' = NoMessage /\ begun' = begun
    BY <1>6 DEF Restart
  <2>3. forgotten' \in [Messages -> Nat]
    <3>1. \A m \in Messages : forgotten[m] + (IF m \in recent \ recent' THEN 1 ELSE 0) \in Nat
      BY DEF MailTypes
    <3> QED BY <1>6, <3>1 DEF Restart
  <2> QED BY <2>1, <2>2, <2>3 DEF MailTypes, HandlingTypes
<1>7. ASSUME ~UNCHANGED mail
      PROVE  \/ HandlingEnds \/ (\E r \in Runs : PollDelivers(r)) \/ Restart
             \/ (\E m \in Messages, h \in Runs : Handle(m, h))
             \/ \E m \in Messages : MarkLapses(m)
  BY <1>7 DEF Next, Start, ReconnectStarts, Stop, ReconnectCancels, Delete, LogoutCancels,
              LogoutReturns, Runner, RunBegins, PollSaves, LoopLeaves, RunnerEnds, PollAsks,
              PollGets, PollExpires, vars
<1> QED
  BY <1>1, <1>2, <1>3, <1>4, <1>5, <1>6, <1>7

AllTypes == RunTypes /\ PollTypes /\ MailTypes /\ HandlingTypes

LEMMA TypesHold == Spec => []AllTypes
<1>1. Init => RunTypes
  <2> SUFFICES ASSUME Init PROVE RunTypes
    OBVIOUS
  <2>1. /\ loop \in [Runs -> Live \cup {"none", "left", "gone"}]
        /\ \A r \in Runs : loop[r] = "none"
    BY DEF Init, Live
  <2>2. /\ entry \in Runs \cup {NoRun} /\ latest \in Runs \cup {NoRun}
        /\ deleted \in BOOLEAN /\ early \in BOOLEAN /\ overtaken \in BOOLEAN /\ files \in BOOLEAN
    BY DEF Init
  <2>3. /\ op \in {"idle", "sleeping"} /\ logout \in {"idle", "waiting", "done"}
        /\ started \in 0..MaxRuns /\ crashes \in 0..MaxCrashes
    BY AccountBounds DEF Init
  <2>4. cancelled \subseteq Runs /\ handlers \subseteq Runs /\ strays \subseteq Runs
    BY DEF Init
  <2> QED BY <2>1, <2>2, <2>3, <2>4 DEF RunTypes
<1>2. Init => PollTypes
  BY DEF Init, PollTypes
<1>3. Init => MailTypes
  BY DEF Init, MailTypes
<1>4. Init => HandlingTypes
  BY DEF Init, HandlingTypes
<1>5. Init => AllTypes
  BY <1>1, <1>2, <1>3, <1>4 DEF AllTypes
<1>6. AllTypes /\ [Next]_vars => AllTypes'
  BY RunTypesKept, PollTypesKept, MailTypesKept DEF AllTypes
<1> QED
  BY <1>5, <1>6, PTL DEF Spec

\* The account's state keeps its types.
THEOREM AccountTypes == Spec => []TypeOK
<1>1. AllTypes => TypeOK
  BY Zenon DEF AllTypes, TypeOK, RunTypes, PollTypes, MailTypes, HandlingTypes
<1> QED
  BY <1>1, TypesHold, PTL

-----------------------------------------------------------------------------
\* Why a message is handled once: one that went to the agent has a mark, or one
\* of its marks was forgotten for each time; and what is behind a cursor, the
\* bot's, the one in the file or one that a poll was sent with, has been there,
\* is on its way or was taken by a crash.
Polling == {"polling", "asked", "got", "saved"}
Behind(m) == m <= cursor \/ m <= saved \/ \E r \in Runs : m <= asked[r]
Reached(m) == begun[m] > 0 \/ Due(m) \/ m \in dropped
MarkInv ==
    /\ files => kept = recent
    /\ \A m \in recent \cup kept : begun[m] > 0
    /\ \A m \in Messages : begun[m] <= forgotten[m] + (IF m \in recent THEN 1 ELSE 0)
ReachInv ==
    /\ \A r \in Runs : loop[r] \in Polling => r \in handlers
    /\ \A m \in Messages : Behind(m) => Reached(m)

LEMMA MarksKept ==
  ASSUME AllTypes, MarkInv, [Next]_vars
  PROVE  MarkInv'
<1>1. CASE UNCHANGED <<files, kept, recent, begun, forgotten>>
  BY <1>1 DEF MarkInv
<1>2. ASSUME NEW m \in Messages, NEW h \in Runs, Handle(m, h) PROVE MarkInv'
  <2>1. /\ m \in recent' /\ recent' = recent \cup {m} /\ UNCHANGED <<files, forgotten>>
        /\ kept' \in {kept, recent'} /\ (files => kept' = recent')
    BY <1>2 DEF Handle, isDuplicate, process, MarkInv
  <2>2. begun' = [begun EXCEPT ![m] = IF m \in recent THEN begun[m] ELSE begun[m] + 1]
    BY <1>2 DEF Handle, AllTypes, MailTypes
  <2>3. begun \in [Messages -> Nat] /\ forgotten \in [Messages -> Nat] /\ recent \subseteq Messages
        /\ kept \subseteq Messages
    BY DEF AllTypes, MailTypes
  <2>4. \A n \in recent' \cup kept' : begun'[n] > 0
    BY <2>1, <2>2, <2>3 DEF MarkInv
  <2>5. \A n \in Messages : begun'[n] <= forgotten'[n] + (IF n \in recent' THEN 1 ELSE 0)
    BY <2>1, <2>2, <2>3 DEF MarkInv
  <2> QED BY <2>1, <2>4, <2>5 DEF MarkInv
<1>3. ASSUME NEW m \in Messages, MarkLapses(m) PROVE MarkInv'
  <2>1. /\ m \in recent /\ recent' = recent \ {m} /\ kept' = kept \ {m}
        /\ forgotten' = [forgotten EXCEPT ![m] = forgotten[m] + 1] /\ UNCHANGED <<files, begun>>
    BY <1>3 DEF MarkLapses, process
  <2>2. begun \in [Messages -> Nat] /\ forgotten \in [Messages -> Nat]
    BY DEF AllTypes, MailTypes
  <2> QED BY <2>1, <2>2 DEF MarkInv
<1>4. CASE Restart
  <2>1. /\ kept' \subseteq kept \cup recent /\ recent' = (IF files' THEN kept' ELSE {})
        /\ begun' = begun
    BY <1>4 DEF Restart, MarksLeft
  <2>2. \A m \in Messages :
           forgotten'[m] = forgotten[m] + (IF m \in recent \ recent' THEN 1 ELSE 0)
    BY <1>4 DEF Restart
  <2>3. begun \in [Messages -> Nat] /\ forgotten \in [Messages -> Nat]
    BY DEF AllTypes, MailTypes
  <2>4. \A m \in Messages : begun'[m] <= forgotten'[m] + (IF m \in recent' THEN 1 ELSE 0)
    BY <2>1, <2>2, <2>3 DEF MarkInv
  <2>5. \A m \in recent' \cup kept' : begun'[m] > 0
    BY <2>1 DEF MarkInv
  <2> QED BY <2>1, <2>4, <2>5 DEF MarkInv
<1>5. ASSUME ~UNCHANGED <<files, kept, recent, begun, forgotten>>
      PROVE  \/ \E m \in Messages, h \in Runs : Handle(m, h)
             \/ (\E m \in Messages : MarkLapses(m)) \/ Restart
  BY <1>5 DEF Next, Start, ReconnectStarts, Stop, ReconnectCancels, Delete, LogoutCancels,
              LogoutReturns, Runner, RunBegins, PollSaves, PollDelivers, LoopLeaves, RunnerEnds,
              PollAsks, PollGets, PollExpires, HandlingEnds, vars, mail, process
<1> QED BY <1>1, <1>2, <1>3, <1>4, <1>5

LEMMA ReachKept ==
  ASSUME AllTypes, MarkInv, ReachInv, [Next]_vars
  PROVE  ReachInv'
<1>0. /\ cursor \in Nat /\ saved \in Nat /\ asked \in [Runs -> Nat]
      /\ loop \in [Runs -> Live \cup {"none", "left", "gone"}]
      /\ waiting \in [Messages -> [Runs -> Nat]] /\ begun \in [Messages -> Nat]
  BY DEF AllTypes, PollTypes, RunTypes, MailTypes
<1>1. CASE Managing
  <2>1. UNCHANGED <<handlers, cursor, asked, saved, waiting, begun, dropped>>
    BY <1>1, ManagingLeaves DEF AllTypes, mail
  <2>2. \A r \in Runs : loop'[r] = loop[r] \/ (loop[r] = "none" /\ loop'[r] = "new")
    BY <1>1, ManagingLeaves DEF AllTypes
  <2>4. \A m \in Messages : Due(m) => Due(m)'
    BY <2>1, <2>2 DEF Due
  <2> QED BY <2>1, <2>2, <2>4 DEF ReachInv, Polling, Behind, Reached
<1>2. ASSUME NEW r \in Runs, RunBegins(r) \/ PollSaves(r) \/ LoopLeaves(r) \/ RunnerEnds(r)
                              \/ PollAsks(r) \/ PollExpires(r)
      PROVE  ReachInv'
  <2>1. UNCHANGED <<waiting, begun, dropped>>
    BY <1>2 DEF RunBegins, PollSaves, LoopLeaves, RunnerEnds, PollAsks, PollExpires, mail
  <2>2. /\ cursor' \in {cursor, saved, 0} /\ saved' \in {saved, cursor}
        /\ asked' = asked \/ (loop[r] \notin {"got", "saved"} /\
              \E k \in {0, cursor} : asked' = [asked EXCEPT ![r] = k])
    BY <1>2 DEF RunBegins, PollSaves, LoopLeaves, RunnerEnds, PollAsks, PollExpires
  <2>3. \A m \in Messages : Behind(m)' => Behind(m)
    <3>1. ASSUME NEW m \in Messages, NEW s \in Runs, m <= asked'[s] PROVE Behind(m)
      <4>1. m \in Nat \ {0}
        BY DEF Messages
      <4>2. asked'[s] = asked[s] \/ asked'[s] \in {0, cursor}
        BY <1>0, <2>2
      <4> QED BY <1>0, <3>1, <4>1, <4>2 DEF Behind
    <3>2. ASSUME NEW m \in Messages, m <= cursor' \/ m <= saved' PROVE Behind(m)
      <4>1. m \in Nat \ {0}
        BY DEF Messages
      <4> QED BY <1>0, <2>2, <3>2, <4>1 DEF Behind
    <3> QED BY <3>1, <3>2 DEF Behind
  <2>4. \E l : /\ loop' = [loop EXCEPT ![r] = l]
               /\ (loop[r] \in {"got", "saved"} => l \in {"got", "saved"})
               /\ (l \in Polling => r \in handlers')
    BY <1>2 DEF RunBegins, PollSaves, LoopLeaves, RunnerEnds, PollAsks, PollExpires, Goes,
                ReachInv, Polling
  <2>5. handlers \subseteq handlers'
    BY <1>2 DEF RunBegins, PollSaves, LoopLeaves, RunnerEnds, PollAsks, PollExpires
  <2>6. \A m \in Messages : Due(m) => Due(m)'
    BY <1>0, <2>1, <2>2, <2>4 DEF Due
  <2>7. \A s \in Runs : loop'[s] \in Polling => s \in handlers'
    BY <1>0, <2>4, <2>5 DEF ReachInv
  <2> QED BY <2>1, <2>3, <2>6, <2>7 DEF ReachInv, Reached
<1>3. ASSUME NEW r \in Runs, PollGets(r) PROVE ReachInv'
  <2>1. /\ loop[r] = "asked" /\ cursor' = asked[r] + 1 /\ loop' = [loop EXCEPT ![r] = "got"]
        /\ UNCHANGED <<handlers, asked, saved, waiting, begun, dropped>>
    BY <1>3 DEF PollGets, Goes, mail
  <2>2. \A m \in Messages : Due(m) => Due(m)'
    BY <1>0, <2>1 DEF Due
  <2>3. \A m \in Messages : Behind(m)' => Behind(m) \/ (m = asked[r] + 1 /\ Due(m)')
    BY <1>0, <2>1 DEF Behind, Due, Messages
  <2>4. \A s \in Runs : loop'[s] \in Polling => s \in handlers'
    BY <1>0, <2>1 DEF ReachInv, Polling
  <2> QED BY <2>1, <2>2, <2>3, <2>4 DEF ReachInv, Reached
<1>4. ASSUME NEW r \in Runs, PollDelivers(r) PROVE ReachInv'
  <2> DEFINE n == asked[r] + 1
  <2>1. /\ loop[r] = "saved" /\ r \in handlers /\ asked' = [asked EXCEPT ![r] = 0]
        /\ loop' = [loop EXCEPT ![r] = "polling"]
        /\ UNCHANGED <<handlers, cursor, saved, begun, dropped>>
    BY <1>4 DEF PollDelivers, Goes, ReachInv, Polling
  <2>2. /\ \A m \in Messages : m # n => waiting'[m] = waiting[m]
        /\ n \in Messages /\ waiting'[n][r] > 0
    BY <1>0, <1>4, <2>1, Delivered DEF AllTypes
  <2>3. \A m \in Messages : Due(m) => Due(m)'
    <3> TAKE m \in Messages
    <3>1. CASE m = n
      BY <2>2, <3>1 DEF Due
    <3>2. CASE m # n
      BY <1>0, <2>1, <2>2, <3>2 DEF Due
    <3> QED BY <3>1, <3>2
  <2>4. \A m \in Messages : Behind(m)' => Behind(m)
    BY <1>0, <2>1 DEF Behind, Messages
  <2>5. \A s \in Runs : loop'[s] \in Polling => s \in handlers'
    BY <1>0, <2>1 DEF ReachInv, Polling
  <2> QED BY <2>1, <2>3, <2>4, <2>5 DEF ReachInv, Reached
<1>5. ASSUME NEW m \in Messages, NEW h \in Runs, Handle(m, h) PROVE ReachInv'
  <2>1. UNCHANGED <<loop, handlers, cursor, asked, saved, dropped>>
    BY <1>5 DEF Handle, poll
  <2>2. \A k \in Messages \ {m} : waiting'[k] = waiting[k]
    BY <1>5 DEF Handle, AllTypes, MailTypes
  <2>3. begun'[m] > 0 /\ \A k \in Messages : begun[k] > 0 => begun'[k] > 0
    BY <1>0, <1>5 DEF Handle, MarkInv
  <2>4. \A k \in Messages \ {m} : Due(k) => Due(k)'
    BY <2>1, <2>2 DEF Due
  <2>5. \A k \in Messages : Reached(k) => Reached(k)'
    BY <2>1, <2>3, <2>4 DEF Reached
  <2> QED BY <2>1, <2>5 DEF ReachInv, Behind
<1>6. CASE HandlingEnds \/ (\E m \in Messages : MarkLapses(m)) \/ UNCHANGED vars
  BY <1>6 DEF HandlingEnds, MarkLapses, vars, poll, mail, ReachInv, Behind, Reached, Due
<1>7. CASE Restart
  <2>1. /\ cursor' = 0 /\ saved' \in {saved, 0} /\ asked' = [r \in Runs |-> 0] /\ begun' = begun
        /\ dropped' = dropped \cup {m \in Messages : Due(m)}
        /\ \A r \in Runs : loop'[r] \in {"none", "gone"}
    BY <1>7 DEF Restart, CursorLeft
  <2>2. \A m \in Messages : Behind(m)' => Behind(m)
    BY <1>0, <2>1 DEF Behind, Messages
  <2> QED BY <2>1, <2>2 DEF ReachInv, Reached, Polling
<1> QED
  BY <1>1, <1>2, <1>3, <1>4, <1>5, <1>6, <1>7 DEF Next, Managing, Runner

\* However many loops poll, however often a login expires or the program crashes
\* and however many handlers a message is given to, it goes to the agent once,
\* and once more for each time that its mark was forgotten; and none is passed
\* over but by a crash.
THEOREM MessagesHandledOnce == Spec => []HandledOnce
<1>1. Init => MarkInv /\ ReachInv
  BY DEF Init, MarkInv, ReachInv, Behind, Polling, Messages
<1>2. AllTypes /\ MarkInv /\ ReachInv /\ [Next]_vars => MarkInv' /\ ReachInv'
  BY MarksKept, ReachKept
<1>3. AllTypes /\ MarkInv /\ ReachInv => HandledOnce
  BY DEF AllTypes, MailTypes, MarkInv, ReachInv, Behind, Reached, HandledOnce
<1> QED
  BY <1>1, <1>2, <1>3, TypesHold, PTL DEF Spec

-----------------------------------------------------------------------------
\* Why the entry names the one run in force that has not lost it: runs are
\* started in order, a run leaves only when it was cancelled, and an entry of
\* another run is deleted only while two are in progress.
LoopInv ==
    /\ \A r \in Runs : r > started => loop[r] = "none" /\ r \notin cancelled /\ r \notin strays
    /\ entry <= started /\ latest <= started
    /\ \A r \in Runs : loop[r] \in {"left", "gone"} => r \in cancelled
    /\ ~early => \A r, s \in Runs : InProgress(r) /\ InProgress(s) => r = s
    /\ OneLoop

LEMMA LoopKept ==
  ASSUME RunTypes, LoopInv, [Next]_vars
  PROVE  LoopInv'
<1> USE DEF RunTypes, Runs, NoRun, Live, InProgress, InForce, OneLoop
<1>1. CASE Start \/ ReconnectStarts
  <2>1. StartRun /\ UNCHANGED <<latest, cancelled, strays>>
    BY <1>1 DEF Start, ReconnectStarts
  <2>2. CASE UNCHANGED <<entry, started, loop, early>>
    BY <2>1, <2>2 DEF LoopInv
  <2>3. CASE \E n \in Runs :
                /\ n = started + 1 /\ started' = n /\ entry' = n
                /\ loop' = [loop EXCEPT ![n] = "new"] /\ entry = NoRun
                /\ ~early' => ~early /\ \A r \in Runs : ~InProgress(r)
                /\ early => early'
    BY <2>1, <2>3 DEF LoopInv
  <2> QED BY <2>1, <2>2, <2>3, StartRunFacts
<1>2. CASE Stop \/ ReconnectCancels \/ LogoutCancels
  BY <1>2 DEF Stop, ReconnectCancels, LogoutCancels, Cancel, poll, starts, LoopInv
<1>3. CASE Delete
  BY <1>3 DEF Delete, poll, starts, LoopInv
<1>4. ASSUME NEW r \in Runs, RunBegins(r) PROVE LoopInv'
  BY <1>4 DEF RunBegins, Goes, manager, starts, LoopInv
<1>5. ASSUME NEW r \in Runs, LoopLeaves(r) PROVE LoopInv'
  BY <1>5 DEF LoopLeaves, Goes, manager, starts, LoopInv
<1>6. ASSUME NEW r \in Runs, RunnerEnds(r) PROVE LoopInv'
  <2>1. /\ loop[r] = "left" /\ loop' = [loop EXCEPT ![r] = "gone"] /\ entry' = NoRun
        /\ strays' = strays \cup ({entry} \ {NoRun, r})
        /\ UNCHANGED <<started, cancelled, latest, early>>
    BY <1>6 DEF RunnerEnds, Goes, starts
  <2>2. entry \in {NoRun, r} \/ early
    BY <2>1 DEF LoopInv
  <2>3. OneLoop'
    BY <2>1, <2>2 DEF LoopInv
  <2> QED BY <2>1, <2>3 DEF LoopInv
<1>7. ASSUME NEW r \in Runs, PollAsks(r) \/ PollGets(r) \/ PollSaves(r) \/ PollDelivers(r)
                              \/ PollExpires(r)
      PROVE  LoopInv'
  <2>1. /\ UNCHANGED <<entry, started, latest, cancelled, early, strays>>
        /\ loop[r] \in {"polling", "asked", "got", "saved"}
        /\ \E l \in {"polling", "asked", "got", "saved"} : loop' = [loop EXCEPT ![r] = l]
    BY <1>7 DEF PollAsks, PollGets, PollSaves, PollDelivers, PollExpires, Goes, manager, starts
  <2> QED BY <2>1 DEF LoopInv
<1>8. CASE \/ LogoutReturns \/ (\E m \in Messages, h \in Runs : Handle(m, h))
           \/ (\E m \in Messages : MarkLapses(m)) \/ HandlingEnds \/ UNCHANGED vars
  <2>1. UNCHANGED <<entry, started, latest, cancelled, early, strays, loop>>
    BY <1>8 DEF LogoutReturns, Handle, MarkLapses, HandlingEnds, vars, manager, poll, starts
  <2> QED BY <2>1 DEF LoopInv
<1>9. CASE Restart
  <2>1. /\ loop' = [r \in Runs |-> IF loop[r] = "none" THEN "none" ELSE "gone"]
        /\ cancelled' = 1..started /\ entry' = NoRun /\ latest' = NoRun /\ strays' = {}
        /\ started' = started
    BY <1>9 DEF Restart
  <2> QED BY <2>1 DEF LoopInv
<1> QED
  BY <1>1, <1>2, <1>3, <1>4, <1>5, <1>6, <1>7, <1>8, <1>9 DEF Next, Runner

\* Every run in force is the one of the account's entry, or one that an older
\* run, which had not left when it was started, has deprived of its entry.
THEOREM OneRunPolls == Spec => []OneLoop
<1>1. Init => LoopInv
  BY DEF Init, LoopInv, OneLoop, Runs, NoRun, Live, InProgress, InForce
<1>2. AllTypes /\ LoopInv /\ [Next]_vars => LoopInv'
  BY LoopKept DEF AllTypes
<1>3. LoopInv => OneLoop
  BY DEF LoopInv
<1> QED
  BY <1>1, <1>2, <1>3, TypesHold, PTL DEF Spec
=============================================================================
