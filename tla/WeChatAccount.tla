--------------------------- MODULE WeChatAccount ---------------------------
(***************************************************************************)
(* One WeChat account of internal/integration/wechat: the account manager  *)
(* that starts and stops its poll loop, the loops, and what becomes of the *)
(* messages of one user that they receive.                                 *)
(*                                                                         *)
(* A run is one call of Channel.Run with its context.  Every run adds its  *)
(* handler to those of the bot, and a message received by any loop goes to *)
(* all of them, in a goroutine each.  Start, Stop, Reconnect and Delete    *)
(* are called one after the other by the interface, a logout beside them.  *)
(* The server is external: it answers a poll with the message behind the   *)
(* cursor the poll was sent with, one at a time.                           *)
(*                                                                         *)
(* An account that was logged in keeps its cursor and the marks of its     *)
(* duplicate check in files; one that the program has restored from its    *)
(* registry keeps them in memory only.                                     *)
(***************************************************************************)
EXTENDS Naturals

CONSTANTS
    Sent,       \* messages the user has sent, numbered from 1
    MaxRuns,    \* bound
    MaxExpiries,\* bound: logins that expire
    MaxLapses,  \* bound: how often the mark of a message gets too old
    MaxCrashes  \* bound

ASSUME AccountBounds ==
    Sent \in Nat /\ MaxRuns \in Nat /\ MaxExpiries \in Nat /\
    MaxLapses \in Nat /\ MaxCrashes \in Nat

Messages == 1..Sent
Runs == 1..MaxRuns
NoRun == 0
NoMessage == [msg |-> 0, run |-> NoRun]

VARIABLES
    entry,      \* m.runners[id], the run whose context it cancels
    deleted,    \* the account has been removed
    op,         \* the interface: "idle" or "sleeping" in Reconnect
    logout,     \* StopAll: "idle", "waiting" or "done"
    started,    \* runs so far
    cancelled,  \* runs whose context is cancelled
    loop,       \* [Runs -> label of the goroutine]
    latest,     \* the run whose cancel functions channel and bot hold
    handlers,   \* runs whose handlers the bot has
    cursor, asked,      \* the bot's cursor, and the one a poll was sent with
    waiting,    \* goroutines handleMessage before the user's lock
    handling,   \* the one that has the lock
    recent,     \* messages with a mark of the last 24 hours
    files,      \* the account keeps its cursor and its marks in files
    saved, kept,        \* what is in the files
    expiries, crashes,
    early,      \* history: a run was started before an older one had left
    overtaken,  \* history: a run was started while a logout waits
    strays,     \* history: runs whose entry another run has deleted
    begun,      \* history: how many times a message went to the agent
    forgotten,  \* history: how many times its mark has gone
    dropped     \* history: messages a crash took before they got there

starts == <<early, overtaken>>
manager == <<entry, deleted, op, logout, started, cancelled, starts, strays>>
poll == <<loop, latest, handlers, cursor, asked, saved, expiries>>
mail == <<waiting, handling, recent, kept, begun, forgotten, dropped>>
process == <<files, crashes>>
vars == <<manager, poll, mail, process>>

-----------------------------------------------------------------------------
Live == {"new", "polling", "asked", "got", "saved"}
InForce(r) == loop[r] \in Live /\ r \notin cancelled
InProgress(r) == loop[r] \in Live \cup {"left"}
Cancel(r) == cancelled' = cancelled \cup ({r} \ {NoRun})

-----------------------------------------------------------------------------
(* The account manager, under its lock *)

\* A second Start is a no-op, and one of a deleted account an error.
StartRun ==
    IF entry # NoRun \/ deleted
    THEN UNCHANGED <<entry, started, loop, starts>>
    ELSE /\ started < MaxRuns
         /\ started' = started + 1
         /\ entry' = started'
         /\ loop' = [loop EXCEPT ![started'] = "new"]
         /\ early' = (early \/ \E r \in Runs : InProgress(r))
         /\ overtaken' = (overtaken \/ logout = "waiting")

Start ==
    /\ op = "idle"
    /\ StartRun
    /\ UNCHANGED <<deleted, op, logout, cancelled, strays, latest, handlers,
                   cursor, asked, saved, expiries, mail, process>>

Stop ==
    /\ op = "idle"
    /\ Cancel(entry) /\ entry' = NoRun
    /\ UNCHANGED <<deleted, op, logout, started, starts, strays, poll, mail, process>>

\* Fault: the entry goes, the run stays.
ReconnectCancels_KeepsRun ==
    /\ op = "idle" /\ ~deleted
    /\ entry' = NoRun
    /\ op' = "sleeping"
    /\ UNCHANGED <<deleted, logout, started, cancelled, starts, strays, poll, mail, process>>

\* Reconnect: the entry goes, and the lock is left for a short sleep.
ReconnectCancels ==
    /\ op = "idle" /\ ~deleted
    /\ Cancel(entry) /\ entry' = NoRun
    /\ op' = "sleeping"
    /\ UNCHANGED <<deleted, logout, started, starts, strays, poll, mail, process>>

ReconnectStarts ==
    /\ op = "sleeping"
    /\ op' = "idle"
    /\ StartRun
    /\ UNCHANGED <<deleted, logout, cancelled, strays, latest, handlers,
                   cursor, asked, saved, expiries, mail, process>>

\* Delete cancels the entry's run, and through Channel.Stop the latest one.
Delete ==
    /\ op = "idle" /\ ~deleted
    /\ deleted' = TRUE
    /\ cancelled' = cancelled \cup ({entry, latest} \ {NoRun})
    /\ entry' = NoRun
    /\ UNCHANGED <<op, logout, started, starts, strays, poll, mail, process>>

\* Fault: the table is emptied, the run is not cancelled.
LogoutCancels_KeepsRun ==
    /\ logout = "idle"
    /\ entry' = NoRun
    /\ logout' = "waiting"
    /\ UNCHANGED <<deleted, op, started, cancelled, starts, strays, poll, mail, process>>

\* StopAll cancels what the table has, and waits without the lock.
LogoutCancels ==
    /\ logout = "idle"
    /\ Cancel(entry) /\ entry' = NoRun
    /\ logout' = "waiting"
    /\ UNCHANGED <<deleted, op, started, starts, strays, poll, mail, process>>

LogoutReturns ==
    /\ logout = "waiting"
    /\ \A r \in Runs : ~InProgress(r)
    /\ logout' = "done"
    /\ UNCHANGED <<entry, deleted, op, started, cancelled, starts, strays, poll, mail, process>>

-----------------------------------------------------------------------------
(* The poll loop of a run *)

Goes(r, label) == loop' = [loop EXCEPT ![r] = label]

\* Channel.Run adds a handler, behind those of the runs before; Bot.Run then
\* loads the cursor, if there is one in the file.
RunBegins(r) ==
    /\ loop[r] = "new"
    /\ Goes(r, "polling")
    /\ handlers' = handlers \cup {r}
    /\ latest' = r
    /\ cursor' = IF files /\ saved # 0 THEN saved ELSE cursor
    /\ UNCHANGED <<asked, saved, expiries, manager, mail, process>>

PollAsks(r) ==
    /\ loop[r] = "polling" /\ r \notin cancelled
    /\ Goes(r, "asked")
    /\ asked' = [asked EXCEPT ![r] = cursor]
    /\ UNCHANGED <<latest, handlers, cursor, saved, expiries, manager, mail,
                   process>>

\* An answer may win the race with the cancellation.
PollGets(r) ==
    /\ loop[r] = "asked" /\ asked[r] < Sent
    /\ Goes(r, "got")
    /\ cursor' = asked[r] + 1
    /\ UNCHANGED <<latest, handlers, asked, saved, expiries, manager, mail,
                   process>>

\* saveState saves the cursor that the bot has by then.
PollSaves(r) ==
    /\ loop[r] = "got"
    /\ Goes(r, "saved")
    /\ saved' = IF files THEN cursor ELSE saved
    /\ UNCHANGED <<latest, handlers, cursor, asked, expiries, manager, mail,
                   process>>

\* The message goes to every handler, whatever became of the context.
PollDelivers(r) ==
    /\ loop[r] = "saved"
    /\ Goes(r, "polling")
    /\ waiting' = [waiting EXCEPT ![asked[r] + 1] =
                      [h \in Runs |-> IF h \in handlers THEN @[h] + 1 ELSE @[h]]]
    /\ asked' = [asked EXCEPT ![r] = 0]
    /\ UNCHANGED <<latest, handlers, cursor, saved, expiries, manager, handling,
                   recent, kept, begun, forgotten, dropped, process>>

\* The session has expired: the bot logs in again, with an empty cursor.
PollExpires(r) ==
    /\ loop[r] = "asked" /\ r \notin cancelled
    /\ expiries < MaxExpiries
    /\ expiries' = expiries + 1
    /\ Goes(r, "polling")
    /\ cursor' = 0
    /\ asked' = [asked EXCEPT ![r] = 0]
    /\ UNCHANGED <<latest, handlers, saved, manager, mail, process>>

\* A cancelled run leaves its loop, at once or after a pause.
LoopLeaves(r) ==
    /\ loop[r] \in {"polling", "asked"} /\ r \in cancelled
    /\ Goes(r, "left")
    /\ asked' = [asked EXCEPT ![r] = 0]
    /\ UNCHANGED <<latest, handlers, cursor, saved, expiries, manager, mail,
                   process>>

\* The runner's goroutine deletes the entry of the account, which may be that
\* of another run, and is done.
RunnerEnds(r) ==
    /\ loop[r] = "left"
    /\ Goes(r, "gone")
    /\ entry' = NoRun
    /\ strays' = strays \cup ({entry} \ {NoRun, r})
    /\ UNCHANGED <<deleted, op, logout, started, cancelled, starts, latest,
                   handlers, cursor, asked, saved, expiries, mail, process>>

-----------------------------------------------------------------------------
(* handleMessage, under the user's lock *)

\* Fault: the check keeps the latest message only.
isDuplicate_KeepsOne(m) ==
    /\ recent' = {m}
    /\ kept' = IF files THEN recent' ELSE kept
\* The check marks a message that has no mark, or one of more than 24 hours.
isDuplicate(m) ==
    /\ recent' = recent \cup {m}
    /\ kept' = IF files THEN recent' ELSE kept

\* A goroutine gets the lock.  A duplicate gives it back; another message
\* goes to the agent with the context of the run whose handler this is.
Handle(m, h) ==
    /\ handling = NoMessage /\ waiting[m][h] > 0
    /\ waiting' = [waiting EXCEPT ![m][h] = @ - 1]
    /\ IF m \in recent
       THEN UNCHANGED <<handling, recent, kept, begun>>
       ELSE /\ isDuplicate(m)
            /\ handling' = [msg |-> m, run |-> h]
            /\ begun' = [begun EXCEPT ![m] = @ + 1]
    /\ UNCHANGED <<forgotten, dropped, manager, poll, process>>

\* The agent's turn and the reply, which both need a context in force.
HandlingEnds ==
    /\ handling # NoMessage
    /\ handling' = NoMessage
    /\ UNCHANGED <<waiting, recent, kept, begun, forgotten, dropped, manager,
                   poll, process>>

\* 24 hours after it was made a mark counts no more, in the file neither.
MarkLapses(m) ==
    /\ m \in recent /\ forgotten[m] < MaxLapses
    /\ recent' = recent \ {m} /\ kept' = kept \ {m}
    /\ forgotten' = [forgotten EXCEPT ![m] = @ + 1]
    /\ UNCHANGED <<waiting, handling, begun, dropped, manager, poll, process>>

-----------------------------------------------------------------------------
(* A crash *)

\* A message between the server and the agent.
Due(m) ==
    \/ \E h \in Runs : waiting[m][h] > 0
    \/ \E r \in Runs : loop[r] \in {"got", "saved"} /\ asked[r] + 1 = m

\* The crash may come while a file is written, which is empty then; files that
\* the account did not use any more may be too old by now.
CursorLeft ==
    {saved} \cup (IF files /\ \E r \in Runs : loop[r] = "got" THEN {0} ELSE {})
MarksLeft ==
    IF ~files THEN SUBSET kept
    ELSE {kept} \cup (IF \E m \in Messages \ recent, h \in Runs : waiting[m][h] > 0
                       THEN {{}} ELSE {})

\* The program dies and is started again.  The account is restored, or logged
\* in once more.
Restart ==
    /\ crashes < MaxCrashes /\ crashes' = crashes + 1
    /\ files' \in BOOLEAN
    /\ saved' \in CursorLeft /\ kept' \in MarksLeft
    /\ recent' = IF files' THEN kept' ELSE {}
    /\ forgotten' = [m \in Messages |->
                        forgotten[m] + (IF m \in recent \ recent' THEN 1 ELSE 0)]
    /\ dropped' = dropped \cup {m \in Messages : Due(m)}
    /\ waiting' = [m \in Messages |-> [h \in Runs |-> 0]] /\ handling' = NoMessage
    /\ loop' = [r \in Runs |-> IF loop[r] = "none" THEN "none" ELSE "gone"]
    /\ cancelled' = 1..started /\ latest' = NoRun /\ handlers' = {}
    /\ entry' = NoRun /\ op' = "idle" /\ logout' = "idle"
    /\ cursor' = 0 /\ asked' = [r \in Runs |-> 0]
    /\ early' = FALSE /\ overtaken' = FALSE /\ strays' = {}
    /\ UNCHANGED <<deleted, started, expiries, begun>>

-----------------------------------------------------------------------------
Init ==
    /\ entry = NoRun /\ deleted = FALSE /\ op = "idle" /\ logout = "idle"
    /\ started = 0 /\ cancelled = {}
    /\ early = FALSE /\ overtaken = FALSE /\ strays = {}
    /\ loop = [r \in Runs |-> "none"] /\ latest = NoRun /\ handlers = {}
    /\ cursor = 0 /\ asked = [r \in Runs |-> 0] /\ saved = 0 /\ expiries = 0
    /\ waiting = [m \in Messages |-> [h \in Runs |-> 0]]
    /\ handling = NoMessage /\ recent = {} /\ kept = {}
    /\ begun = [m \in Messages |-> 0] /\ forgotten = [m \in Messages |-> 0]
    /\ dropped = {} /\ files \in BOOLEAN /\ crashes = 0

Runner(r) ==
    RunBegins(r) \/ PollSaves(r) \/ PollDelivers(r) \/ LoopLeaves(r) \/ RunnerEnds(r)

Next ==
    \/ Start \/ Stop \/ ReconnectCancels \/ ReconnectStarts \/ Delete
    \/ LogoutCancels \/ LogoutReturns
    \/ \E r \in Runs : Runner(r) \/ PollAsks(r) \/ PollGets(r) \/ PollExpires(r)
    \/ \E m \in Messages, h \in Runs : Handle(m, h)
    \/ HandlingEnds
    \/ \E m \in Messages : MarkLapses(m)
    \/ Restart

Spec == Init /\ [][Next]_vars

\* Goroutines go on, and a cancelled request returns; nobody has to log out.
FairSpec ==
    /\ Spec
    /\ WF_vars(LogoutReturns)
    /\ \A r \in Runs : WF_vars(Runner(r))

-----------------------------------------------------------------------------
(* Properties *)

\* Types of the account's state.
TypeOK ==
    /\ entry \in Runs \cup {NoRun} /\ latest \in Runs \cup {NoRun}
    /\ deleted \in BOOLEAN /\ early \in BOOLEAN /\ overtaken \in BOOLEAN
    /\ op \in {"idle", "sleeping"} /\ logout \in {"idle", "waiting", "done"}
    /\ started \in 0..MaxRuns /\ expiries \in 0..MaxExpiries
    /\ crashes \in 0..MaxCrashes /\ files \in BOOLEAN
    /\ loop \in [Runs -> Live \cup {"none", "left", "gone"}]
    /\ cancelled \subseteq Runs /\ handlers \subseteq Runs /\ strays \subseteq Runs
    /\ cursor \in 0..Sent /\ asked \in [Runs -> 0..Sent] /\ saved \in 0..Sent
    /\ waiting \in [Messages -> [Runs -> Nat]]
    /\ handling \in [msg : Messages, run : Runs] \cup {NoMessage}
    /\ recent \subseteq Messages /\ kept \subseteq Messages /\ dropped \subseteq Messages
    /\ begun \in [Messages -> Nat] /\ forgotten \in [Messages -> Nat]

\* However many loops poll with one cursor, however often it goes back and
\* however many handlers a message is given to, a message goes to the agent once
\* for every time that its mark was forgotten and once more.  One behind the
\* cursor has been there, or is on its way, or a crash took it on its way.
HandledOnce ==
    \A m \in Messages :
        /\ begun[m] <= forgotten[m] + 1
        /\ m <= cursor => begun[m] > 0 \/ Due(m) \/ m \in dropped

\* Every run in force is the one of the account's entry, which Stop, Reconnect
\* and a logout cancel, or one whose entry the goroutine of an older run has
\* deleted; and that happens only to a run started before the older one had left.
OneLoop ==
    /\ \A r \in Runs : r \notin strays => (InForce(r) <=> entry = r)
    /\ strays # {} => early

\* A logout returns, unless a run is started meanwhile or is in force without
\* an entry.
LogoutEnds ==
    (logout = "waiting") ~>
        (logout # "waiting" \/ overtaken \/ \E r \in strays : InForce(r))

\* "Only one Run() per account is allowed at a time".
OnlyOneRun == \A r, s \in Runs : InForce(r) /\ InForce(s) => r = s

\* isDuplicate "returns true if the message has already been processed": what
\* has a mark had a context in force until it was processed.
DuplicateProcessed == [][HandlingEnds => handling.run \notin cancelled]_vars
=============================================================================
