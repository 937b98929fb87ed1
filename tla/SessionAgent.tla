---------------------------- MODULE SessionAgent ----------------------------
(***************************************************************************)
(* The turn dispatcher of one session agent (internal/core/agent/lifecycle *)
(* of mocode-agent), for one session: every piece of its state is keyed by *)
(* the session ID and no critical section touches two sessions.            *)
(*                                                                         *)
(* A call c \in Calls stands both for the prompt and for the goroutine     *)
(* that submits it, through ForceRun when c \in Forced and through Run     *)
(* otherwise.  The goroutine that finds the session idle becomes a         *)
(* dispatcher: it executes turns until the prompt queue is empty.          *)
(* Summarizers are goroutines that call Summarize from outside a Run (the  *)
(* coordinator's Summarize), Cancellers call Cancel or ClearQueue.         *)
(*                                                                         *)
(* The grain is the code's: one action per runMu critical section, per     *)
(* unlocked access of the two maps and per call of a cancel function.  The *)
(* section at the end of a turn is two actions, the pop and the new busy   *)
(* entry, since Cancel, ClearQueue and Summarize read the maps without the *)
(* lock.  A cancel function is named by the goroutine whose context it     *)
(* cancels; when that context ends the cancel functions still held are     *)
(* spent and forgotten (Expire).                                           *)
(***************************************************************************)
EXTENDS Naturals, Sequences, FiniteSets, SequencesExt

CONSTANTS
    Calls,          \* prompts, each submitted once by a goroutine of its own
    Forced,         \* the calls submitted through ForceRun
    Summarizers,    \* goroutines that call Summarize directly
    Cancellers,     \* goroutines that call Cancel or ClearQueue
    AutoSummarize,  \* ~disableAutoSummarize
    MaxSummaries,   \* bound: turns that end with a summary request
    None            \* no goroutine

Owners == Calls \cup Summarizers     \* who can register in activeRequests
Procs  == Owners \cup Cancellers

ASSUME ConstantsOK ==
    /\ Forced \subseteq Calls
    /\ Calls \cap Summarizers = {} /\ Owners \cap Cancellers = {}
    /\ None \notin Procs
    /\ AutoSummarize \in BOOLEAN
    /\ MaxSummaries \in Nat

VARIABLES
    pc,         \* where each goroutine is
    call,       \* Run's local `current`: the call a dispatcher works on
    plan,       \* what Run does after Summarize; "retry" is haveCurrent
    queue,      \* messageQueue[session]
    busy,       \* activeRequests[session]: whose cancel function it holds
    cause,      \* context.Cause of each owner's live generation context
    target,     \* the cancel function a ForceRun or Cancel has fetched
    summaries,  \* turns that ended with a summary request so far
    served,     \* history: calls for which a turn has begun
    cleared,    \* history: calls removed from the queue by a clear
    revoked,    \* history: calls accepted before a Cancel that has returned
    parked,     \* history: the dispatcher that last stopped and left a queue
    slipped     \* history: calls popped by a dispatcher without the entry

vars == <<pc, call, plan, queue, busy, cause, target, summaries,
          served, cleared, revoked, parked, slipped>>
history == <<served, cleared, revoked, parked, slipped>>

Holders == Forced \cup Cancellers    \* who fetches cancel functions

\* Within the section at the end of a turn, with the next call popped.
Handover == {"next", "kicked", "slip"}
CallPC == {"new", "kick", "enter", "turn", "gap", "check", "set",
           "summarize", "append", "resume", "done"} \cup Handover
SummarizerPC == {"check", "set", "summarize", "done"}
CancellerPC  == {"new", "signal", "check", "clear", "drop", "done"}

\* Nobody is between the two steps of a section.
RunMuFree == \A p \in Calls : pc[p] \notin Handover

\* The calls a goroutine of Run is responsible for at the moment.
Holds(p) ==
    \/ pc[p] \in {"enter", "turn"} \cup Handover
    \/ /\ pc[p] \in {"check", "set", "summarize", "append"}
       /\ plan[p] \in {"retry", "continue"}

\* Goroutines of Run that will still look at the prompt queue.
Dispatching == {p \in Calls : pc[p] \in CallPC \ {"new", "kick", "done"}}

-----------------------------------------------------------------------------
(* Contexts and the busy entry *)

\* The generation context of o ends (cancelTurn(nil)): its cause is gone and
\* a cancel function of it that somebody still holds has no effect any more.
Expire(o) ==
    /\ cause'  = [cause EXCEPT ![o] = "none"]
    /\ target' = [h \in Holders |-> IF target[h] = o THEN None ELSE target[h]]

\* Calling a fetched cancel function; the first cause wins.
Signal(h, why) ==
    /\ cause' = IF target[h] # None /\ cause[target[h]] = "none"
                THEN [cause EXCEPT ![target[h]] = why]
                ELSE cause
    /\ target' = [target EXCEPT ![h] = None]

\* A turn of dispatcher p for call c begins, with a context of its own.
BeginTurn(p, c) ==
    /\ busy' = p
    /\ pc' = [pc EXCEPT ![p] = "turn"]
    /\ call' = [call EXCEPT ![p] = c]
    /\ served' = served \cup {c}
    /\ parked' = None

\* Run returns without looking at the queue again.
StopDispatch(p) ==
    /\ pc' = [pc EXCEPT ![p] = "done"]
    /\ parked' = IF queue # <<>> THEN p ELSE None

-----------------------------------------------------------------------------
(* Submitting a call *)

Run(c) ==
    /\ pc[c] = "new"
    /\ c \notin Forced
    /\ pc' = [pc EXCEPT ![c] = "enter"]
    /\ UNCHANGED <<call, plan, queue, busy, cause, target, summaries, history>>

\* ForceRun's critical section: push to the queue head and fetch the cancel
\* function of whoever is busy.  On an idle session it goes on to a.Run(call).
ForceRun(c) ==
    /\ pc[c] = "new"
    /\ c \in Forced /\ RunMuFree
    /\ queue' = <<c>> \o queue
    /\ target' = [target EXCEPT ![c] = busy]
    /\ pc' = [pc EXCEPT ![c] = IF busy # None THEN "kick" ELSE "enter"]
    /\ UNCHANGED <<call, plan, busy, cause, summaries, history>>

\* ForceRun, after unlocking: cancelFn(ErrForceKick).
Kick(c) ==
    /\ pc[c] = "kick"
    /\ Signal(c, "kick")
    /\ pc' = [pc EXCEPT ![c] = "done"]
    /\ UNCHANGED <<call, plan, queue, busy, summaries, history>>

\* Fault: the busy check is dropped.
AcquireOrEnqueue_Unchecked(p) ==
    /\ pc[p] = "enter" /\ RunMuFree
    /\ BeginTurn(p, call[p])
    /\ Expire(p)
    /\ UNCHANGED <<plan, queue, summaries, cleared, revoked, slipped>>

\* Fault: the enqueue writes back a queue it read earlier, when it was empty.
AcquireOrEnqueue_Overwrites(p) ==
    /\ pc[p] = "enter" /\ RunMuFree
    /\ \/ busy = None /\ BeginTurn(p, call[p]) /\ Expire(p) /\ UNCHANGED queue
       \/ /\ busy # None
          /\ queue' = <<call[p]>>
          /\ pc' = [pc EXCEPT ![p] = "done"]
          /\ UNCHANGED <<busy, call, cause, target, served, parked>>
    /\ UNCHANGED <<plan, summaries, cleared, revoked, slipped>>

\* Acquire-or-enqueue, with a call in hand.
AcquireOrEnqueue(p) ==
    /\ pc[p] = "enter" /\ RunMuFree
    /\ \/ /\ busy = None
          /\ BeginTurn(p, call[p]) /\ Expire(p)
          /\ UNCHANGED queue
       \/ /\ busy # None
          /\ queue' = Append(queue, call[p])
          /\ pc' = [pc EXCEPT ![p] = "done"]
          /\ UNCHANGED <<busy, call, cause, target, served, parked>>
    /\ UNCHANGED <<plan, summaries, cleared, revoked, slipped>>

\* Acquire after a summary: the next call comes from the queue head.
AcquireFromQueue(p) ==
    /\ pc[p] = "resume" /\ RunMuFree
    /\ \/ /\ busy = None /\ queue # <<>>
          /\ BeginTurn(p, Head(queue)) /\ Expire(p)
          /\ queue' = Tail(queue)
       \/ /\ busy # None \/ queue = <<>>
          /\ pc' = [pc EXCEPT ![p] = "done"]
          /\ UNCHANGED <<busy, call, queue, cause, target, served, parked>>
    /\ UNCHANGED <<plan, summaries, cleared, revoked, slipped>>

-----------------------------------------------------------------------------
(* The end of a turn.  A turn may end in any way whatever its cause: a      *)
(* cancel can arrive after the stream has finished or has failed by itself. *)

\* Fault: the next call is read but not removed.
PopNext_Peeks(p, at) ==
    /\ queue # <<>>
    /\ call' = [call EXCEPT ![p] = Head(queue)]
    /\ pc' = [pc EXCEPT ![p] = at]
    /\ UNCHANGED queue

\* Fault: the prompt that came last is popped.
PopNext_TakesLast(p, at) ==
    /\ queue # <<>>
    /\ call' = [call EXCEPT ![p] = Last(queue)]
    /\ queue' = Front(queue)
    /\ pc' = [pc EXCEPT ![p] = at]

\* popQueueLocked finds a call, with the busy entry deleted and not yet set.
PopNext(p, at) ==
    /\ queue # <<>>
    /\ call' = [call EXCEPT ![p] = Head(queue)]
    /\ queue' = Tail(queue)
    /\ pc' = [pc EXCEPT ![p] = at]

\* The first half of the section at the end of a turn: release and pop.
EndTurn(p, at, idle) ==
    /\ RunMuFree
    /\ Expire(p)
    /\ busy' = None
    /\ \/ PopNext(p, at)
       \/ /\ queue = <<>>
          /\ pc' = [pc EXCEPT ![p] = idle]
          /\ UNCHANGED <<queue, call>>
    /\ UNCHANGED <<plan, summaries, history>>

\* Fault: a finished turn releases the entry without looking at the queue.
TurnSucceeds_Returns(p) ==
    /\ pc[p] \in {"turn", "gap"} /\ RunMuFree
    /\ Expire(p)
    /\ busy' = None
    /\ pc' = [pc EXCEPT ![p] = "done"]
    /\ UNCHANGED <<call, plan, queue, summaries, history>>

\* Plain success, also reached from the force-kick branch whose `break`
\* leaves the switch and not the loop (pc "gap").
TurnSucceeds(p) ==
    \/ pc[p] = "turn" /\ EndTurn(p, "next", "done")
    \/ pc[p] = "gap"  /\ EndTurn(p, "slip", "done")

\* context.Canceled with cause ErrForceKick: go on with the queue head; with
\* an empty queue release the entry and fall through to the success code.
TurnKicked(p) ==
    /\ pc[p] = "turn" /\ cause[p] = "kick"
    /\ EndTurn(p, "kicked", "gap")

\* The second half: the entry is set again and the popped call has its turn.
\* A dispatcher from the gap does not own the entry it sets (busyOwned is
\* false), and goes back to where entries are acquired.
HandOver(p) ==
    /\ pc[p] \in Handover
    /\ busy = None
    /\ \/ /\ pc[p] # "slip"
          /\ BeginTurn(p, call[p])
          /\ UNCHANGED slipped
       \/ /\ pc[p] = "slip"
          /\ busy' = p
          /\ pc' = [pc EXCEPT ![p] = IF plan[p] = "retry" THEN "enter" ELSE "resume"]
          /\ slipped' = slipped \cup {call[p]}
          /\ UNCHANGED <<call, served, parked>>
    /\ UNCHANGED <<plan, queue, cause, target, summaries, cleared, revoked>>

\* A Summarize has registered in between: the popped call goes back to the
\* queue's head.
HandOverFails(p) ==
    /\ pc[p] \in Handover
    /\ busy # None
    /\ queue' = <<call[p]>> \o queue
    /\ pc' = [pc EXCEPT ![p] = IF pc[p] = "kicked" THEN "gap" ELSE "done"]
    /\ UNCHANGED <<call, plan, busy, cause, target, summaries, history>>

\* Any other error, a cancel by the user, or a BeforeAgent short circuit:
\* release the busy entry and return; queued prompts stay in the queue.
TurnStops(p) ==
    /\ pc[p] = "turn" /\ RunMuFree
    /\ busy' = None
    /\ Expire(p)
    /\ StopDispatch(p)
    /\ UNCHANGED <<call, plan, queue, summaries, served, cleared, revoked, slipped>>

\* The context window is exceeded ("retry") or its threshold was reached,
\* with ("continue") or without ("drain") tool calls: release the entry and
\* call Summarize.
TurnNeedsSummary(p) ==
    /\ pc[p] = "turn" /\ RunMuFree
    /\ AutoSummarize
    /\ summaries < MaxSummaries
    /\ summaries' = summaries + 1
    /\ \E next \in {"retry", "continue", "drain"} : plan' = [plan EXCEPT ![p] = next]
    /\ pc' = [pc EXCEPT ![p] = "check"]
    /\ busy' = None
    /\ Expire(p)
    /\ UNCHANGED <<call, queue, history>>

-----------------------------------------------------------------------------
(* Summarize, called by a dispatcher or from outside *)

\* Summarize returns to its caller: an error ends a Run, success lets it go
\* on according to its plan.
SummarizeReturns(o, ok) ==
    IF o \in Calls /\ ~ok
    THEN StopDispatch(o)
    ELSE /\ pc' = [pc EXCEPT ![o] =
                     IF o \in Summarizers      THEN "done"
                     ELSE IF plan[o] = "retry" THEN "enter"
                     ELSE IF plan[o] = "continue" THEN "append"
                     ELSE "resume"]
         /\ UNCHANGED parked

\* The IsSessionBusy check, outside runMu.
SummarizeCheck(o) ==
    /\ pc[o] = "check"
    /\ \/ /\ busy # None
          /\ SummarizeReturns(o, FALSE)
       \/ /\ busy = None
          /\ pc' = [pc EXCEPT ![o] = "set"]
          /\ UNCHANGED parked
    /\ UNCHANGED <<call, plan, queue, busy, cause, target, summaries,
                   served, cleared, revoked, slipped>>

\* The session or its messages cannot be read, which is an error, or there is
\* nothing to summarize, which is none: return before registering.
SummarizeGivesUp(o) ==
    /\ pc[o] = "set"
    /\ \E ok \in BOOLEAN : SummarizeReturns(o, ok)
    /\ UNCHANGED <<call, plan, queue, busy, cause, target, summaries,
                   served, cleared, revoked, slipped>>

\* activeRequests.Set, outside runMu and whatever the entry holds by now.
SummarizeRegister(o) ==
    /\ pc[o] = "set"
    /\ busy' = o
    /\ pc' = [pc EXCEPT ![o] = "summarize"]
    /\ UNCHANGED <<call, plan, queue, cause, target, summaries, history>>

\* The summary stream ends and the deferred cancel and Del run.  A summary
\* that was cancelled is deleted and reported as success.
SummarizeEnds(o) ==
    /\ pc[o] = "summarize"
    /\ busy' = None
    /\ Expire(o)
    /\ \E ok \in BOOLEAN : SummarizeReturns(o, ok)
    /\ UNCHANGED <<call, plan, queue, summaries, served, cleared, revoked, slipped>>

\* The continuation of the interrupted call goes to the queue tail.
AppendContinuation(p) ==
    /\ pc[p] = "append" /\ RunMuFree
    /\ queue' = Append(queue, call[p])
    /\ pc' = [pc EXCEPT ![p] = "resume"]
    /\ UNCHANGED <<call, plan, busy, cause, target, summaries, history>>

-----------------------------------------------------------------------------
(* Cancel and ClearQueue *)

\* Cancel reads the cancel function of the entry, without runMu.
CancelFetch(k) ==
    /\ pc[k] = "new"
    /\ target' = [target EXCEPT ![k] = busy]
    /\ pc' = [pc EXCEPT ![k] = "signal"]
    /\ UNCHANGED <<call, plan, queue, busy, cause, summaries, history>>

CancelSignal(k) ==
    /\ pc[k] = "signal"
    /\ Signal(k, "cancel")
    /\ pc' = [pc EXCEPT ![k] = "check"]
    /\ UNCHANGED <<call, plan, queue, busy, summaries, history>>

\* The calls the dispatchers have taken over: queued, or with a turn begun.
\* One that is being handed over is in neither place.
Accepted == ToSet(queue) \cup served

\* QueuedPrompts, without runMu: an empty queue is not cleared.
CancelCheck(k) ==
    /\ pc[k] = "check"
    /\ \/ /\ queue = <<>>
          /\ pc' = [pc EXCEPT ![k] = "done"]
          /\ revoked' = revoked \cup Accepted
       \/ /\ queue # <<>>
          /\ pc' = [pc EXCEPT ![k] = "clear"]
          /\ UNCHANGED revoked
    /\ UNCHANGED <<call, plan, queue, busy, cause, target, summaries,
                   served, cleared, parked, slipped>>

\* Fault: the queue survives a cancel.
DropQueue_Forgets == UNCHANGED <<queue, cleared, parked>>

DropQueue ==
    /\ queue' = <<>>
    /\ cleared' = cleared \cup ToSet(queue)
    /\ parked' = None

\* The last section of Cancel.
CancelClear(k) ==
    /\ pc[k] = "clear" /\ RunMuFree
    /\ DropQueue
    /\ revoked' = revoked \cup Accepted
    /\ pc' = [pc EXCEPT ![k] = "done"]
    /\ UNCHANGED <<call, plan, busy, cause, target, summaries, served, slipped>>

\* ClearQueue looks at the queue without the lock, too.
ClearQueue(k) ==
    /\ pc[k] = "new"
    /\ pc' = [pc EXCEPT ![k] = IF queue = <<>> THEN "done" ELSE "drop"]
    /\ UNCHANGED <<call, plan, queue, busy, cause, target, summaries, history>>

ClearQueueDrops(k) ==
    /\ pc[k] = "drop" /\ RunMuFree
    /\ DropQueue
    /\ pc' = [pc EXCEPT ![k] = "done"]
    /\ UNCHANGED <<call, plan, busy, cause, target, summaries, served, revoked, slipped>>

-----------------------------------------------------------------------------
Init ==
    /\ pc = [p \in Procs |-> IF p \in Summarizers THEN "check" ELSE "new"]
    /\ call = [c \in Calls |-> c]
    /\ plan = [c \in Calls |-> "retry"]
    /\ queue = <<>>
    /\ busy = None
    /\ cause = [o \in Owners |-> "none"]
    /\ target = [h \in Holders |-> None]
    /\ summaries = 0
    /\ served = {} /\ cleared = {} /\ revoked = {}
    /\ parked = None /\ slipped = {}

\* What a goroutine does once it has been started.
DispatchStep(p) ==
    \/ Kick(p) \/ AcquireOrEnqueue(p) \/ AcquireFromQueue(p)
    \/ TurnSucceeds(p) \/ TurnKicked(p) \/ TurnStops(p) \/ TurnNeedsSummary(p)
    \/ HandOver(p) \/ HandOverFails(p) \/ AppendContinuation(p)
SummarizeStep(o) ==
    SummarizeCheck(o) \/ SummarizeGivesUp(o) \/ SummarizeRegister(o)
    \/ SummarizeEnds(o)
CancelStep(k) ==
    CancelSignal(k) \/ CancelCheck(k) \/ CancelClear(k) \/ ClearQueueDrops(k)

\* Every goroutine has returned.
Quiescent == \A p \in Procs : pc[p] = "done"
Idle == Quiescent /\ UNCHANGED vars

Next ==
    \/ \E c \in Calls : Run(c) \/ ForceRun(c) \/ DispatchStep(c)
    \/ \E o \in Owners : SummarizeStep(o)
    \/ \E k \in Cancellers : CancelFetch(k) \/ ClearQueue(k) \/ CancelStep(k)
    \/ Idle

Spec == Init /\ [][Next]_vars

\* A started goroutine keeps running and a model call ends sooner or later;
\* nothing obliges a user to submit, summarize or cancel.
Fairness ==
    /\ \A c \in Calls : WF_vars(DispatchStep(c))
    /\ \A o \in Owners : WF_vars(pc[o] # "check" /\ SummarizeStep(o))
    /\ \A c \in Calls : WF_vars(SummarizeCheck(c))
    /\ \A k \in Cancellers : WF_vars(CancelStep(k))
FairSpec == Spec /\ Fairness

-----------------------------------------------------------------------------
(* Properties *)

\* Types of the dispatcher's state.
TypeOK ==
    /\ pc \in [Procs -> CallPC \cup SummarizerPC \cup CancellerPC]
    /\ call \in [Calls -> Calls]
    /\ plan \in [Calls -> {"retry", "continue", "drain"}]
    /\ queue \in Seq(Calls)
    /\ busy \in Owners \cup {None}
    /\ cause \in [Owners -> {"none", "cancel", "kick"}]
    /\ target \in [Holders -> Owners \cup {None}]
    /\ summaries \in 0..MaxSummaries
    /\ served \subseteq Calls /\ cleared \subseteq Calls /\ revoked \subseteq Calls
    /\ parked \in Calls \cup {None} /\ slipped \subseteq Calls

\* Run "executes a prompt as one or more strictly serialized turns": no two
\* goroutines stream from the model for the session at the same time, and the
\* busy entry is the one of the goroutine that does.
TurnsSerialized ==
    /\ \A p, q \in Owners :
          pc[p] \in {"turn", "summarize"} /\ pc[q] \in {"turn", "summarize"} => p = q
    /\ \A p \in Owners : pc[p] \in {"turn", "summarize"} => busy = p

\* The code's own conditions for serialized turns: nothing summarizes, and
\* force kicks do not meet a clear of the queue.
Undisturbed ==
    /\ ~AutoSummarize /\ Summarizers = {}
    /\ Forced = {} \/ Cancellers = {}

\* The inductive invariant behind TurnsSerialized: the busy entry names the
\* goroutine in a turn, there is none while one hands over, and a force kick,
\* delivered or about to be, is aimed at the turn in flight and has left a call
\* in the queue for it.
DispatchInv ==
    /\ \A p \in Calls : pc[p] \in {"new", "kick", "enter", "turn", "next", "kicked", "done"}
    /\ \A p \in Calls : pc[p] = "kick" => p \in Forced
    /\ \A p \in Calls : pc[p] = "turn" <=> busy = p
    /\ \A p \in Calls : pc[p] \in Handover => busy = None
    /\ \A p, q \in Calls : pc[p] \in Handover /\ pc[q] \in Handover => p = q
    /\ \A p \in Calls : cause[p] = "kick" => busy = p /\ queue # <<>> /\ Forced # {}
    /\ \A f \in Forced : target[f] # None => target[f] = busy /\ queue # <<>>

\* No accepted prompt disappears between an enqueue and a pop: it is queued,
\* carried by a goroutine of Run, has had its turn, or was cleared by a user.
\* The code loses one kind of prompt only, that which a dispatcher pops after a
\* force kick has left it without the busy entry.
NoLostCall ==
    \A c \in Calls \ slipped :
        pc[c] # "new" =>
            \/ c \in ToSet(queue) \cup served \cup cleared
            \/ \E p \in Calls : Holds(p) /\ call[p] = c

\* A prompt has one owner: it is never queued twice, carried twice, or queued
\* while a goroutine still carries it, so no prompt gets a second dispatch.
OneOwner ==
    /\ \A i, j \in 1..Len(queue) : queue[i] = queue[j] => i = j
    /\ \A p, q \in Calls : Holds(p) /\ Holds(q) /\ call[p] = call[q] => p = q
    /\ \A p \in Calls : Holds(p) => call[p] \notin ToSet(queue)

\* A queued prompt has somebody to start it: with no dispatcher at work, prompts
\* are in the queue only because the last one stopped on an error or a cancel
\* ("queued prompts survive for the next dispatch"), or came while somebody
\* summarized from outside.  A dispatcher that slipped leaves a busy entry that
\* nobody removes, and no prompt is started any more.
NoOrphanedQueue ==
    queue # <<>> /\ slipped = {} =>
        Dispatching # {} \/ busy \in Summarizers \/ parked # None

\* A step of p that begins a turn, maybe of the same call as the turn it ends.
StartsTurn(p) == DispatchStep(p) /\ pc[p]' = "turn"

\* A prompt that was queued once gets one turn, whatever order enqueues, turn
\* ends, cancels and clears come in.
OneTurnPerCall ==
    [][\A p \in Calls : StartsTurn(p) => call[p]' \notin served]_vars

\* Once Cancel has returned, no prompt that was queued or started before, and
\* none that a Cancel or a ClearQueue removed, starts a turn.  A prompt that a
\* dispatcher held between two turns when Cancel looked is neither, and runs.
CancelStopsDispatch ==
    [][\A p \in Calls : StartsTurn(p) => call[p]' \notin revoked \cup cleared]_vars

\* What the comment in Cancel says of it: "the running dispatcher pops an empty
\* queue at its turn boundary and exits without starting further turns".
CancelEndsRunning ==
    [][\A k \in Cancellers : pc[k] \in {"check", "clear"} /\ pc'[k] = "done" =>
          \A p \in Calls : pc'[p] \notin Handover]_vars

\* "Keep FIFO order": the goroutines together are a server that gives one prompt
\* its turn at a time and goes on with the prompt that has waited longest, and
\* takes none a second time.  A turn goes on when the next prompt is popped.
InTurn == {call[p] : p \in {q \in Calls : pc[q] \in {"turn"} \cup Handover}}

Serial == INSTANCE SerialDispatch WITH
    Prompts <- Calls,
    Nobody  <- None,
    line    <- queue,
    turn    <- IF InTurn = {} THEN None ELSE CHOOSE c \in InTurn : TRUE,
    past    <- served \cup cleared \cup InTurn

ImplementsSerial == Serial!Spec

=============================================================================
