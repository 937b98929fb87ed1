------------------------------ MODULE Question ------------------------------
(***************************************************************************)
(* The question service (internal/core/question/question.go): a tool call  *)
(* asks the user and blocks; clients show the question as a form and       *)
(* answer or cancel it.  The service has one slot for the channels of the  *)
(* pending question and no correlation IDs, so what reaches which Ask is a *)
(* matter of timing.                                                       *)
(*                                                                         *)
(* An ask a stands for the goroutine of one Ask, for its request ID and    *)
(* for the two channels, answer and cancellation, it puts into the slot.   *)
(* A client is the event loop of a user interface (ui/model/ui_question.go)*)
(* : it opens forms, dismisses them on notifications, and calls Answer and *)
(* Cancel itself.  Questions and notifications reach it through separate   *)
(* brokers, so only each kind is in order.                                 *)
(***************************************************************************)
EXTENDS Naturals, Sequences

CONSTANTS
    Asks,       \* calls of Ask that pass Validate
    Clients,    \* event loops that show forms and answer them
    None

ASSUME QuestionConstants == None \notin Asks

VARIABLES
    pc,         \* where each Ask is
    slot,       \* s.pending and s.cancelled: whose channels they are
    reads,      \* the slot an Ask's select found, for the cancel and the answer
    answer,     \* the value buffered in each answer channel
    closed,     \* what closed each cancellation channel; Open if nothing has
    opens,      \* questions on their way to each client
    notes,      \* number of notifications on their way to each client
    form,       \* the question a client shows
    cpc,        \* where each client is
    hold,       \* the channels a client has fetched, and its response
    stale,      \* history: Asks that a response given before they began ended
    misfit,     \* history: Asks that got the answers to another's form
    disturbed,  \* history: Asks that another overlapped or a late event can reach
    panicked    \* a closed channel was closed again, which ends the program

askVars == <<pc, slot, reads, stale, misfit, disturbed>>
clientVars == <<form, cpc, hold>>
vars == <<askVars, clientVars, answer, closed, opens, notes, panicked>>

Begun == {a \in Asks : pc[a] # "new"}

\* What a user gives: the form it is meant for, and the Asks there were.
Responses == [form : Asks \cup {None}, asked : SUBSET Asks]
Open == [form |-> None, asked |-> {}]

\* A client has dealt with everything it was sent.
AtRest(u) == cpc[u] = "idle" /\ form[u] = None /\ opens[u] = <<>> /\ notes[u] = 0

\* Asks in progress when a begins, and a itself if it meets one of them or a
\* client that still deals with an earlier question.
Disturbs(a) ==
    LET others == {b \in Asks : pc[b] \notin {"new", "done"}}
    IN others \cup (IF others = {} /\ \A u \in Clients : AtRest(u) THEN {} ELSE {a})

-----------------------------------------------------------------------------
(* Ask *)

\* Fault: the slot keeps its channels while it has some.
AskFills_Keeps(a) ==
    /\ pc[a] = "new"
    /\ slot' = IF slot = None THEN a ELSE slot
    /\ disturbed' = disturbed \cup Disturbs(a)
    /\ pc' = [pc EXCEPT ![a] = "publish"]
    /\ UNCHANGED <<reads, answer, stale, misfit, clientVars, closed, opens, notes,
                   panicked>>

\* Fault: no channels are made.
AskFills_Skipped(a) ==
    /\ pc[a] = "new"
    /\ disturbed' = disturbed \cup Disturbs(a)
    /\ pc' = [pc EXCEPT ![a] = "publish"]
    /\ UNCHANGED <<slot, reads, answer, stale, misfit, clientVars, closed, opens,
                   notes, panicked>>

\* New channels go into the slot, under the lock, whatever is in it.
AskFills(a) ==
    /\ pc[a] = "new"
    /\ slot' = a
    /\ disturbed' = disturbed \cup Disturbs(a)
    /\ pc' = [pc EXCEPT ![a] = "publish"]
    /\ UNCHANGED <<reads, answer, stale, misfit, clientVars, closed, opens, notes,
                   panicked>>

AskPublishes(a) ==
    /\ pc[a] = "publish"
    /\ opens' = [u \in Clients |-> Append(opens[u], a)]
    /\ pc' = [pc EXCEPT ![a] = "select"]
    /\ UNCHANGED <<slot, reads, answer, stale, misfit, disturbed, clientVars,
                   closed, notes, panicked>>

\* The select evaluates s.cancelled and s.pending without the lock; by then
\* they may be another Ask's, or nil.
AskReadsCancel(a) ==
    /\ pc[a] = "select"
    /\ reads' = [reads EXCEPT ![a].cancel = slot]
    /\ pc' = [pc EXCEPT ![a] = "pending"]
    /\ UNCHANGED <<slot, answer, stale, misfit, disturbed, clientVars, closed,
                   opens, notes, panicked>>
AskReadsPending(a) ==
    /\ pc[a] = "pending"
    /\ reads' = [reads EXCEPT ![a].pending = slot]
    /\ pc' = [pc EXCEPT ![a] = "receive"]
    /\ UNCHANGED <<slot, answer, stale, misfit, disturbed, clientVars, closed,
                   opens, notes, panicked>>

Return(a, how, response) ==
    /\ stale' = stale \cup (IF how = "aborted" \/ a \in response.asked THEN {} ELSE {a})
    /\ misfit' = misfit \cup (IF how # "answered" \/ response.form = a THEN {} ELSE {a})
    /\ pc' = [pc EXCEPT ![a] = "clear"]
    /\ reads' = [reads EXCEPT ![a] = [cancel |-> None, pending |-> None]]
    /\ UNCHANGED <<slot, disturbed, clientVars, closed, opens, notes, panicked>>

AskReceives(a) ==
    /\ pc[a] = "receive"
    /\ reads[a].pending # None /\ answer[reads[a].pending] # Open
    /\ Return(a, "answered", answer[reads[a].pending])
    /\ answer' = [answer EXCEPT ![reads[a].pending] = Open]
AskCancelled(a) ==
    /\ pc[a] = "receive"
    /\ reads[a].cancel # None /\ closed[reads[a].cancel] # Open
    /\ Return(a, "cancelled", closed[reads[a].cancel])
    /\ UNCHANGED answer
\* The caller's context ends first; the form stays open.
AskAborted(a) ==
    /\ pc[a] = "receive"
    /\ Return(a, "aborted", Open)
    /\ UNCHANGED answer

\* The deferred section empties the slot, whoever filled it.
\* Fault: the slot is not emptied.
AskClears_KeepsSlot(a) ==
    /\ pc[a] = "clear"
    /\ pc' = [pc EXCEPT ![a] = "done"]
    /\ UNCHANGED <<slot, reads, answer, stale, misfit, disturbed, clientVars,
                   closed, opens, notes, panicked>>
AskClears(a) ==
    /\ pc[a] = "clear"
    /\ slot' = None
    /\ pc' = [pc EXCEPT ![a] = "done"]
    /\ UNCHANGED <<reads, answer, stale, misfit, disturbed, clientVars, closed,
                   opens, notes, panicked>>

-----------------------------------------------------------------------------
(* The client's event loop *)

\* openQuestionDialog: a form that is open is replaced.
Show(u) ==
    /\ cpc[u] = "idle" /\ opens[u] # <<>>
    /\ form' = [form EXCEPT ![u] = Head(opens[u])]
    /\ opens' = [opens EXCEPT ![u] = Tail(opens[u])]
    /\ UNCHANGED <<askVars, answer, closed, notes, cpc, hold, panicked>>

\* handleQuestionNotification: whatever form is open is closed.
Dismiss(u) ==
    /\ cpc[u] = "idle" /\ notes[u] > 0
    /\ form' = [form EXCEPT ![u] = None]
    /\ notes' = [notes EXCEPT ![u] = @ - 1]
    /\ UNCHANGED <<askVars, answer, closed, opens, cpc, hold, panicked>>

\* Answer and Cancel fetch the channel under the lock and use it after; with
\* an empty slot they return false.  The form closes either way.
Respond(u, how) ==
    /\ cpc[u] = "idle" /\ form[u] # None
    /\ form' = [form EXCEPT ![u] = None]
    /\ \/ slot = None /\ UNCHANGED <<cpc, hold>>
       \/ /\ slot # None
          /\ hold' = [hold EXCEPT ![u] =
                         [chan |-> slot, response |->
                             [form |-> IF how = "answer" THEN form[u] ELSE None,
                              asked |-> Begun]]]
          /\ cpc' = [cpc EXCEPT ![u] = how]
    /\ UNCHANGED <<askVars, answer, closed, opens, notes, panicked>>

\* The channel holds one value; with a value in it the event loop blocks.
SendAnswer(u) ==
    /\ cpc[u] = "answer"
    /\ answer[hold[u].chan] = Open
    /\ answer' = [answer EXCEPT ![hold[u].chan] = hold[u].response]
    /\ cpc' = [cpc EXCEPT ![u] = "notify"]
    /\ UNCHANGED <<askVars, form, hold, closed, opens, notes, panicked>>

CloseCancel(u) ==
    /\ cpc[u] = "cancel"
    /\ panicked' = (closed[hold[u].chan] # Open)
    /\ closed' = [closed EXCEPT ![hold[u].chan] = hold[u].response]
    /\ cpc' = [cpc EXCEPT ![u] = "notify"]
    /\ UNCHANGED <<askVars, answer, form, hold, opens, notes>>

\* All clients are told, the one that answered too.
Notify(u) ==
    /\ cpc[u] = "notify"
    /\ notes' = [v \in Clients |-> notes[v] + 1]
    /\ cpc' = [cpc EXCEPT ![u] = "idle"]
    /\ hold' = [hold EXCEPT ![u] = [chan |-> None, response |-> Open]]
    /\ UNCHANGED <<askVars, answer, form, closed, opens, panicked>>

-----------------------------------------------------------------------------
Init ==
    /\ pc = [a \in Asks |-> "new"]
    /\ slot = None
    /\ reads = [a \in Asks |-> [cancel |-> None, pending |-> None]]
    /\ answer = [a \in Asks |-> Open]
    /\ closed = [a \in Asks |-> Open]
    /\ opens = [u \in Clients |-> <<>>]
    /\ notes = [u \in Clients |-> 0]
    /\ form = [u \in Clients |-> None]
    /\ cpc = [u \in Clients |-> "idle"]
    /\ hold = [u \in Clients |-> [chan |-> None, response |-> Open]]
    /\ stale = {} /\ misfit = {}
    /\ disturbed = {}
    /\ panicked = FALSE

AskStep(a) ==
    \/ AskPublishes(a) \/ AskReadsCancel(a) \/ AskReadsPending(a)
    \/ AskReceives(a) \/ AskCancelled(a) \/ AskClears(a)
Delivering(u) == SendAnswer(u) \/ CloseCancel(u) \/ Notify(u)
Responding(u) == \E how \in {"answer", "cancel"} : Respond(u, how)
ClientStep(u) == Show(u) \/ Dismiss(u) \/ Responding(u) \/ Delivering(u)

Next ==
    /\ ~panicked
    /\ \/ \E a \in Asks : AskFills(a) \/ AskStep(a) \/ AskAborted(a)
       \/ \E u \in Clients : ClientStep(u)

Spec == Init /\ [][Next]_vars

\* Goroutines and event loops run, and the user answers or cancels a form
\* that is shown.
FairSpec ==
    /\ Spec
    /\ \A a \in Asks : WF_vars(~panicked /\ AskStep(a))
    /\ \A u \in Clients : WF_vars(~panicked /\ ClientStep(u))

-----------------------------------------------------------------------------
(* Properties *)

\* Types of the service's state.
TypeOK ==
    /\ pc \in [Asks -> {"new", "publish", "select", "pending", "receive",
                        "clear", "done"}]
    /\ slot \in Asks \cup {None}
    /\ reads \in [Asks -> [cancel : Asks \cup {None}, pending : Asks \cup {None}]]
    /\ answer \in [Asks -> Responses] /\ closed \in [Asks -> Responses]
    /\ opens \in [Clients -> Seq(Asks)] /\ notes \in [Clients -> Nat]
    /\ form \in [Clients -> Asks \cup {None}]
    /\ cpc \in [Clients -> {"idle", "answer", "cancel", "notify"}]
    /\ hold \in [Clients -> [chan : Asks \cup {None}, response : Responses]]
    /\ stale \subseteq Asks /\ misfit \subseteq Asks /\ disturbed \subseteq Asks
    /\ panicked \in BOOLEAN

\* What ends an Ask, answers or a cancel, a user gave after the Ask had begun:
\* nothing meant for an earlier question waits for the next one, however Asks
\* overlap and whatever becomes of their forms.
ResponseIsFresh == stale = {}

\* What the comments take for granted ("only one question can be pending at a
\* time"): an Ask returns the answers to its own form.
AnswerFitsQuestion == misfit = {}

\* And that a cancel of what is cancelled already is harmless ("Returns false if
\* no question is pending").
CancelIsSafe == ~panicked

\* The slot names the channels of an Ask that has not returned: no client
\* resolves a question that is over.
SlotIsLive == slot # None => pc[slot] \notin {"new", "done"}

\* When the user answers or cancels what is shown, an Ask that has the slot and
\* the clients to itself returns.
EveryAskReturns ==
    \A a \in Asks : pc[a] = "publish" ~> pc[a] = "done" \/ a \in disturbed \/ panicked
=============================================================================
