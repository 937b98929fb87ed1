----------------------------- MODULE Permission -----------------------------
(***************************************************************************)
(* The permission service (internal/core/permission/permission.go): tool   *)
(* calls ask before they act, one at a time, and a client of the service   *)
(* (the terminal UI) answers the prompts it is shown.                      *)
(*                                                                         *)
(* A request r stands for the goroutine of one tool call and for the ID of *)
(* the PermissionRequest it publishes.  What stored grants compare, the    *)
(* tool, action, session and directory, is the request's key.  The         *)
(* notifications that only inform the UI are left out.                     *)
(***************************************************************************)
EXTENDS FiniteSets

CONSTANTS
    Requests,       \* calls of Request
    Clients,        \* goroutines that answer prompts
    Keys,           \* tool, action, session and directory of a request
    Sessions,
    key,            \* key of a request
    session,        \* session of a key
    PreApproved,    \* requests the allowlist or a PreToolUse hook approves
    None

ASSUME PermissionConstants ==
    /\ key \in [Requests -> Keys]
    /\ session \in [Keys -> Sessions]
    /\ PreApproved \subseteq Requests
    /\ None \notin Requests

Verdicts == {"grant", "persist", "deny"}

VARIABLES
    pc,         \* where each Request is
    holder,     \* who holds requestMu
    skip,       \* permissions are skipped altogether
    approved,   \* autoApproveSessions
    stored,     \* keys of sessionPermissions
    active,     \* activeRequest
    pending,    \* pendingRequests: requests whose answer channel is registered
    answer,     \* the buffered value of each request's answer channel
    cpc,        \* where each client is
    job,        \* the request and the verdict a client is delivering
    asked,      \* requests published as prompts
    result,     \* what each Request returned
    reason,     \* history: why
    verdicts    \* history: the <<client, request, verdict>> given so far

requestVars == <<pc, holder, active, pending, asked, result, reason>>
clientVars  == <<cpc, job, verdicts>>
vars == <<requestVars, clientVars, skip, approved, stored, answer>>

-----------------------------------------------------------------------------
(* Request *)

Return(r, res, why) ==
    /\ pc' = [pc EXCEPT ![r] = "done"]
    /\ result' = [result EXCEPT ![r] = res]
    /\ reason' = [reason EXCEPT ![r] = why]

\* The deferred Del and Unlock run when a Request that holds the lock returns.
\* Fault: the channel is deregistered but the lock is kept.
Release_KeepsLock(r) ==
    /\ pending' = pending \ {r}
    /\ UNCHANGED holder
Release(r) ==
    /\ pending' = pending \ {r}
    /\ holder' = None

\* Permissions are skipped, or the allowlist or a hook approves the call.
RequestAllowed(r) ==
    /\ pc[r] = "new"
    /\ \/ skip /\ Return(r, "allowed", "skip")
       \/ r \in PreApproved /\ Return(r, "allowed", "rule")
    /\ UNCHANGED <<holder, active, pending, asked, clientVars, skip, approved,
                   stored, answer>>

RequestQueues(r) ==
    /\ pc[r] = "new"
    /\ ~skip /\ r \notin PreApproved
    /\ pc' = [pc EXCEPT ![r] = "lock"]
    /\ UNCHANGED <<holder, active, pending, asked, result, reason, clientVars,
                   skip, approved, stored, answer>>

\* requestMu is taken; sessions that are approved as a whole return at once.
\* Fault: requests are not serialized.
RequestLocks_NoMutex(r) ==
    /\ pc[r] = "lock"
    /\ session[key[r]] \notin approved
    /\ holder' = r
    /\ pc' = [pc EXCEPT ![r] = "check"]
    /\ UNCHANGED <<result, reason, active, pending, asked, clientVars, skip,
                   approved, stored, answer>>
RequestLocks(r) ==
    /\ pc[r] = "lock"
    /\ holder = None
    /\ \/ /\ session[key[r]] \in approved
          /\ Return(r, "allowed", "session")
          /\ UNCHANGED holder
       \/ /\ session[key[r]] \notin approved
          /\ holder' = r
          /\ pc' = [pc EXCEPT ![r] = "check"]
          /\ UNCHANGED <<result, reason>>
    /\ UNCHANGED <<active, pending, asked, clientVars, skip, approved, stored,
                   answer>>

\* A grant stored for the same tool, action, session and directory.
RequestStored(r) ==
    /\ pc[r] = "check"
    /\ key[r] \in stored
    /\ Return(r, "allowed", "stored")
    /\ Release(r)
    /\ UNCHANGED <<active, asked, clientVars, skip, approved, stored, answer>>

\* Register the answer channel and publish the prompt.
Prompt(r) ==
    /\ pc[r] = "check"
    /\ key[r] \notin stored
    /\ active' = r
    /\ pending' = pending \cup {r}
    /\ asked' = asked \cup {r}
    /\ pc' = [pc EXCEPT ![r] = "wait"]
    /\ UNCHANGED <<holder, result, reason, clientVars, skip, approved, stored,
                   answer>>

TakeAnswer(r) ==
    /\ pc[r] = "wait"
    /\ answer[r] # "empty"
    /\ Return(r, answer[r], "answer")
    /\ answer' = [answer EXCEPT ![r] = "empty"]
    /\ Release(r)
    /\ UNCHANGED <<active, asked, clientVars, skip, approved, stored>>

\* The caller's context ends first.
RequestCancelled(r) ==
    /\ pc[r] = "wait"
    /\ Return(r, "cancelled", "context")
    /\ Release(r)
    /\ UNCHANGED <<active, asked, clientVars, skip, approved, stored, answer>>

-----------------------------------------------------------------------------
(* Grant, GrantPersistent and Deny.  A client answers a prompt once; the    *)
(* prompt may be one whose Request has already returned.                    *)

Decide(u, r, verdict) ==
    /\ cpc[u] = "idle"
    /\ r \in asked
    /\ \A v \in Verdicts : <<u, r, v>> \notin verdicts
    /\ job' = [job EXCEPT ![u] = [req |-> r, verdict |-> verdict]]
    /\ cpc' = [cpc EXCEPT ![u] = IF r \in pending THEN "send" ELSE "store"]
    /\ verdicts' = verdicts \cup {<<u, r, verdict>>}
    /\ UNCHANGED <<requestVars, skip, approved, stored, answer>>

\* Send the answer; the channel holds one value.
\* Fault: grant and deny are swapped.
SendAnswer_Swapped(u) ==
    /\ cpc[u] = "send"
    /\ answer[job[u].req] = "empty"
    /\ answer' = [answer EXCEPT ![job[u].req] =
                    IF job[u].verdict = "deny" THEN "allowed" ELSE "denied"]
    /\ cpc' = [cpc EXCEPT ![u] = "store"]
    /\ UNCHANGED <<requestVars, job, verdicts, skip, approved, stored>>
SendAnswer(u) ==
    /\ cpc[u] = "send"
    /\ answer[job[u].req] = "empty"
    /\ answer' = [answer EXCEPT ![job[u].req] =
                    IF job[u].verdict = "deny" THEN "denied" ELSE "allowed"]
    /\ cpc' = [cpc EXCEPT ![u] = "store"]
    /\ UNCHANGED <<requestVars, job, verdicts, skip, approved, stored>>

\* A persistent grant is stored only now; the active request is cleared.
StoreAndClear(u) ==
    /\ cpc[u] = "store"
    /\ stored' = IF job[u].verdict = "persist"
                 THEN stored \cup {key[job[u].req]} ELSE stored
    /\ active' = IF active = job[u].req THEN None ELSE active
    /\ cpc' = [cpc EXCEPT ![u] = "idle"]
    /\ UNCHANGED <<pc, holder, pending, asked, result, reason, job, verdicts,
                   skip, approved, answer>>

AutoApproveSession(s) ==
    /\ approved' = approved \cup {s}
    /\ UNCHANGED <<requestVars, clientVars, skip, stored, answer>>

SetSkipRequests(b) ==
    /\ skip' = b
    /\ UNCHANGED <<requestVars, clientVars, approved, stored, answer>>

-----------------------------------------------------------------------------
Init ==
    /\ pc = [r \in Requests |-> "new"]
    /\ holder = None /\ active = None
    /\ skip \in BOOLEAN
    /\ approved = {} /\ stored = {} /\ pending = {} /\ asked = {}
    /\ answer = [r \in Requests |-> "empty"]
    /\ cpc = [u \in Clients |-> "idle"]
    /\ job = [u \in Clients |-> [req |-> None, verdict |-> "deny"]]
    /\ result = [r \in Requests |-> "none"]
    /\ reason = [r \in Requests |-> "none"]
    /\ verdicts = {}

RequestStep(r) ==
    \/ RequestLocks(r) \/ RequestStored(r) \/ Prompt(r) \/ TakeAnswer(r)
    \/ RequestAllowed(r) \/ RequestQueues(r)
Answering(u) == SendAnswer(u) \/ StoreAndClear(u)

Next ==
    \/ \E r \in Requests : RequestStep(r) \/ RequestCancelled(r)
    \/ \E u \in Clients : Answering(u)
    \/ \E u \in Clients, r \in Requests, v \in Verdicts : Decide(u, r, v)
    \/ \E s \in Sessions : AutoApproveSession(s)
    \/ \E b \in BOOLEAN : SetSkipRequests(b)

Spec == Init /\ [][Next]_vars

\* Goroutines run, and the user answers every prompt that is still shown.
FairSpec ==
    /\ Spec
    /\ \A r \in Requests : WF_vars(RequestStep(r))
    /\ \A u \in Clients : WF_vars(Answering(u))
    /\ \A u \in Clients, r \in Requests :
          WF_vars(r \in pending /\ \E v \in Verdicts : Decide(u, r, v))

-----------------------------------------------------------------------------
(* Properties *)

\* Types of the service's state.
TypeOK ==
    /\ pc \in [Requests -> {"new", "lock", "check", "wait", "done"}]
    /\ holder \in Requests \cup {None} /\ active \in Requests \cup {None}
    /\ approved \subseteq Sessions /\ stored \subseteq Keys
    /\ pending \subseteq Requests /\ asked \subseteq Requests
    /\ answer \in [Requests -> {"empty", "allowed", "denied"}]
    /\ cpc \in [Clients -> {"idle", "send", "store"}]
    /\ job \in [Clients -> [req : Requests \cup {None}, verdict : Verdicts]]
    /\ \A u \in Clients : cpc[u] # "idle" => job[u].req \in Requests
    /\ result \in [Requests -> {"none", "allowed", "denied", "cancelled"}]
    /\ reason \in [Requests -> {"none", "skip", "rule", "session", "stored",
                                "answer", "context"}]
    /\ verdicts \subseteq Clients \X Requests \X Verdicts

\* "we only process one request at a time": one Request at most is between
\* its lock and its return, so the user is never asked two things at once and
\* only that request's answer channel is registered.
OneAtATime ==
    /\ \A r \in Requests : pc[r] \in {"check", "wait"} => holder = r
    /\ \A r \in pending : pc[r] = "wait"

\* A client gave verdict v on request r.
Given(r, v) == \E u \in Clients : <<u, r, v>> \in verdicts

\* A tool call is let through by an answer only if that prompt, and no other,
\* was granted, and by a stored grant only if a prompt with the same tool,
\* action, session and directory was granted for the session.  Late answers,
\* cancelled prompts and prompts of other calls never count.
Authorized ==
    \A r \in Requests : result[r] = "allowed" =>
        /\ reason[r] = "answer" => Given(r, "grant") \/ Given(r, "persist")
        /\ reason[r] = "stored" =>
              \E s \in Requests : key[s] = key[r] /\ Given(s, "persist")
        /\ reason[r] = "rule" => r \in PreApproved
        /\ reason[r] = "session" => session[key[r]] \in approved

\* What Authorized rests on: a buffered answer, a delivery in progress and a
\* stored grant each go back to a verdict on the prompt they stand for.
Justified ==
    /\ \A r \in Requests :
          answer[r] = "allowed" => Given(r, "grant") \/ Given(r, "persist")
    /\ \A u \in Clients : cpc[u] # "idle" =>
          <<u, job[u].req, job[u].verdict>> \in verdicts
    /\ \A k \in stored : \E s \in Requests : key[s] = k /\ Given(s, "persist")

\* A prompt the only client has denied is never let through.
DenialHolds ==
    \A r \in Requests : Given(r, "deny") => result[r] # "allowed"

\* When prompts are answered, every request that waits for its turn or for an
\* answer returns, although each of them holds the lock while it is asked.
EveryRequestReturns ==
    \A r \in Requests : pc[r] # "new" ~> pc[r] = "done"

\* Once a request was let through by a persistent grant, an equal request is
\* not prompted again.
GrantCoversNext ==
    [][\A r, s \in Requests :
          pc[r] = "check" /\ pc[r]' = "wait" /\ key[r] = key[s]
             /\ Given(s, "persist") => result[s] # "allowed"]_vars
=============================================================================
