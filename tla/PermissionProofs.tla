-------------------------- MODULE PermissionProofs --------------------------
(***************************************************************************)
(* Proofs about Permission, for any requests, clients, keys and sessions:  *)
(* types, one request at a time, that nothing is let through without an    *)
(* authorization, and, with one client, that what it denied stays denied.  *)
(***************************************************************************)
EXTENDS Permission, TLAPS

USE PermissionConstants

\* The actions, grouped by what they write, for the proofs below.
Unlocked(r) == RequestAllowed(r) \/ RequestQueues(r)

\* The service's state keeps its types.
THEOREM PermissionTypes == Spec => []TypeOK
<1> USE DEF TypeOK, Verdicts
<1>1. Init => TypeOK
  BY DEF Init
<1>2. TypeOK /\ [Next]_vars => TypeOK'
  <2> SUFFICES ASSUME TypeOK, [Next]_vars
               PROVE  TypeOK'
    OBVIOUS
  <2>1. ASSUME NEW r \in Requests, Unlocked(r) PROVE TypeOK'
    BY <2>1 DEF Unlocked, RequestAllowed, RequestQueues, Return, clientVars
  <2>2. ASSUME NEW r \in Requests, RequestLocks(r) PROVE TypeOK'
    BY <2>2 DEF RequestLocks, Return, clientVars
  <2>3. ASSUME NEW r \in Requests, RequestStored(r) \/ RequestCancelled(r) PROVE TypeOK'
    BY <2>3 DEF RequestStored, RequestCancelled, Return, Release, clientVars
  <2>4. ASSUME NEW r \in Requests, Prompt(r) PROVE TypeOK'
    BY <2>4 DEF Prompt, clientVars
  <2>5. ASSUME NEW r \in Requests, TakeAnswer(r) PROVE TypeOK'
    BY <2>5 DEF TakeAnswer, Return, Release, clientVars
  <2>6. ASSUME NEW u \in Clients, SendAnswer(u) PROVE TypeOK'
    BY <2>6 DEF SendAnswer, requestVars
  <2>7. ASSUME NEW u \in Clients, StoreAndClear(u) PROVE TypeOK'
    BY <2>7 DEF StoreAndClear
  <2>8. ASSUME NEW u \in Clients, NEW r \in Requests, NEW v \in Verdicts, Decide(u, r, v)
        PROVE  TypeOK'
    BY <2>8 DEF Decide, requestVars
  <2>9. ASSUME NEW s \in Sessions, AutoApproveSession(s) PROVE TypeOK'
    BY <2>9 DEF AutoApproveSession, requestVars, clientVars
  <2>10. CASE UNCHANGED vars \/ \E b \in BOOLEAN : SetSkipRequests(b)
    BY <2>10 DEF SetSkipRequests, vars, requestVars, clientVars
  <2> QED
    BY <2>1, <2>2, <2>3, <2>4, <2>5, <2>6, <2>7, <2>8, <2>9, <2>10
    DEF Next, RequestStep, Answering, Unlocked
<1> QED
  BY <1>1, <1>2, PTL DEF Spec

-----------------------------------------------------------------------------
\* "we only process one request at a time": between its lock and its return a
\* Request is alone, and only its channel can receive an answer.
THEOREM Mutex == Spec => []OneAtATime
<1> DEFINE Inv == OneAtATime /\ (\A r \in Requests : holder = r => pc[r] \in {"check", "wait"})
<1>1. Init => Inv
  BY DEF Init, OneAtATime
<1>2. TypeOK /\ Inv /\ [Next]_vars => Inv'
  <2> SUFFICES ASSUME TypeOK, Inv, [Next]_vars
               PROVE  Inv'
    OBVIOUS
  <2> USE DEF TypeOK, OneAtATime
  <2>1. ASSUME NEW r \in Requests, Unlocked(r) PROVE Inv'
    BY <2>1 DEF Unlocked, RequestAllowed, RequestQueues, Return
  <2>2. ASSUME NEW r \in Requests, RequestLocks(r) PROVE Inv'
    BY <2>2 DEF RequestLocks, Return
  <2>3. ASSUME NEW r \in Requests, RequestStored(r) \/ RequestCancelled(r) \/ TakeAnswer(r)
        PROVE  Inv'
    BY <2>3 DEF RequestStored, RequestCancelled, TakeAnswer, Return, Release
  <2>4. ASSUME NEW r \in Requests, Prompt(r) PROVE Inv'
    BY <2>4 DEF Prompt
  <2>5. CASE UNCHANGED <<pc, holder, pending>>
    BY <2>5
  <2> QED
    BY <2>1, <2>2, <2>3, <2>4, <2>5
    DEF Next, RequestStep, Answering, Unlocked, SendAnswer, StoreAndClear, Decide,
        AutoApproveSession, SetSkipRequests, vars, requestVars
<1> QED
  BY <1>1, <1>2, PermissionTypes, PTL DEF Spec

\* No tool call is let through without an authorization: a verdict on its own
\* prompt, a stored grant that a verdict on an equal prompt created, a rule, or
\* the approval of its session.
THEOREM NothingUnauthorized == Spec => []Authorized
<1> USE DEF Verdicts
<1>1. Init => Authorized /\ Justified
  BY DEF Init, Authorized, Justified
<1>2. TypeOK /\ Authorized /\ Justified /\ [Next]_vars => (Authorized /\ Justified)'
  <2> SUFFICES ASSUME TypeOK, Authorized, Justified, [Next]_vars
               PROVE  Authorized' /\ Justified'
    OBVIOUS
  <2> USE DEF TypeOK, Authorized, Justified, Given
  <2>1. ASSUME NEW r \in Requests, Unlocked(r) PROVE Authorized' /\ Justified'
    <3>1. UNCHANGED <<stored, approved, answer, cpc, job, verdicts>>
      BY <2>1 DEF Unlocked, RequestAllowed, RequestQueues, clientVars
    <3>2. \/ UNCHANGED <<result, reason>>
          \/ Return(r, "allowed", "skip")
          \/ r \in PreApproved /\ Return(r, "allowed", "rule")
      BY <2>1, Zenon DEF Unlocked, RequestAllowed, RequestQueues
    <3>3. Authorized'
      <4>1. CASE UNCHANGED <<result, reason>>
        BY <3>1, <4>1
      <4>2. CASE Return(r, "allowed", "skip")
        BY <3>1, <4>2 DEF Return
      <4>3. CASE r \in PreApproved /\ Return(r, "allowed", "rule")
        BY <3>1, <4>3 DEF Return
      <4> QED BY <3>2, <4>1, <4>2, <4>3
    <3> QED BY <3>1, <3>3
  <2>2. ASSUME NEW r \in Requests, RequestLocks(r) PROVE Authorized' /\ Justified'
    <3>1. UNCHANGED <<stored, approved, answer, cpc, job, verdicts>>
      BY <2>2 DEF RequestLocks, clientVars
    <3>2. \/ UNCHANGED <<result, reason>>
          \/ session[key[r]] \in approved /\ Return(r, "allowed", "session")
      BY <2>2 DEF RequestLocks
    <3>3. Authorized'
      <4>1. CASE UNCHANGED <<result, reason>>
        BY <3>1, <4>1
      <4>2. CASE session[key[r]] \in approved /\ Return(r, "allowed", "session")
        BY <3>1, <4>2 DEF Return
      <4> QED BY <3>2, <4>1, <4>2
    <3> QED BY <3>1, <3>3
  <2>3. ASSUME NEW r \in Requests, RequestStored(r) PROVE Authorized' /\ Justified'
    BY <2>3 DEF RequestStored, Return, Release, clientVars
  <2>4. ASSUME NEW r \in Requests, RequestCancelled(r) PROVE Authorized' /\ Justified'
    BY <2>4 DEF RequestCancelled, Return, Release, clientVars
  <2>5. ASSUME NEW r \in Requests, TakeAnswer(r) PROVE Authorized' /\ Justified'
    BY <2>5 DEF TakeAnswer, Return, Release, clientVars
  <2>6. ASSUME NEW r \in Requests, Prompt(r) PROVE Authorized' /\ Justified'
    BY <2>6 DEF Prompt, clientVars
  <2>7. ASSUME NEW u \in Clients, SendAnswer(u) PROVE Authorized' /\ Justified'
    <3> DEFINE q == job[u].req
    <3>1. q \in Requests /\ <<u, q, job[u].verdict>> \in verdicts /\ job[u].verdict \in Verdicts
      BY <2>7 DEF SendAnswer
    <3>2. job[u].verdict # "deny" => Given(q, "grant") \/ Given(q, "persist")
      BY <3>1
    <3>3. UNCHANGED <<result, reason, stored, approved, job, verdicts>>
      BY <2>7 DEF SendAnswer, requestVars
    <3>4. Authorized'
      BY <3>3
    <3>5. Justified'
      BY <2>7, <3>1, <3>2, <3>3 DEF SendAnswer
    <3> QED BY <3>4, <3>5
  <2>8. ASSUME NEW u \in Clients, StoreAndClear(u) PROVE Authorized' /\ Justified'
    BY <2>8 DEF StoreAndClear
  <2>9. ASSUME NEW u \in Clients, NEW r \in Requests, NEW v \in Verdicts, Decide(u, r, v)
        PROVE  Authorized' /\ Justified'
    BY <2>9 DEF Decide, requestVars
  <2>10. ASSUME NEW s \in Sessions, AutoApproveSession(s) PROVE Authorized' /\ Justified'
    BY <2>10 DEF AutoApproveSession, requestVars, clientVars
  <2>11. CASE UNCHANGED vars \/ \E b \in BOOLEAN : SetSkipRequests(b)
    BY <2>11 DEF SetSkipRequests, vars, requestVars, clientVars
  <2> QED
    <3> HIDE DEF TypeOK, Authorized, Justified, Given
    <3> QED
      BY <2>1, <2>2, <2>3, <2>4, <2>5, <2>6, <2>7, <2>8, <2>9, <2>10, <2>11
      DEF Next, RequestStep, Answering, Unlocked
<1> QED
  BY <1>1, <1>2, PermissionTypes, PTL DEF Spec

-----------------------------------------------------------------------------
\* What DenialHolds rests on besides Authorized: a prompted request is let
\* through by its answer only, and a client gives one verdict on each prompt.
PromptInv ==
    /\ \A r \in asked : pc[r] \in {"wait", "done"}
    /\ \A r \in Requests : pc[r] # "done" => result[r] = "none"
    /\ \A r \in asked : result[r] = "allowed" => reason[r] = "answer"
    /\ \A u \in Clients, r \in Requests, v \in Verdicts :
          <<u, r, v>> \in verdicts => r \in asked
    /\ \A u \in Clients, r \in Requests, v, w \in Verdicts :
          <<u, r, v>> \in verdicts /\ <<u, r, w>> \in verdicts => v = w

LEMMA PromptInvariant == Spec => []PromptInv
<1>1. Init => PromptInv
  BY DEF Init, PromptInv
<1>2. TypeOK /\ PromptInv /\ [Next]_vars => PromptInv'
  <2> SUFFICES ASSUME TypeOK, PromptInv, [Next]_vars
               PROVE  PromptInv'
    OBVIOUS
  <2> USE DEF TypeOK, PromptInv
  <2>1. ASSUME NEW r \in Requests, Unlocked(r) \/ RequestLocks(r) PROVE PromptInv'
    <3>1. r \notin asked /\ UNCHANGED <<asked, verdicts>>
      BY <2>1 DEF Unlocked, RequestAllowed, RequestQueues, RequestLocks, clientVars
    <3>2. pc' \in {[pc EXCEPT ![r] = l] : l \in {"lock", "check", "done"}}
      BY <2>1 DEF Unlocked, RequestAllowed, RequestQueues, RequestLocks, Return
    <3>3. \A s \in Requests \ {r} : result'[s] = result[s] /\ reason'[s] = reason[s]
      BY <2>1 DEF Unlocked, RequestAllowed, RequestQueues, RequestLocks, Return
    <3>4. pc[r] # "done" /\ (pc'[r] # "done" => result'[r] = result[r])
      BY <2>1 DEF Unlocked, RequestAllowed, RequestQueues, RequestLocks, Return
    <3> QED BY <3>1, <3>2, <3>3, <3>4
  <2>2. ASSUME NEW r \in Requests, RequestStored(r) PROVE PromptInv'
    BY <2>2 DEF RequestStored, Return, clientVars
  <2>3. ASSUME NEW r \in Requests, RequestCancelled(r) PROVE PromptInv'
    BY <2>3 DEF RequestCancelled, Return, clientVars
  <2>4. ASSUME NEW r \in Requests, TakeAnswer(r) PROVE PromptInv'
    BY <2>4 DEF TakeAnswer, Return, clientVars
  <2>5. ASSUME NEW r \in Requests, Prompt(r) PROVE PromptInv'
    BY <2>5 DEF Prompt, clientVars
  <2>6. ASSUME NEW u \in Clients, NEW r \in Requests, NEW v \in Verdicts, Decide(u, r, v)
        PROVE  PromptInv'
    BY <2>6 DEF Decide, requestVars
  <2>7. CASE UNCHANGED <<pc, asked, result, reason, verdicts>>
    BY <2>7
  <2> QED
    BY <2>1, <2>2, <2>3, <2>4, <2>5, <2>6, <2>7
    DEF Next, RequestStep, Answering, Unlocked, SendAnswer, StoreAndClear,
        AutoApproveSession, SetSkipRequests, vars, requestVars, clientVars
<1> QED
  BY <1>1, <1>2, PermissionTypes, PTL DEF Spec

\* With one client, as the program has, a prompt that was denied is never let
\* through: not by a late answer, a stored grant, a rule or the session's mode.
THEOREM DenialIsFinal ==
  ASSUME \A u, v \in Clients : u = v
  PROVE  Spec => []DenialHolds
<1>1. TypeOK /\ PromptInv /\ Authorized => DenialHolds
  <2> SUFFICES ASSUME TypeOK, PromptInv, Authorized, NEW r \in Requests,
                      Given(r, "deny"), result[r] = "allowed"
               PROVE  FALSE
    BY DEF DenialHolds
  <2>1. PICK u \in Clients : <<u, r, "deny">> \in verdicts
    BY DEF Given
  <2>2. r \in asked /\ reason[r] = "answer"
    BY <2>1 DEF PromptInv, Verdicts
  <2>3. PICK w \in Clients, v \in {"grant", "persist"} : <<w, r, v>> \in verdicts
    BY <2>2 DEF Authorized, Given
  <2>4. w = u
    OBVIOUS
  <2> QED BY <2>1, <2>3, <2>4 DEF PromptInv, Verdicts
<1> QED
  BY <1>1, PermissionTypes, PromptInvariant, NothingUnauthorized, PTL
=============================================================================
