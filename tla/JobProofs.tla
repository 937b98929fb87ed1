----------------------------- MODULE JobProofs -----------------------------
(***************************************************************************)
(* Proofs about the work that runs beside a turn.  BackgroundShells, for   *)
(* every set of jobs and every limit: the table holds no ghost, and the    *)
(* end of a job is reported once, unless later ends push it out of the     *)
(* list; and whatever overlaps, running jobs are tracked and counted but   *)
(* for those put back into a table that is being reset or out of a Start's *)
(* sight.  OutputBuffer, the output of a job, for every size of the        *)
(* buffer, of the chunks and of the stream: it                             *)
(* keeps both ends, its count is never too high and its guard fires once.  *)
(* SubAgentDAG, for any set of tasks and any dependency lists: a sub-agent *)
(* starts only after its dependencies are done, every task ends with       *)
(* exactly one status, the validation refuses just the batches that have a *)
(* cycle or a duplicate, and no task is blocked without a failure upstream.*)
(***************************************************************************)
EXTENDS BackgroundShells, OutputBuffer, SubAgentDAG, FiniteSetTheorems,
        SequenceTheorems, WellFoundedInduction, TLAPS

-----------------------------------------------------------------------------
(* The table *)

\* Where jobs and their tool calls can be.
Kinds ==
    /\ proc \in [Jobs -> {"new", "counted", "listed", "running", "notified",
                          "done", "refused"}]
    /\ tool \in [Jobs -> {"new", "waiting", "handed", "returned"}]
    /\ shells \subseteq Jobs /\ killing \subseteq Jobs

\* The goroutine of the job was started.
Launched(j) == proc[j] \in {"running", "notified", "done"}

\* The table lists registered jobs.  A Kill, and a tool call that waits or has
\* handed its job over, have a job whose goroutine was started.
TableInv ==
    /\ Kinds
    /\ \A j \in shells : proc[j] = "listed" \/ Launched(j)
    /\ \A j \in killing : Launched(j)
    /\ \A j \in Jobs : tool[j] \in {"waiting", "handed"} => Launched(j)

\* What every step of a job keeps.
LEMMA TableKept == TableInv /\ [Next]_vars => TableInv'
<1> SUFFICES ASSUME TableInv, [Next]_vars PROVE TableInv'
  OBVIOUS
<1> USE DEF TableInv, Kinds, Launched
<1>1. ASSUME NEW j \in Jobs, StartCounts(j) \/ StartRegisters(j) \/ StartFails(j) \/ StartRuns(j)
      PROVE  TableInv'
  <2>1. CASE StartCounts(j)
    BY <2>1 DEF StartCounts
  <2>2. CASE StartRegisters(j)
    BY <2>2 DEF StartRegisters, Track
  <2>3. CASE StartFails(j)
    BY <2>3 DEF StartFails
  <2>4. CASE StartRuns(j)
    BY <2>4 DEF StartRuns
  <2> QED BY <1>1, <2>1, <2>2, <2>3, <2>4
<1>2. ASSUME NEW j \in Jobs, JobEnds(j) \/ JobCloses(j)
      PROVE  TableInv'
  BY <1>2 DEF JobEnds, JobCloses
<1>3. ASSUME NEW j \in Jobs, ToolReturns(j) \/ ToolHandsOver(j) \/ ToolCancelled(j)
      PROVE  TableInv'
  BY <1>3 DEF ToolReturns, ToolHandsOver, ToolCancelled, TakeAndCancel
<1>4. ASSUME NEW j \in Jobs, JobKill(j) \/ KillReturns(j) \/ KillTimesOut(j) \/ Cleanup(j)
      PROVE  TableInv'
  BY <1>4 DEF JobKill, KillReturns, KillTimesOut, Cleanup, TakeAndCancel, Track
<1>5. CASE KillAllCollects \/ KillAllResets \/ KillAllCancels \/ KillAllReturns
  BY <1>5 DEF KillAllCollects, KillAllResets, KillAllCancels, KillAllReturns
<1>6. ASSUME NEW s \in Sessions, DrainCompletedNotifications(s)
      PROVE  TableInv'
  BY <1>6 DEF DrainCompletedNotifications
<1>7. CASE UNCHANGED vars
  BY <1>7 DEF vars
<1> QED
  BY <1>1, <1>2, <1>3, <1>4, <1>5, <1>6, <1>7 DEF Next

LEMMA TableHolds == Spec => []TableInv
<1>1. Init => TableInv
  BY DEF Init, TableInv, Kinds, Launched
<1> QED
  BY <1>1, TableKept, PTL DEF Spec

\* What the table or a Kill holds was started: a Start that was refused or that
\* failed leaves no entry behind.
THEOREM NoGhosts == Spec => []NoGhost
<1>1. TableInv => NoGhost
  BY DEF TableInv, NoGhost, Launched
<1> QED
  BY <1>1, TableHolds, PTL

-----------------------------------------------------------------------------
(* No job escapes *)

\* Where a registered job that is not done can be found.
Held == shells \cup killing \cup collected \cup late
Registered == {j \in Jobs : proc[j] \in {"listed", "running"}}

\* What KillAll is about to drop from the table it has collected, or it came too
\* late.
TrackInv ==
    /\ collected \subseteq Jobs /\ late \subseteq Jobs
    /\ Registered \subseteq Held
    /\ killAll = "no" => collected = {} /\ late = {}
    /\ killAll = "reset" => shells \subseteq collected \cup late

LEMMA TrackKept ==
    ASSUME TableInv, TrackInv, [Next]_vars PROVE TrackInv'
<1> USE DEF TrackInv, Held, Registered, TableInv, Kinds, Launched
<1>1. ASSUME NEW j \in Jobs, StartCounts(j) \/ StartRegisters(j) \/ StartFails(j) \/ StartRuns(j)
      PROVE  TrackInv'
  <2>1. CASE StartCounts(j)
    BY <2>1 DEF StartCounts, killAllVars
  <2>2. CASE StartRegisters(j)
    BY <2>2 DEF StartRegisters, Track, killAllVars
  <2>3. CASE StartFails(j)
    BY <2>3 DEF StartFails, killAllVars, history
  <2>4. CASE StartRuns(j)
    BY <2>4 DEF StartRuns, killAllVars, history
  <2> QED BY <1>1, <2>1, <2>2, <2>3, <2>4
<1>2. ASSUME NEW j \in Jobs, JobEnds(j) \/ JobCloses(j)
      PROVE  TrackInv'
  BY <1>2 DEF JobEnds, JobCloses, killAllVars, history
<1>3. ASSUME NEW j \in Jobs, ToolReturns(j) \/ ToolHandsOver(j) \/ ToolCancelled(j)
      PROVE  TrackInv'
  BY <1>3 DEF ToolReturns, ToolHandsOver, ToolCancelled, TakeAndCancel, killAllVars, history
<1>4. ASSUME NEW j \in Jobs, JobKill(j) \/ KillReturns(j) \/ Cleanup(j)
      PROVE  TrackInv'
  BY <1>4 DEF JobKill, KillReturns, Cleanup, TakeAndCancel, killAllVars, history
<1>8. ASSUME NEW j \in Jobs, KillTimesOut(j) PROVE TrackInv'
  BY <1>8 DEF KillTimesOut, Track, killAllVars
<1>5. CASE KillAllCollects \/ KillAllResets \/ KillAllCancels \/ KillAllReturns
  BY <1>5 DEF KillAllCollects, KillAllResets, KillAllCancels, KillAllReturns, history
<1>6. ASSUME NEW s \in Sessions, DrainCompletedNotifications(s)
      PROVE  TrackInv'
  BY <1>6 DEF DrainCompletedNotifications, killAllVars, history
<1>7. CASE UNCHANGED vars
  BY <1>7 DEF vars, killAllVars, history
<1> QED
  BY <1>1, <1>2, <1>3, <1>4, <1>5, <1>6, <1>7, <1>8 DEF Next

LEMMA TrackHolds == Spec => [](TableInv /\ TrackInv)
<1>1. Init => TrackInv
  BY DEF Init, TrackInv, Registered
<1>2. TableInv /\ TrackInv /\ [Next]_vars => TrackInv'
  BY TrackKept
<1> QED
  BY <1>1, <1>2, TableHolds, PTL DEF Spec

\* However Starts, Kills and the shutdown overlap, a running command is in the
\* table, a Kill will put it back, or KillAll stops it, unless it was put into
\* the table between KillAll's reading and its reset.
THEOREM RunningIsTracked == Spec => []Tracked
<1>1. TableInv /\ TrackInv => Tracked
  BY DEF TrackInv, Held, Registered, Live, Tracked
<1> QED
  BY <1>1, TrackHolds, PTL

-----------------------------------------------------------------------------
(* The limit *)

\* The jobs that hold a place, started or starting, that every Start since has
\* seen.
Busy == {j \in Jobs : proc[j] \in {"counted", "listed", "running"}} \ overlooked

LimitInv ==
    /\ IsFiniteSet(shells)
    /\ IsFiniteSet(Busy) /\ Cardinality(Busy) <= MaxJobs

\* No step but StartCounts takes a place.
LEMMA BusyShrinks ==
    ASSUME Kinds, [Next]_vars, \A j \in Jobs : ~StartCounts(j)
    PROVE  Busy' \subseteq Busy
<1> USE DEF Busy, Kinds, history
<1>1. ASSUME NEW j \in Jobs, StartRegisters(j) \/ StartFails(j) \/ StartRuns(j)
      PROVE  Busy' \subseteq Busy
  BY <1>1 DEF StartRegisters, StartFails, StartRuns, Track
<1>2. ASSUME NEW j \in Jobs, JobEnds(j) \/ JobCloses(j)
      PROVE  Busy' \subseteq Busy
  BY <1>2 DEF JobEnds, JobCloses
<1>3. ASSUME NEW j \in Jobs, ToolReturns(j) \/ ToolHandsOver(j) \/ ToolCancelled(j)
      PROVE  Busy' \subseteq Busy
  BY <1>3 DEF ToolReturns, ToolHandsOver, ToolCancelled
<1>4. ASSUME NEW j \in Jobs, JobKill(j) \/ KillReturns(j) \/ KillTimesOut(j) \/ Cleanup(j)
      PROVE  Busy' \subseteq Busy
  BY <1>4 DEF JobKill, KillReturns, KillTimesOut, Cleanup, Track
<1>5. CASE KillAllCollects \/ KillAllResets \/ KillAllCancels \/ KillAllReturns
  BY <1>5 DEF KillAllCollects, KillAllResets, KillAllCancels, KillAllReturns
<1>6. ASSUME NEW s \in Sessions, DrainCompletedNotifications(s)
      PROVE  Busy' \subseteq Busy
  BY <1>6 DEF DrainCompletedNotifications
<1>7. CASE UNCHANGED vars
  BY <1>7 DEF vars
<1> QED
  BY <1>1, <1>2, <1>3, <1>4, <1>5, <1>6, <1>7 DEF Next

\* A Start that is let in makes room for itself in the limit: what holds a place
\* it has counted, or could not see.
LEMMA StartTakesAPlace ==
    ASSUME TableInv, TrackInv, LimitInv, NEW j \in Jobs, StartCounts(j)
    PROVE  IsFiniteSet(Busy') /\ Cardinality(Busy') <= MaxJobs
<1> DEFINE counted == shells \cap NotDone
<1>1. CASE Cardinality(counted) < MaxJobs
  <2>1. Busy' \subseteq counted \cup {j}
    <3> SUFFICES ASSUME NEW i \in Busy', i # j PROVE i \in counted
      OBVIOUS
    <3>1. /\ proc' = [proc EXCEPT ![j] = "counted"]
          /\ overlooked' = overlooked \cup Unseen
      BY <1>1 DEF StartCounts
    <3>2. i \in Jobs /\ proc[i] \in {"counted", "listed", "running"} /\ i \notin Unseen
      BY <3>1 DEF Busy, TableInv, Kinds
    <3>3. proc[i] \in {"listed", "running"} /\ i \in shells
      BY <3>2 DEF Unseen, TrackInv, Held, Registered
    <3> QED BY <3>2, <3>3 DEF NotDone
  <2>2. IsFiniteSet(counted) /\ Cardinality(counted) \in Nat
    BY FS_Subset, FS_CardinalityType DEF LimitInv
  <2>3. /\ IsFiniteSet(counted \cup {j})
        /\ \/ Cardinality(counted \cup {j}) = Cardinality(counted)
           \/ Cardinality(counted \cup {j}) = Cardinality(counted) + 1
    <3> HIDE DEF counted
    <3> QED BY <2>2, FS_AddElement, Zenon
  <2>4. /\ IsFiniteSet(Busy') /\ Cardinality(Busy') <= Cardinality(counted \cup {j})
        /\ Cardinality(Busy') \in Nat
    BY <2>1, <2>3, FS_Subset, FS_CardinalityType
  <2> QED BY <1>1, <2>2, <2>3, <2>4, ShellConstants
<1>2. CASE ~(Cardinality(counted) < MaxJobs)
  <2>1. Busy' \subseteq Busy
    BY <1>2 DEF StartCounts, Busy, TableInv, Kinds
  <2>2. IsFiniteSet(Busy') /\ Cardinality(Busy') <= Cardinality(Busy)
    BY <2>1, FS_Subset DEF LimitInv
  <2>3. Cardinality(Busy) \in Nat /\ Cardinality(Busy') \in Nat
    BY <2>2, FS_CardinalityType DEF LimitInv
  <2> QED BY <2>2, <2>3, ShellConstants DEF LimitInv
<1> QED
  BY <1>1, <1>2

\* A step registers one job at most.
LEMMA TableGrowsByOne ==
    ASSUME [Next]_vars
    PROVE  \/ shells' \subseteq shells
           \/ \E j \in Jobs : shells' = shells \cup {j}
BY DEF Next, vars, StartCounts, StartRegisters, StartFails, StartRuns, JobEnds, JobCloses,
       ToolReturns, ToolHandsOver, ToolCancelled, JobKill, KillReturns, KillTimesOut,
       Cleanup, TakeAndCancel, KillAllCollects, KillAllResets, KillAllCancels,
       KillAllReturns, DrainCompletedNotifications, Track

LEMMA LimitKept ==
    ASSUME TableInv, TrackInv, LimitInv, [Next]_vars PROVE LimitInv'
<1>2. IsFiniteSet(shells')
  BY TableGrowsByOne, FS_AddElement, FS_Subset DEF LimitInv
<1>3. IsFiniteSet(Busy') /\ Cardinality(Busy') <= MaxJobs
  <2>1. ASSUME NEW j \in Jobs, StartCounts(j)
        PROVE  IsFiniteSet(Busy') /\ Cardinality(Busy') <= MaxJobs
    BY <2>1, StartTakesAPlace
  <2>2. CASE \A j \in Jobs : ~StartCounts(j)
    <3>1. Busy' \subseteq Busy
      BY <2>2, BusyShrinks DEF TableInv
    <3>2. IsFiniteSet(Busy') /\ Cardinality(Busy') <= Cardinality(Busy)
      BY <3>1, FS_Subset DEF LimitInv
    <3>3. Cardinality(Busy) \in Nat /\ Cardinality(Busy') \in Nat
      BY <3>2, FS_CardinalityType DEF LimitInv
    <3> QED BY <3>2, <3>3, ShellConstants DEF LimitInv
  <2> QED BY <2>1, <2>2
<1> QED
  BY <1>2, <1>3 DEF LimitInv

\* However Starts overlap, and with Kills and the shutdown in progress, no more
\* than MaxBackgroundJobs commands run, apart from those some Start could not see
\* when it let its own in.
THEOREM LimitHolds == Spec => []JobLimit
<1>1. Init => LimitInv
  <2> SUFFICES ASSUME Init PROVE LimitInv
    OBVIOUS
  <2>1. Busy = {}
    BY DEF Init, Busy
  <2> QED BY <2>1, FS_EmptySet, ShellConstants DEF Init, LimitInv
<1>2. TableInv /\ TrackInv /\ LimitInv /\ [Next]_vars => LimitInv'
  BY LimitKept
<1>3. LimitInv => JobLimit
  <2> SUFFICES ASSUME LimitInv PROVE JobLimit
    OBVIOUS
  <2>1. /\ IsFiniteSet(Live \ overlooked)
        /\ Cardinality(Live \ overlooked) <= Cardinality(Busy)
    BY FS_Subset DEF LimitInv, Busy, Live
  <2>2. Cardinality(Live \ overlooked) \in Nat /\ Cardinality(Busy) \in Nat
    BY <2>1, FS_CardinalityType DEF LimitInv
  <2> QED BY <2>1, <2>2, ShellConstants DEF LimitInv, JobLimit
<1> QED
  BY <1>1, <1>2, <1>3, TrackHolds, PTL DEF Spec

-----------------------------------------------------------------------------
(* The completion list *)

NoteTypes ==
    /\ proc \in [Jobs -> {"new", "counted", "listed", "running", "notified",
                          "done", "refused"}]
    /\ ended \in Seq(Jobs) /\ noted \in [Jobs -> Nat]
    /\ pending \subseteq 1..Len(ended)
    /\ IsFiniteSet(pending) /\ Cardinality(pending) <= MaxPending

\* What ended is no longer running; what was reported ended and is not in the
\* list; and what ended is reported, in the list or pushed out of it.
NoteInv ==
    /\ NoteTypes
    /\ \A i \in 1..Len(ended) : proc[ended[i]] \in {"notified", "done"}
    /\ \A j \in Jobs : noted[j] > 0 => noted[j] = 1 /\ proc[j] \in {"notified", "done"}
    /\ \A i \in pending : noted[ended[i]] = 0
    /\ NoteKept

\* The least of a set of positions is one of them.
LEMMA LeastOfPositions ==
    ASSUME NEW S \in SUBSET Nat, S # {}
    PROVE  Min(S) \in S /\ \A i \in S : Min(S) <= i
<1> DEFINE less == {p \in Nat \X Nat : p[1] < p[2]}
<1>1. IsWellFoundedOn(less, Nat)
  BY NatLessThanWellFounded, Zenon DEF OpToRel
<1>2. PICK n \in S : \A k \in S : <<k, n>> \notin less
  BY <1>1, WFMin, Zenon
<1>3. \A i \in S : n <= i
  <2> SUFFICES ASSUME NEW i \in S, ~(n <= i) PROVE FALSE
    OBVIOUS
  <2>1. <<i, n>> \in Nat \X Nat /\ i < n
    OBVIOUS
  <2> QED BY <1>2, <2>1
<1> QED
  BY <1>3, Zenon DEF Min

\* Dropping the head of a full list leaves a list that is not full, and only a
\* position that MaxPending - 1 others follow is dropped.
LEMMA DropHead ==
    ASSUME NEW n \in Nat, NEW S \in SUBSET (1..n), IsFiniteSet(S),
           Cardinality(S) = MaxPending
    PROVE  /\ IsFiniteSet(S \ {Min(S)})
           /\ Cardinality(S \ {Min(S)}) = MaxPending - 1
           /\ \A i \in S : i \notin S \ {Min(S)} => n + 1 - i >= MaxPending
<1>1. S # {}
  BY FS_EmptySet, ShellConstants
<1>2. Min(S) \in S /\ \A i \in S : Min(S) <= i
  BY <1>1, LeastOfPositions
<1>3. S \in SUBSET (Min(S)..n)
  BY <1>2
<1>4. /\ IsFiniteSet(Min(S)..n)
      /\ Cardinality(Min(S)..n) = n - Min(S) + 1
  <2> DEFINE m == Min(S)
  <2>1. m \in Int /\ n \in Int /\ ~(m > n)
    <3>1. m \in 1..n
      BY <1>2, Zenon
    <3> HIDE DEF m
    <3> QED BY <3>1
  <2>2. /\ IsFiniteSet(Min(S)..n)
        /\ Cardinality(Min(S)..n) = IF Min(S) > n THEN 0 ELSE n - Min(S) + 1
    BY <2>1, FS_Interval, Zenon
  <2> QED BY <2>1, <2>2, Zenon
<1>5. Cardinality(S) <= n - Min(S) + 1
  BY <1>3, <1>4, FS_Subset
<1>6. IsFiniteSet(S \ {Min(S)}) /\ Cardinality(S \ {Min(S)}) = Cardinality(S) - 1
  BY <1>2, FS_RemoveElement
<1>7. \A i \in S : i \notin S \ {Min(S)} => n + 1 - i >= MaxPending
  BY <1>2, <1>5
<1> QED
  BY <1>6, <1>7

\* The list after an end: bounded, with the new position, and without an old one
\* only if MaxPending ends follow it.
LEMMA ListAfterEnd ==
    ASSUME NoteTypes, NEW j \in Jobs, JobEnds(j)
    PROVE  /\ pending' \subseteq 1..(Len(ended) + 1) /\ Len(ended) + 1 \in pending'
           /\ IsFiniteSet(pending') /\ Cardinality(pending') <= MaxPending
           /\ \A i \in pending : i \in pending' \/ Len(ended) + 1 - i >= MaxPending
           /\ pending' \subseteq pending \cup {Len(ended) + 1}
<1> DEFINE n == Len(ended)
           kept == IF Cardinality(pending) >= MaxPending THEN pending \ {Min(pending)}
                   ELSE pending
<1>1. n \in Nat /\ Cardinality(pending) \in Nat
  BY FS_CardinalityType DEF NoteTypes
<1>2. /\ kept \subseteq pending
      /\ IsFiniteSet(kept) /\ Cardinality(kept) <= MaxPending - 1
      /\ \A i \in pending : i \in kept \/ n + 1 - i >= MaxPending
  <2>1. CASE Cardinality(pending) >= MaxPending
    <3>1. Cardinality(pending) = MaxPending
      BY <2>1, <1>1, ShellConstants DEF NoteTypes
    <3>2. kept = pending \ {Min(pending)}
      BY <2>1
    <3>3. /\ IsFiniteSet(kept) /\ Cardinality(kept) = MaxPending - 1
          /\ \A i \in pending : i \notin kept => n + 1 - i >= MaxPending
      BY <3>1, <3>2, <1>1, DropHead, Zenon DEF NoteTypes
    <3> QED BY <3>2, <3>3, ShellConstants
  <2>2. CASE ~(Cardinality(pending) >= MaxPending)
    BY <2>2, <1>1, ShellConstants DEF NoteTypes
  <2> QED BY <2>1, <2>2
<1>3. n + 1 \notin kept
  BY <1>1, <1>2 DEF NoteTypes
<1>4. Cardinality(kept) \in Nat
  BY <1>2, FS_CardinalityType
<1>5. /\ IsFiniteSet(kept \cup {n + 1})
      /\ Cardinality(kept \cup {n + 1}) = Cardinality(kept) + 1
  BY <1>2, <1>3, FS_AddElement, Zenon
<1>6. pending' = kept \cup {n + 1}
  BY Zenon DEF JobEnds
<1>7. Cardinality(pending') <= MaxPending
  BY <1>2, <1>4, <1>5, <1>6, ShellConstants
<1>8. \A i \in 1..n : i \in 1..(n + 1)
  BY <1>1
<1>9. n + 1 \in 1..(n + 1)
  BY <1>1
<1> HIDE DEF kept, n
<1>10. pending' \subseteq 1..(n + 1)
  BY <1>2, <1>6, <1>8, <1>9 DEF NoteTypes, n
<1>11. /\ n + 1 \in pending' /\ pending' \subseteq pending \cup {n + 1}
       /\ IsFiniteSet(pending')
       /\ \A i \in pending : i \in pending' \/ n + 1 - i >= MaxPending
  BY <1>2, <1>5, <1>6
<1> QED
  BY <1>7, <1>10, <1>11 DEF n

LEMMA EndKeepsNotes ==
    ASSUME NoteInv, NEW j \in Jobs, JobEnds(j) PROVE NoteInv'
<1> DEFINE n == Len(ended)
<1>1. /\ ended' = Append(ended, j) /\ noted' = noted
      /\ proc[j] = "running" /\ proc' = [proc EXCEPT ![j] = "notified"]
  BY DEF JobEnds
<1>2. /\ ended' \in Seq(Jobs) /\ n \in Nat /\ Len(ended') = n + 1
      /\ ended'[n + 1] = j /\ \A i \in 1..n : ended'[i] = ended[i]
      /\ \A i \in 1..n : ended[i] \in Jobs
  BY <1>1 DEF NoteInv, NoteTypes
<1>3. /\ pending' \subseteq 1..(n + 1) /\ n + 1 \in pending'
      /\ IsFiniteSet(pending') /\ Cardinality(pending') <= MaxPending
      /\ \A i \in pending : i \in pending' \/ n + 1 - i >= MaxPending
      /\ pending' \subseteq pending \cup {n + 1}
  BY ListAfterEnd DEF NoteInv
<1>4. NoteTypes'
  BY <1>1, <1>2, <1>3 DEF NoteInv, NoteTypes
<1>5. \A i \in 1..(n + 1) : proc'[ended'[i]] \in {"notified", "done"}
  BY <1>1, <1>2 DEF NoteInv, NoteTypes
<1>6. \A k \in Jobs : noted'[k] > 0 => noted'[k] = 1 /\ proc'[k] \in {"notified", "done"}
  BY <1>1 DEF NoteInv, NoteTypes
<1>7. \A i \in pending' : noted'[ended'[i]] = 0
  <2>1. noted[j] = 0
    BY <1>1 DEF NoteInv, NoteTypes
  <2>2. pending \subseteq 1..n
    BY DEF NoteInv, NoteTypes
  <2> QED BY <1>1, <1>2, <1>3, <2>1, <2>2 DEF NoteInv
<1>8. ASSUME NEW i \in 1..(n + 1)
      PROVE  i \in pending' \/ noted'[ended'[i]] > 0 \/ n + 1 - i >= MaxPending
  <2>1. CASE i = n + 1
    BY <1>3, <2>1
  <2>2. CASE i \in 1..n
    <3>1. i \in pending \/ noted[ended[i]] > 0 \/ n - i >= MaxPending
      BY <2>2 DEF NoteInv, NoteKept
    <3> QED BY <3>1, <2>2, <1>1, <1>2, <1>3, ShellConstants
  <2> QED BY <2>1, <2>2, <1>2
<1> QED
  BY <1>2, <1>4, <1>5, <1>6, <1>7, <1>8 DEF NoteInv, NoteKept

LEMMA DrainKeepsNotes ==
    ASSUME NoteInv, NEW s \in Sessions, DrainCompletedNotifications(s) PROVE NoteInv'
<1>1. /\ noted' = [j \in Jobs |->
            IF \E i \in Drained(s) : ended[i] = j THEN noted[j] + 1 ELSE noted[j]]
      /\ pending' = pending \ Drained(s) /\ ended' = ended /\ proc' = proc
  BY DEF DrainCompletedNotifications
<1>2. /\ Drained(s) \subseteq pending /\ Len(ended) \in Nat
      /\ \A i \in 1..Len(ended) : ended[i] \in Jobs
      /\ pending \subseteq 1..Len(ended)
  BY DEF Drained, NoteInv, NoteTypes
<1>3. NoteTypes'
  <2>1. IsFiniteSet(pending') /\ Cardinality(pending') <= Cardinality(pending)
    BY <1>1, FS_Subset DEF NoteInv, NoteTypes
  <2>2. Cardinality(pending') \in Nat /\ Cardinality(pending) \in Nat
    BY <2>1, FS_CardinalityType DEF NoteInv, NoteTypes
  <2>3. noted' \in [Jobs -> Nat]
    BY <1>1 DEF NoteInv, NoteTypes
  <2>4. Cardinality(pending') <= MaxPending
    BY <2>1, <2>2, ShellConstants DEF NoteInv, NoteTypes
  <2> QED BY <1>1, <1>2, <2>1, <2>3, <2>4 DEF NoteInv, NoteTypes
<1>4. \A j \in Jobs : noted'[j] > 0 => noted'[j] = 1 /\ proc'[j] \in {"notified", "done"}
  <2> SUFFICES ASSUME NEW j \in Jobs, noted'[j] > 0
               PROVE  noted'[j] = 1 /\ proc[j] \in {"notified", "done"}
    BY <1>1
  <2>1. CASE \E i \in Drained(s) : ended[i] = j
    <3>1. PICK i \in Drained(s) : ended[i] = j
      BY <2>1
    <3>2. noted[j] = 0 /\ proc[j] \in {"notified", "done"}
      BY <3>1, <1>2 DEF NoteInv
    <3>3. noted'[j] = noted[j] + 1
      BY <1>1, <2>1
    <3> QED BY <3>2, <3>3
  <2>2. CASE ~ \E i \in Drained(s) : ended[i] = j
    BY <1>1, <2>2 DEF NoteInv
  <2> QED BY <2>1, <2>2
<1>5. \A i \in pending' : noted'[ended'[i]] = 0
  <2> SUFFICES ASSUME NEW i \in pending, i \notin Drained(s)
               PROVE  noted'[ended[i]] = 0
    BY <1>1
  <2>1. \A k \in Drained(s) : ended[k] # ended[i]
    BY DEF Drained
  <2> QED BY <1>1, <1>2, <2>1 DEF NoteInv
<1>6. ASSUME NEW i \in 1..Len(ended)
      PROVE  i \in pending' \/ noted'[ended[i]] > 0 \/ Len(ended) - i >= MaxPending
  <2>1. i \in pending \/ noted[ended[i]] > 0 \/ Len(ended) - i >= MaxPending
    BY DEF NoteInv, NoteKept
  <2>2. noted[ended[i]] \in Nat /\ ended[i] \in Jobs
    BY <1>2 DEF NoteInv, NoteTypes
  <2>3. i \in Drained(s) => noted'[ended[i]] = noted[ended[i]] + 1
    BY <1>1, <2>2
  <2>4. noted'[ended[i]] >= noted[ended[i]]
    BY <1>1, <2>2
  <2> QED BY <1>1, <2>1, <2>2, <2>3, <2>4
<1> QED
  BY <1>1, <1>3, <1>4, <1>5, <1>6 DEF NoteInv, NoteKept

\* Everything else leaves the list alone, and no job that ended runs again.
LEMMA NotesUntouched ==
    ASSUME NoteTypes, [Next]_vars, \A j \in Jobs : ~JobEnds(j),
           \A s \in Sessions : ~DrainCompletedNotifications(s)
    PROVE  /\ UNCHANGED noteVars
           /\ proc' \in [Jobs -> {"new", "counted", "listed", "running", "notified",
                                  "done", "refused"}]
           /\ \A j \in Jobs : proc[j] \in {"notified", "done"}
                             => proc'[j] \in {"notified", "done"}
BY DEF Next, vars, noteVars, NoteTypes, StartCounts, StartRegisters, StartFails, StartRuns,
       JobCloses, ToolReturns, ToolHandsOver, ToolCancelled, JobKill, KillReturns,
       KillTimesOut, Cleanup, KillAllCollects, KillAllResets, KillAllCancels, KillAllReturns

LEMMA NotesHold == Spec => []NoteInv
<1>1. Init => NoteInv
  <2> SUFFICES ASSUME Init PROVE NoteInv
    OBVIOUS
  <2>1. IsFiniteSet(pending) /\ Cardinality(pending) = 0
    BY FS_EmptySet DEF Init
  <2> QED BY <2>1, ShellConstants DEF Init, NoteInv, NoteTypes, NoteKept
<1>2. NoteInv /\ [Next]_vars => NoteInv'
  <2> SUFFICES ASSUME NoteInv, [Next]_vars PROVE NoteInv'
    OBVIOUS
  <2>1. ASSUME \A j \in Jobs : ~JobEnds(j), \A s \in Sessions : ~DrainCompletedNotifications(s)
        PROVE  NoteInv'
    <3>1. /\ UNCHANGED noteVars
          /\ proc' \in [Jobs -> {"new", "counted", "listed", "running", "notified",
                                 "done", "refused"}]
          /\ \A j \in Jobs : proc[j] \in {"notified", "done"}
                            => proc'[j] \in {"notified", "done"}
      BY <2>1, NotesUntouched DEF NoteInv
    <3>2. \A i \in 1..Len(ended) : ended[i] \in Jobs
      BY DEF NoteInv, NoteTypes
    <3> QED BY <3>1, <3>2 DEF NoteInv, NoteTypes, NoteKept, noteVars
  <2> QED BY <2>1, EndKeepsNotes, DrainKeepsNotes
<1> QED
  BY <1>1, <1>2, PTL DEF Spec

\* The end of a job is in the list or was reported, unless MaxPending jobs have
\* ended after it: notifyTerminal drops the oldest entry only.
THEOREM NotesAreKept == Spec => []NoteKept
<1>1. NoteInv => NoteKept
  BY DEF NoteInv
<1> QED
  BY <1>1, NotesHold, PTL

\* No end is reported twice: a drain takes what it reports out of the list.
THEOREM NotesAreReadOnce == Spec => []NotedOnce
<1>1. NoteInv => NotedOnce
  BY DEF NoteInv, NoteTypes, NotedOnce
<1> QED
  BY <1>1, NotesHold, PTL

-----------------------------------------------------------------------------
(* The output of a job.  The buffer's content is written as pieces of the  *)
(* stream, so the proof is about joining two pieces that meet and cutting  *)
(* the end off one.                                                        *)

\* A piece of the stream is a sequence of as many bytes as its ends say.
LEMMA BytesType ==
    ASSUME NEW i \in Nat, NEW j \in Nat, i <= j
    PROVE  /\ Bytes(i, j) \in Seq(Nat)
           /\ Len(Bytes(i, j)) = j - i
           /\ \A k \in 1..(j - i) : Bytes(i, j)[k] = i + k
<1>1. j - i \in Nat
  OBVIOUS
<1>2. Bytes(i, j) \in [1..(j - i) -> Nat]
  BY DEF Bytes
<1>3. Bytes(i, j) \in Seq(Nat)
  BY <1>1, <1>2, SeqDef
<1>4. Len(Bytes(i, j)) = j - i
  BY <1>1, <1>2, <1>3, LenProperties
<1> QED
  BY <1>3, <1>4 DEF Bytes

\* Two pieces that meet are one piece.
LEMMA BytesJoin ==
    ASSUME NEW i \in Nat, NEW j \in Nat, NEW k \in Nat, i <= j, j <= k
    PROVE  Bytes(i, j) \o Bytes(j, k) = Bytes(i, k)
<1> DEFINE u == Bytes(i, j) \o Bytes(j, k)
<1>1. /\ Bytes(i, j) \in Seq(Nat) /\ Len(Bytes(i, j)) = j - i
      /\ \A m \in 1..(j - i) : Bytes(i, j)[m] = i + m
  BY BytesType
<1>2. /\ Bytes(j, k) \in Seq(Nat) /\ Len(Bytes(j, k)) = k - j
      /\ \A m \in 1..(k - j) : Bytes(j, k)[m] = j + m
  BY BytesType
<1>3. i <= k /\ Bytes(i, k) \in Seq(Nat) /\ Len(Bytes(i, k)) = k - i
      /\ \A m \in 1..(k - i) : Bytes(i, k)[m] = i + m
  BY BytesType
<1>4. u \in Seq(Nat) /\ Len(u) = Len(Bytes(i, j)) + Len(Bytes(j, k))
  BY <1>1, <1>2, ConcatProperties, Zenon
<1>5. Len(u) = k - i
  BY <1>1, <1>2, <1>4
<1>6. \A m \in 1..(k - i) : u[m] = i + m
  <2> SUFFICES ASSUME NEW m \in 1..(k - i) PROVE u[m] = i + m
    OBVIOUS
  <2> m \in Int /\ m \in 1..(Len(Bytes(i, j)) + Len(Bytes(j, k)))
    BY <1>1, <1>2
  <2>1. u[m] = IF m <= Len(Bytes(i, j)) THEN Bytes(i, j)[m]
               ELSE Bytes(j, k)[m - Len(Bytes(i, j))]
    BY <1>1, <1>2, ConcatProperties, Zenon
  <2>2. CASE m <= j - i
    BY <2>1, <2>2, <1>1
  <2>3. CASE ~(m <= j - i)
    <3>1. m - (j - i) \in 1..(k - j)
      BY <2>3
    <3>2. Bytes(j, k)[m - (j - i)] = j + (m - (j - i))
      BY <3>1, <1>2
    <3>3. u[m] = Bytes(j, k)[m - (j - i)]
      BY <2>1, <2>3, <1>1
    <3> QED
      BY <3>2, <3>3
  <2> QED
    BY <2>2, <2>3
<1> HIDE DEF u
<1>7. u = Bytes(i, k)
  BY <1>3, <1>4, <1>5, <1>6, SeqEqual
<1> QED
  BY <1>7 DEF u

\* The end of a piece is a piece with the same end.
LEMMA BytesCut ==
    ASSUME NEW i \in Nat, NEW j \in Nat, NEW n \in Nat, i <= j, n <= j - i
    PROVE  LastOf(Bytes(i, j), n) = Bytes(j - n, j)
<1>1. Len(Bytes(i, j)) = j - i /\ \A m \in 1..(j - i) : Bytes(i, j)[m] = i + m
  BY BytesType
<1>2. \A k \in 1..n : Bytes(i, j)[(j - i) - n + k] = j - n + k
  <2> TAKE k \in 1..n
  <2>1. (j - i) - n + k \in 1..(j - i)
    OBVIOUS
  <2> QED
    BY <2>1, <1>1
<1>3. LastOf(Bytes(i, j), n) = [k \in 1..n |-> j - n + k]
  BY <1>1, <1>2 DEF LastOf
<1>4. j - (j - n) = n
  OBVIOUS
<1> QED
  BY <1>3, <1>4 DEF Bytes

\* Empty pieces are equal.
LEMMA BytesNone ==
    ASSUME NEW i \in Nat, NEW j \in Nat
    PROVE  Bytes(i, i) = Bytes(j, j)
  BY DEF Bytes

-----------------------------------------------------------------------------
(* The tail *)

\* What a tail of t bytes becomes when m bytes follow it.
Kept(t, m) == IF t + m < Half THEN t + m ELSE Half

\* appendTailLocked on a piece that follows the tail keeps the last bytes and
\* counts no more than it drops.
LEMMA AppendTail ==
    ASSUME NEW s \in Nat, NEW e \in Nat, NEW t \in Nat,
           s <= e, t <= s, t <= Half, omitted \in Nat,
           tail = Bytes(s - t, s), appendTail(Bytes(s, e))
    PROVE  /\ tail' = Bytes(e - Kept(t, e - s), e)
           /\ omitted' \in Nat
           /\ omitted' <= omitted + ((t + (e - s)) - Kept(t, e - s))
<1> USE SizesOK
<1>1. Len(Bytes(s, e)) = e - s
  BY BytesType
<1>2. s - t \in Nat /\ s - t <= s
  OBVIOUS
<1>3. tail \o Bytes(s, e) = Bytes(s - t, e)
  BY <1>2, BytesJoin
<1>4. Len(Bytes(s - t, e)) = e - (s - t)
  <2>1. s - t <= e
    OBVIOUS
  <2> QED
    BY <1>2, <2>1, BytesType
<1>5. CASE e - s >= Half
  <2>1. tail' = LastOf(Bytes(s, e), Half) /\ omitted' = omitted + ((e - s) - Half)
    BY <1>1, <1>5 DEF appendTail
  <2>2. LastOf(Bytes(s, e), Half) = Bytes(e - Half, e)
    BY <1>5, BytesCut
  <2> QED
    BY <2>1, <2>2, <1>5 DEF Kept
<1>6. CASE e - s < Half /\ e - (s - t) > Half
  <2>1. /\ tail' = LastOf(Bytes(s - t, e), Half)
        /\ omitted' = omitted + ((e - (s - t)) - Half)
    <3>1. ~(Len(Bytes(s, e)) >= Half) /\ Len(Bytes(s - t, e)) > Half
      BY <1>1, <1>4, <1>6
    <3>2. /\ tail' = LastOf(Bytes(s - t, e), Half)
          /\ omitted' = omitted + (Len(Bytes(s - t, e)) - Half)
      BY <1>3, <3>1, Zenon DEF appendTail
    <3> QED
      BY <1>4, <3>2
  <2>2. LastOf(Bytes(s - t, e), Half) = Bytes(e - Half, e)
    BY <1>2, <1>6, BytesCut
  <2> QED
    BY <2>1, <2>2, <1>6 DEF Kept
<1>7. CASE e - s < Half /\ e - (s - t) <= Half
  <2>1. tail' = Bytes(s - t, e) /\ omitted' = omitted
    <3>1. ~(Len(Bytes(s, e)) >= Half) /\ ~(Len(Bytes(s - t, e)) > Half)
      BY <1>1, <1>4, <1>7
    <3> QED
      BY <1>3, <3>1, Zenon DEF appendTail
  <2>2. e - Kept(t, e - s) = s - t /\ (t + (e - s)) - Kept(t, e - s) = 0
    BY <1>7 DEF Kept
  <2> QED
    BY <2>1, <2>2
<1> QED
  BY <1>5, <1>6, <1>7

-----------------------------------------------------------------------------
(* The invariant *)

Counts == omitted \in Nat /\ total \in Nat
BufferInv == Counts /\ HeadThenTail /\ NeverOvercounts

\* Sizes of head and tail are numbers within their budgets.
LEMMA Sizes ==
    ASSUME total \in Nat
    PROVE  /\ HeadSize \in Nat /\ HeadSize <= Half /\ HeadSize <= total
           /\ TailSize \in Nat /\ TailSize <= Half /\ HeadSize + TailSize <= total
  BY SizesOK DEF HeadSize, TailSize

\* A Write keeps the buffer what its comment calls it.
LEMMA WriteKeeps ==
    ASSUME BufferInv, NEW n \in 0..MaxChunk, Write(n)
    PROVE  BufferInv'
<1> USE SizesOK
<1> n \in Nat
  OBVIOUS
<1>1. total \in Nat /\ total' = total + n /\ total' \in Nat /\ omitted \in Nat
  BY DEF BufferInv, Counts, Write
<1>2. Store(n)
  BY DEF Write
<1>3. head = Bytes(0, HeadSize) /\ tail = Bytes(total - TailSize, total)
      /\ omitted <= total - (HeadSize + TailSize)
  BY DEF BufferInv, HeadThenTail, NeverOvercounts
<1>4. Len(head) = HeadSize
  <2>1. HeadSize \in Nat /\ 0 <= HeadSize
    BY <1>1, Sizes
  <2>2. Len(Bytes(0, HeadSize)) = HeadSize - 0
    BY <2>1, BytesType
  <2> QED
    BY <1>3, <2>1, <2>2
<1>5. CASE HeadSize < Half /\ n <= Half - HeadSize
  <2>1. HeadSize = total /\ TailSize = 0
    BY <1>1, <1>5 DEF HeadSize, TailSize
  <2>2. head' = Bytes(0, total) \o Bytes(total, total + n) /\ tail' = tail /\ omitted' = omitted
    BY <1>2, <1>3, <1>4, <1>5, <2>1 DEF Store
  <2>3. head' = Bytes(0, total + n)
    <3>1. total + n \in Nat /\ 0 <= total /\ total <= total + n
      BY <1>1
    <3> QED
      BY <1>1, <2>2, <3>1, BytesJoin
  <2>4. HeadSize' = total + n /\ TailSize' = 0
    BY <1>1, <1>5, <2>1 DEF HeadSize, TailSize
  <2>5. tail' = Bytes(total' - 0, total')
    BY <1>1, <1>3, <2>1, <2>2, BytesNone
  <2>6. omitted' \in Nat /\ omitted' <= total' - (HeadSize' + TailSize')
    BY <1>1, <1>3, <2>1, <2>2, <2>4
  <2>7. head' = Bytes(0, HeadSize') /\ tail' = Bytes(total' - TailSize', total')
    BY <1>1, <2>3, <2>4, <2>5
  <2> QED
    BY <1>1, <2>6, <2>7 DEF BufferInv, Counts, HeadThenTail, NeverOvercounts
<1>6. CASE ~(HeadSize < Half /\ n <= Half - HeadSize)
  <2> DEFINE room == Half - HeadSize
             s == total + room
             e == total + n
  <2>1. HeadSize \in Nat /\ HeadSize <= Half /\ room \in Nat /\ room <= n
    BY <1>1, <1>6, Sizes
  <2>2. /\ head' = head \o Bytes(total, s)
        /\ appendTail(Bytes(s, e))
    BY <1>2, <1>4, <1>6 DEF Store
  <2>3. s \in Nat /\ e \in Nat /\ s <= e /\ s >= Half
    BY <1>1, <2>1 DEF HeadSize
  <2>4. head' = Bytes(0, Half)
    <3>1. CASE total < Half
      <4>1. HeadSize = total /\ s = Half /\ 0 <= total /\ total <= Half
        BY <1>1, <3>1 DEF HeadSize
      <4>2. head' = Bytes(0, total) \o Bytes(total, Half)
        BY <1>3, <2>2, <4>1
      <4> QED
        BY <1>1, <4>1, <4>2, BytesJoin
    <3>2. CASE total >= Half
      <4>1. HeadSize = Half /\ s = total
        BY <1>1, <3>2 DEF HeadSize
      <4>2. head' = Bytes(0, Half) \o Bytes(Half, Half)
        BY <1>1, <1>3, <2>2, <4>1, BytesNone
      <4> QED
        BY <4>2, BytesJoin, 0 <= Half, Half <= Half
    <3> QED
      BY <1>1, <3>1, <3>2
  <2>5. /\ TailSize \in Nat /\ TailSize <= Half /\ TailSize <= s - Half
        /\ TailSize = IF s - Half < Half THEN s - Half ELSE Half
        /\ s - (Half + TailSize) = total - (HeadSize + TailSize)
    BY <1>1 DEF HeadSize, TailSize
  <2>6. tail = Bytes(s - TailSize, s)
    <3>1. CASE total < Half
      <4>1. TailSize = 0
        BY <1>1, <3>1 DEF HeadSize, TailSize
      <4>2. tail = Bytes(total, total) /\ Bytes(s - TailSize, s) = Bytes(s, s)
        BY <1>1, <1>3, <2>3, <4>1
      <4> HIDE DEF s
      <4> QED
        BY <1>1, <2>3, <4>2, BytesNone
    <3>2. CASE total >= Half
      BY <1>1, <1>3, <3>2 DEF HeadSize
    <3> QED
      BY <1>1, <3>1, <3>2
  <2>7. HeadSize' = Half /\ TailSize' = Kept(TailSize, e - s)
    BY <1>1, <2>3, <2>5 DEF HeadSize, TailSize, Kept
  <2> HIDE DEF s, e
  <2>8. /\ tail' = Bytes(e - Kept(TailSize, e - s), e)
        /\ omitted' \in Nat
        /\ omitted' <= omitted + ((TailSize + (e - s)) - Kept(TailSize, e - s))
    <3>1. TailSize <= s
      BY <2>3, <2>5
    <3> QED
      BY <1>1, <2>2, <2>3, <2>5, <2>6, <3>1, AppendTail
  <2>9. total' = e
    BY <1>1 DEF e
  <2>10. Kept(TailSize, e - s) \in Nat
    BY <2>3, <2>5 DEF Kept
  <2>11. omitted' <= e - (Half + Kept(TailSize, e - s))
    BY <1>1, <1>3, <2>1, <2>3, <2>5, <2>8, <2>10
  <2> QED
    BY <1>1, <2>4, <2>7, <2>8, <2>9, <2>11 DEF BufferInv, Counts, HeadThenTail, NeverOvercounts
<1> QED
  BY <1>5, <1>6

\* A buffer that starts empty satisfies the invariant, and no step breaks it.
LEMMA BufferInvariant == BufferSpec => []BufferInv
<1>1. BufferInit => BufferInv
  <2> SUFFICES ASSUME BufferInit PROVE BufferInv
    OBVIOUS
  <2>1. HeadSize = 0 /\ TailSize = 0 /\ total = 0
    <3>1. total = 0 /\ 0 < Half
      BY SizesOK DEF BufferInit
    <3>2. HeadSize = 0
      BY <3>1 DEF HeadSize
    <3> QED
      BY <3>1, <3>2 DEF TailSize
  <2>2. Bytes(0, 0) = << >>
    <3>1. Bytes(0, 0) \in Seq(Nat) /\ Len(Bytes(0, 0)) = 0
      BY BytesType
    <3> QED
      BY <3>1, EmptySeq
  <2> QED
    BY <2>1, <2>2 DEF BufferInit, BufferInv, Counts, HeadThenTail, NeverOvercounts
<1>2. BufferInv /\ [BufferNext]_bufferVars => BufferInv'
  <2> SUFFICES ASSUME BufferInv, [BufferNext]_bufferVars PROVE BufferInv'
    OBVIOUS
  <2>1. CASE \E n \in 0..MaxChunk : Write(n)
    BY <2>1, WriteKeeps
  <2>2. CASE Overflow \/ UNCHANGED bufferVars
    BY <2>2 DEF Overflow, bufferVars, BufferInv, Counts, HeadThenTail, NeverOvercounts,
                HeadSize, TailSize
  <2> QED
    BY <2>1, <2>2 DEF BufferNext
<1> QED
  BY <1>1, <1>2, PTL DEF BufferSpec

-----------------------------------------------------------------------------
(* The guard *)

GuardTypes == total \in Nat /\ firing \in Nat /\ overflowed \in BOOLEAN /\ stopped \in BOOLEAN
GuardInv == GuardTypes /\ FiresOnce

\* The guard fires exactly when the stream reaches the limit, and once.
LEMMA GuardInvariant == BufferSpec => []GuardInv
<1> USE SizesOK
<1>1. BufferInit => GuardInv
  <2> SUFFICES ASSUME BufferInit PROVE GuardInv
    OBVIOUS
  <2>1. total = 0 /\ firing = 0 /\ overflowed = FALSE /\ stopped = FALSE
    BY DEF BufferInit
  <2>2. ~(total >= KillLimit)
    BY <2>1
  <2>3. overflowed <=> total >= KillLimit
    BY <2>1, <2>2
  <2>4. firing + (IF stopped THEN 1 ELSE 0) = (IF overflowed THEN 1 ELSE 0)
    BY <2>1
  <2>5. GuardTypes
    BY <2>1 DEF GuardTypes
  <2> QED
    BY <2>3, <2>4, <2>5 DEF GuardInv, FiresOnce
<1>2. GuardInv /\ [BufferNext]_bufferVars => GuardInv'
  <2> SUFFICES ASSUME GuardInv, [BufferNext]_bufferVars PROVE GuardInv'
    OBVIOUS
  <2>1. ASSUME NEW n \in 0..MaxChunk, Write(n) PROVE GuardInv'
    <3>1. n \in Nat /\ total' = total + n /\ Guard(n) /\ stopped' = stopped
      BY <2>1 DEF Write
    <3>2. CASE total + n >= KillLimit /\ ~overflowed
      BY <3>1, <3>2 DEF GuardInv, GuardTypes, FiresOnce, Guard
    <3>3. CASE ~(total + n >= KillLimit /\ ~overflowed)
      BY <3>1, <3>3 DEF GuardInv, GuardTypes, FiresOnce, Guard
    <3> QED
      BY <3>2, <3>3
  <2>2. CASE Overflow
    BY <2>2 DEF Overflow, GuardInv, GuardTypes, FiresOnce
  <2>3. CASE UNCHANGED bufferVars
    BY <2>3 DEF bufferVars, GuardInv, GuardTypes, FiresOnce
  <2> QED
    BY <2>1, <2>2, <2>3 DEF BufferNext
<1> QED
  BY <1>1, <1>2, PTL DEF BufferSpec

-----------------------------------------------------------------------------
(* Theorems *)

\* Whatever the chunks, the buffer holds the first bytes of the stream and
\* the last bytes of the rest, each once and in order.
THEOREM KeepsBothEnds == BufferSpec => []HeadThenTail
<1>1. BufferInv => HeadThenTail
  BY DEF BufferInv
<1> QED
  BY <1>1, BufferInvariant, PTL

\* The marker never claims more bytes than are missing.
THEOREM CountsAtMost == BufferSpec => []NeverOvercounts
<1>1. BufferInv => NeverOvercounts
  BY DEF BufferInv
<1> QED
  BY <1>1, BufferInvariant, PTL

\* A job is cancelled by its output once, and only at the limit.
THEOREM GuardOnce == BufferSpec => []FiresOnce
<1>1. GuardInv => FiresOnce
  BY DEF GuardInv
<1> QED
  BY <1>1, GuardInvariant, PTL

-----------------------------------------------------------------------------
(* Batches of sub-agents *)

\* The statuses are untouched while a batch is being validated, only phases
\* have goroutines, a goroutine writes one map, and a batch without
\* dependencies has every task either at work or finished.
PhaseInv ==
    /\ phase \in {"start", "kahn", "cycle", "rejected"} =>
          /\ done = {} /\ failed = {} /\ blocked = {} /\ started = {}
    /\ phase \notin {"run", "parallel", "crashed"} => running = {}
    /\ writing.done \cap writing.failed = {}
    /\ phase = "parallel" =>
          /\ \A t \in Tasks : deps[t] = <<>>
          /\ writing = [done |-> {}, failed |-> {}]
          /\ blocked = {}
          /\ done \cup failed \cup running = Tasks
    /\ started \subseteq running \cup done \cup failed
    /\ writing.done \cup writing.failed \subseteq running

\* The statuses have their types; the part of BatchTypes the argument needs.
Shape ==
    /\ deps \in [Tasks -> Seq(Tasks \cup {Unknown})]
    /\ running \subseteq Tasks
    /\ writing \in [done : SUBSET Tasks, failed : SUBSET Tasks]
    /\ done \subseteq Tasks /\ failed \subseteq Tasks /\ blocked \subseteq Tasks
    /\ started \subseteq Tasks

DAGInv == Shape /\ PhaseInv /\ StatusesPartition /\ StartsAfterDeps
-----------------------------------------------------------------------------
\* What a task depends on are the elements of its list.
LEMMA DepsElements ==
    ASSUME Shape, NEW t \in Tasks
    PROVE  /\ DependsOn(t) = {deps[t][i] : i \in 1..Len(deps[t])}
           /\ deps[t] = <<>> => DependsOn(t) = {}
<1>1. DependsOn(t) = {deps[t][i] : i \in DOMAIN deps[t]}
  BY DEF DependsOn, ToSet
<1>2. deps[t] \in Seq(Tasks \cup {Unknown})
  BY DEF Shape
<1>3. DOMAIN deps[t] = 1..Len(deps[t])
  BY <1>2
<1>4. deps[t] = <<>> => 1..Len(deps[t]) = {}
  BY <1>2
<1> QED
  BY <1>1, <1>3, <1>4

\* A step that changes neither the batch nor the maps, and leaves or stays
\* among the phases in which nothing runs, keeps the invariant.
LEMMA QuietStep ==
    ASSUME DAGInv, UNCHANGED <<deps, runVars>>,
           phase' = phase \/ phase' \in {"kahn", "cycle", "rejected", "scan", "over",
                                          "crashed"},
           phase' = phase \/ phase \in {"start", "kahn"} \/ phase' = "crashed"
             \/ running = {},
           phase' \in {"kahn", "cycle", "rejected"} => phase \in {"start", "kahn"},
           phase' = "over" => phase = "over" \/ Processed = Tasks
    PROVE  DAGInv'
<1>1. Shape' /\ StartsAfterDeps'
  BY DEF DAGInv, Shape, StartsAfterDeps, DependsOn, runVars
<1>2. PhaseInv'
  BY DEF DAGInv, PhaseInv, runVars
<1>3. StatusesPartition'
  BY DEF DAGInv, StatusesPartition, PhaseInv, Processed, runVars
<1> QED
  BY <1>1, <1>2, <1>3 DEF DAGInv

\* Nothing in the invariant depends on Kahn's bookkeeping.
LEMMA UnchangedStep ==
    ASSUME DAGInv, UNCHANGED <<deps, runVars>>, phase' = phase
    PROVE  DAGInv'
BY DEF DAGInv, Shape, PhaseInv, StatusesPartition, StartsAfterDeps, DependsOn, Processed, runVars

LEMMA InitDAGInv == BatchInit => DAGInv
<1> SUFFICES ASSUME BatchInit PROVE DAGInv
  OBVIOUS
<1>1. deps \in [Tasks -> Seq(Tasks \cup {Unknown})]
  BY DEF BatchInit, SeqOf
<1>2. Shape
  BY <1>1 DEF BatchInit, Shape
<1>3. PhaseInv /\ StatusesPartition /\ StartsAfterDeps
  BY DEF BatchInit, PhaseInv, StatusesPartition, StartsAfterDeps, Processed
<1> QED
  BY <1>2, <1>3 DEF DAGInv

LEMMA ScanKeepsInv == DAGInv /\ Scan => DAGInv'
<1> SUFFICES ASSUME DAGInv, Scan PROVE DAGInv'
  OBVIOUS
<1>1. /\ Ready \subseteq Tasks \ Processed /\ BlockedNow \subseteq Tasks \ Processed
      /\ \A t \in Ready : DependsOn(t) \subseteq done
  BY DEF Ready, BlockedNow
<1>2. BlockedNow \cap Ready = {}
  <2> SUFFICES ASSUME NEW t \in BlockedNow, t \in Ready PROVE FALSE
    OBVIOUS
  <2>1. PICK i \in 1..Len(deps[t]) : deps[t][i] \in failed
    BY DEF BlockedNow
  <2>2. t \in Tasks /\ deps[t][i] \in DependsOn(t)
    BY <2>1, <1>1, DepsElements DEF DAGInv
  <2> QED
    BY <2>1, <2>2, <1>1 DEF DAGInv, StatusesPartition
<1>3. running = {} /\ writing.done \cup writing.failed = {}
  BY DEF Scan, DAGInv, PhaseInv
<1>4. Shape'
  BY <1>1 DEF Scan, DAGInv, Shape
<1>5. PhaseInv'
  BY <1>3 DEF Scan, DAGInv, PhaseInv
<1>6. StatusesPartition'
  <2>1. CASE Ready = {}
    BY <2>1, <1>1 DEF Scan, DAGInv, Shape, StatusesPartition, Processed
  <2>2. CASE Ready # {}
    BY <2>2, <1>1, <1>2 DEF Scan, DAGInv, Shape, StatusesPartition, Processed
  <2> QED
    BY <2>1, <2>2
<1>7. StartsAfterDeps'
  BY <1>1 DEF Scan, DAGInv, StartsAfterDeps, DependsOn
<1> QED
  BY <1>4, <1>5, <1>6, <1>7 DEF DAGInv

LEMMA TaskKeepsInv ==
    ASSUME DAGInv, NEW t \in Tasks,
           TaskFails(t) \/ TaskRuns(t) \/ TaskWritten(t) \/ ParallelTaskEnds(t)
    PROVE  DAGInv'
<1>1. CASE TaskFails(t)
  <2>1. Shape'
    BY <1>1 DEF TaskFails, DAGInv, Shape
  <2>2. PhaseInv'
    BY <1>1 DEF TaskFails, DAGInv, Shape, PhaseInv
  <2>3. StatusesPartition' /\ StartsAfterDeps'
    BY <1>1 DEF TaskFails, DAGInv, StatusesPartition, StartsAfterDeps, Processed, DependsOn
  <2> QED
    BY <2>1, <2>2, <2>3 DEF DAGInv
<1>2. CASE TaskRuns(t)
  <2>1. Shape'
    BY <1>2 DEF TaskRuns, DAGInv, Shape
  <2>2. PhaseInv'
    BY <1>2 DEF TaskRuns, DAGInv, Shape, PhaseInv
  <2>3. StatusesPartition' /\ StartsAfterDeps'
    BY <1>2 DEF TaskRuns, DAGInv, StatusesPartition, StartsAfterDeps, Processed, DependsOn
  <2> QED
    BY <2>1, <2>2, <2>3 DEF DAGInv
<1>3. CASE TaskWritten(t)
  <2>1. Shape'
    BY <1>3 DEF TaskWritten, DAGInv, Shape
  <2>2. PhaseInv'
    BY <1>3 DEF TaskWritten, DAGInv, Shape, PhaseInv
  <2>3. t \in running
    BY <1>3 DEF TaskWritten, DAGInv, PhaseInv
  <2>4. StatusesPartition'
    BY <1>3, <2>3 DEF TaskWritten, DAGInv, PhaseInv, StatusesPartition, Processed
  <2>5. StartsAfterDeps'
    BY <1>3 DEF TaskWritten, DAGInv, StartsAfterDeps, DependsOn
  <2> QED
    BY <2>1, <2>2, <2>4, <2>5 DEF DAGInv
<1>4. CASE ParallelTaskEnds(t)
  <2>1. Shape'
    BY <1>4 DEF ParallelTaskEnds, DAGInv, Shape
  <2>2. PhaseInv'
    BY <1>4 DEF ParallelTaskEnds, DAGInv, Shape, PhaseInv
  <2>3. StatusesPartition'
    BY <1>4 DEF ParallelTaskEnds, DAGInv, PhaseInv, StatusesPartition, Processed
  <2>4. \A u \in Tasks : DependsOn(u) = {}
    BY <1>4, DepsElements DEF ParallelTaskEnds, DAGInv, PhaseInv
  <2>5. StartsAfterDeps'
    BY <1>4, <2>1, <2>4 DEF ParallelTaskEnds, StartsAfterDeps, Shape, DependsOn
  <2> QED
    BY <2>1, <2>2, <2>3, <2>5 DEF DAGInv
<1> QED
  BY <1>1, <1>2, <1>3, <1>4

LEMMA NextKeepsInv == DAGInv /\ [BatchNext]_batchVars => DAGInv'
<1> SUFFICES ASSUME DAGInv, [BatchNext]_batchVars PROVE DAGInv'
  OBVIOUS
<1>1. CASE RunParallel
  <2>1. \A t \in Tasks : deps[t] = <<>> /\ DependsOn(t) = {}
    BY <1>1, DepsElements DEF RunParallel, HasDeps, DAGInv
  <2>2. done = {} /\ failed = {} /\ blocked = {} /\ started = {} /\ running = {}
    BY <1>1 DEF RunParallel, DAGInv, PhaseInv
  <2>3. writing = [done |-> {}, failed |-> {}]
    BY <2>2 DEF DAGInv, PhaseInv, Shape
  <2>4. Shape'
    BY <1>1 DEF RunParallel, DAGInv, Shape
  <2>5. PhaseInv'
    BY <1>1, <2>1, <2>2, <2>3 DEF RunParallel, PhaseInv
  <2>6. StatusesPartition' /\ StartsAfterDeps'
    BY <1>1, <2>1, <2>2 DEF RunParallel, StatusesPartition, StartsAfterDeps, Processed,
                            DependsOn
  <2> QED
    BY <2>4, <2>5, <2>6 DEF DAGInv
<1>2. CASE RejectUnknown
  BY <1>2, QuietStep DEF RejectUnknown
<1>9. CASE StartKahn
  BY <1>9, QuietStep DEF StartKahn
<1>10. CASE KahnEnds
  BY <1>10, QuietStep DEF KahnEnds
<1>11. CASE ScanEnds
  <2>1. running = {}
    BY <1>11 DEF ScanEnds, DAGInv, PhaseInv
  <2> QED
    BY <1>11, <2>1, QuietStep DEF ScanEnds
<1>12. CASE MapRace
  BY <1>12, QuietStep DEF MapRace
<1>3. CASE \E t \in Tasks : KahnVisits(t)
  BY <1>3, QuietStep DEF KahnVisits
<1>4. CASE GroupWaits
  BY <1>4, QuietStep DEF GroupWaits
<1>5. CASE ParallelWaits
  <2>1. Processed = Tasks
    BY <1>5 DEF ParallelWaits, DAGInv, PhaseInv, Processed
  <2> QED
    BY <1>5, <2>1, QuietStep DEF ParallelWaits
<1>6. CASE Scan
  BY <1>6, ScanKeepsInv
<1>7. CASE \E t \in Tasks : TaskFails(t) \/ TaskRuns(t) \/ TaskWritten(t)
                              \/ ParallelTaskEnds(t)
  BY <1>7, TaskKeepsInv
<1>8. CASE UNCHANGED batchVars
  <2>1. UNCHANGED <<deps, runVars>> /\ phase' = phase
    BY <1>8 DEF batchVars
  <2> QED
    BY <2>1, UnchangedStep
<1> QED
  BY <1>1, <1>2, <1>3, <1>4, <1>5, <1>6, <1>7, <1>8, <1>9, <1>10, <1>11, <1>12 DEF BatchNext

\* For any batch: a sub-agent is asked to run only after every task it
\* depends on is done and none of them failed.
THEOREM DependenciesFirst == BatchSpec => []StartsAfterDeps
<1>1. DAGInv => StartsAfterDeps
  BY DEF DAGInv
<1> QED
  BY InitDAGInv, NextKeepsInv, <1>1, PTL DEF BatchSpec

\* For any batch: no task has two statuses, and every task has one when the
\* batch is over.
THEOREM OneStatusEach == BatchSpec => []StatusesPartition
<1>1. DAGInv => StatusesPartition
  BY DEF DAGInv
<1> QED
  BY InitDAGInv, NextKeepsInv, <1>1, PTL DEF BatchSpec

-----------------------------------------------------------------------------
(* Validation: Kahn's algorithm *)

\* A list has no fewer entries than it names tasks.
LEMMA DepsCount ==
    ASSUME Shape, NEW t \in Tasks
    PROVE  /\ IsFiniteSet(DependsOn(t)) /\ Len(deps[t]) \in Nat
           /\ Cardinality(DependsOn(t)) \in Nat
           /\ Cardinality(DependsOn(t)) <= Len(deps[t])
<1> DEFINE n == Len(deps[t])
<1> DEFINE named == {deps[t][i] : i \in 1..n}
<1>0. DependsOn(t) = named
  BY DepsElements, Zenon
<1>1. deps[t] \in [1..n -> DependsOn(t)] /\ n \in Nat
  BY DepsElements DEF Shape
<1>2. \A d \in DependsOn(t) : \E i \in 1..n : deps[t][i] = d
  BY <1>0
<1>3. deps[t] \in Surjection(1..n, DependsOn(t))
  BY <1>1, <1>2 DEF Surjection
<1>4. IsFiniteSet(1..n) /\ Cardinality(1..n) = n
  <2> HIDE DEF n
  <2>1. IsFiniteSet(1..n) /\ Cardinality(1..n) = IF 1 > n THEN 0 ELSE n - 1 + 1
    BY <1>1, FS_Interval
  <2> QED BY <1>1, <2>1
<1>5. IsFiniteSet(DependsOn(t)) /\ Cardinality(DependsOn(t)) <= n
  BY <1>3, <1>4, FS_Surjection
<1> QED
  BY <1>1, <1>5, FS_CardinalityType

\* The tasks that were visited or wait in the queue.
Free == visited \cup queue

\* The in-degree counts the entries of a list that were not visited.  A task is
\* free when none are left, and of the free tasks, however chosen, one depends on
\* none of the others.
KahnInv ==
    /\ inDegree \in [Tasks -> Int] /\ visited \subseteq Tasks /\ queue \subseteq Tasks
    /\ visited \cap queue = {}
    /\ \A u \in Tasks : Unknown \notin DependsOn(u)
    /\ \A u \in Tasks :
          inDegree[u] = Len(deps[u]) - Cardinality(DependsOn(u) \cap visited)
    /\ \A u \in Tasks : u \in Free <=> inDegree[u] = 0
    /\ \A S \in SUBSET Free : S # {} => \E t \in S : DependsOn(t) \cap S = {}

\* With nothing left to wait for, all dependencies were visited and none is named
\* twice.
LEMMA NothingLeft ==
    ASSUME Shape, NEW u \in Tasks, NEW V,
           Len(deps[u]) - Cardinality(DependsOn(u) \cap V) = 0
    PROVE  DependsOn(u) \subseteq V /\ Cardinality(DependsOn(u)) = Len(deps[u])
<1> DEFINE seen == DependsOn(u) \cap V
<1>1. /\ IsFiniteSet(DependsOn(u)) /\ Len(deps[u]) \in Nat
      /\ Cardinality(DependsOn(u)) \in Nat /\ Cardinality(DependsOn(u)) <= Len(deps[u])
  BY DepsCount
<1>2. /\ IsFiniteSet(seen) /\ Cardinality(seen) <= Cardinality(DependsOn(u))
      /\ Cardinality(DependsOn(u)) = Cardinality(seen) => DependsOn(u) = seen
  BY <1>1, FS_Subset
<1>3. Cardinality(seen) \in Nat
  BY <1>2, FS_CardinalityType
<1>4. Cardinality(seen) = Len(deps[u])
  BY <1>1, <1>3
<1> QED
  BY <1>1, <1>2, <1>3, <1>4

LEMMA KahnStarts == ASSUME Shape, StartKahn PROVE KahnInv'
<1>1. \A u \in Tasks : deps[u] = <<>> <=> Len(deps[u]) = 0
  BY DEF Shape
<1>2. \A u \in Tasks : DependsOn(u) \cap {} = {}
  OBVIOUS
<1>3. \A u \in Tasks : deps[u] = <<>> => DependsOn(u) = {}
  BY DepsElements
<1>4. /\ inDegree' = [u \in Tasks |-> Len(deps[u])] /\ visited' = {}
      /\ queue' = {u \in Tasks : deps[u] = <<>>} /\ deps' = deps
      /\ \A u \in Tasks : Unknown \notin DependsOn(u)
  BY DEF StartKahn
<1>5. \A u \in Tasks : Len(deps[u]) \in Nat
  BY DEF Shape
<1>6. \A u \in Tasks : DependsOn(u)' = DependsOn(u)
  BY <1>4 DEF DependsOn
<1>7. \A u \in Tasks : inDegree'[u] = Len(deps[u]) - Cardinality(DependsOn(u) \cap visited')
  BY <1>2, <1>4, <1>5, FS_EmptySet
<1>8. \A u \in Tasks : u \in Free' <=> inDegree'[u] = 0
  BY <1>1, <1>4 DEF Free
<1>9. \A u \in Free' : DependsOn(u) = {} /\ u \in Tasks
  BY <1>3, <1>4 DEF Free
<1>10. \A S \in SUBSET Free' : S # {} => \E u \in S : DependsOn(u)' \cap S = {}
  BY <1>6, <1>9
<1>11. inDegree' \in [Tasks -> Int] /\ visited' \subseteq Tasks /\ queue' \subseteq Tasks
       /\ visited' \cap queue' = {}
  BY <1>4, <1>5
<1> QED
  BY <1>4, <1>6, <1>7, <1>8, <1>10, <1>11 DEF KahnInv

LEMMA KahnGoesOn ==
    ASSUME Shape, KahnInv, NEW t \in Tasks, KahnVisits(t)
    PROVE  KahnInv'
<1> DEFINE new == {u \in Tasks : t \in DependsOn(u) /\ inDegree[u] = 1}
<1>1. /\ t \in queue /\ t \notin visited /\ deps' = deps
      /\ visited' = visited \cup {t} /\ queue' = (queue \ {t}) \cup new
      /\ inDegree' = [u \in Tasks |-> IF t \in DependsOn(u) THEN inDegree[u] - 1
                                      ELSE inDegree[u]]
  BY DEF KahnVisits, KahnInv
<1>2. \A u \in Free : u \in Tasks /\ DependsOn(u) \subseteq visited
  BY NothingLeft DEF KahnInv, Free
<1>3. \A u \in Tasks : t \in DependsOn(u) => u \notin Free
  BY <1>1, <1>2
<1>4. \A u \in Tasks : inDegree'[u] = Len(deps[u]) - Cardinality(DependsOn(u) \cap visited')
  <2> SUFFICES ASSUME NEW u \in Tasks
               PROVE  inDegree'[u] = Len(deps[u]) - Cardinality(DependsOn(u) \cap visited')
    OBVIOUS
  <2> DEFINE seen == DependsOn(u) \cap visited
  <2>1. IsFiniteSet(seen) /\ Len(deps[u]) \in Nat
    BY DepsCount, FS_Subset
  <2>2. Cardinality(seen) \in Nat
    BY <2>1, FS_CardinalityType
  <2>3. CASE t \in DependsOn(u)
    <3>1. DependsOn(u) \cap visited' = seen \cup {t} /\ t \notin seen
      BY <1>1, <2>3
    <3>2. Cardinality(seen \cup {t}) = Cardinality(seen) + 1
      BY <2>1, <3>1, FS_AddElement, Zenon
    <3>3. inDegree'[u] = inDegree[u] - 1 /\ inDegree[u] = Len(deps[u]) - Cardinality(seen)
      BY <1>1, <2>3 DEF KahnInv
    <3>4. inDegree'[u] = Len(deps[u]) - Cardinality(seen \cup {t})
      <4> DEFINE m == Cardinality(seen)
                 k == Len(deps[u])
      <4>1. k \in Nat /\ m \in Nat /\ Cardinality(seen \cup {t}) = m + 1
            /\ inDegree'[u] = k - m - 1
        BY <2>1, <2>2, <3>2, <3>3
      <4> HIDE DEF k, m, seen
      <4>2. inDegree'[u] = k - (m + 1)
        BY <4>1
      <4> QED BY <4>1, <4>2 DEF k
    <3> QED BY <3>1, <3>4
  <2>4. CASE t \notin DependsOn(u)
    <3>1. DependsOn(u) \cap visited' = seen
      BY <1>1, <2>4
    <3> QED BY <1>1, <2>4, <3>1 DEF KahnInv
  <2> QED BY <2>3, <2>4
<1>5. new \cap Free = {} /\ t \notin new
  BY <1>1, <1>3 DEF Free
<1>6. Free' = Free \cup new
  BY <1>1 DEF Free
<1>7. \A u \in Tasks : u \in Free' <=> inDegree'[u] = 0
  <2> SUFFICES ASSUME NEW u \in Tasks PROVE u \in Free' <=> inDegree'[u] = 0
    OBVIOUS
  <2>1. inDegree[u] \in Int /\ (u \in Free <=> inDegree[u] = 0)
    BY DEF KahnInv
  <2>2. CASE t \in DependsOn(u)
    BY <1>1, <1>3, <1>6, <2>1, <2>2
  <2>3. CASE t \notin DependsOn(u)
    BY <1>1, <1>6, <2>1, <2>3
  <2> QED BY <2>2, <2>3
<1>8. \A u \in new : DependsOn(u) \subseteq visited'
  <2> SUFFICES ASSUME NEW u \in new PROVE DependsOn(u) \subseteq visited'
    OBVIOUS
  <2>1. u \in Tasks /\ inDegree'[u] = 0
    BY <1>1
  <2>2. Len(deps[u]) - Cardinality(DependsOn(u) \cap visited') = 0
    BY <1>4, <2>1
  <2> QED BY <2>1, <2>2, NothingLeft
<1>9. ASSUME NEW S \in SUBSET Free', S # {}
      PROVE  \E u \in S : DependsOn(u) \cap S = {}
  <2>1. CASE S \cap Free # {}
    <3>1. PICK u \in S \cap Free : DependsOn(u) \cap (S \cap Free) = {}
      BY <2>1 DEF KahnInv
    <3>2. DependsOn(u) \subseteq Free
      BY <1>2 DEF Free
    <3> QED BY <3>1, <3>2
  <2>2. CASE S \cap Free = {}
    <3>1. S \subseteq new
      BY <1>6, <2>2
    <3>2. new \cap visited' = {}
      BY <1>1, <1>5 DEF Free
    <3> QED BY <1>8, <1>9, <3>1, <3>2
  <2> QED BY <2>1, <2>2
<1>10. \A u \in Tasks : DependsOn(u)' = DependsOn(u)
  BY <1>1 DEF DependsOn
<1>11. inDegree' \in [Tasks -> Int] /\ visited' \subseteq Tasks /\ queue' \subseteq Tasks
       /\ visited' \cap queue' = {}
  <2>1. inDegree' \in [Tasks -> Int]
    BY <1>1 DEF KahnInv
  <2>2. visited' \subseteq Tasks /\ queue' \subseteq Tasks /\ visited' \cap queue' = {}
    BY <1>1, <1>5 DEF KahnInv, Free
  <2> QED BY <2>1, <2>2
<1>12. \A u \in Tasks : u \in Free' => u \in Tasks
  OBVIOUS
<1>13. Free' \subseteq Tasks
  BY <1>11 DEF Free
<1>14. \A S \in SUBSET Free' : S # {} => \E u \in S : DependsOn(u)' \cap S = {}
  BY <1>9, <1>10, <1>13
<1>15. \A u \in Tasks : Unknown \notin DependsOn(u)'
  BY <1>10 DEF KahnInv
<1>16. \A u \in Tasks :
          inDegree'[u] = Len(deps'[u]) - Cardinality(DependsOn(u)' \cap visited')
  BY <1>1, <1>4, <1>10
<1> QED
  BY <1>7, <1>11, <1>14, <1>15, <1>16, Zenon DEF KahnInv

\* The validation's verdict: what it visits in full has neither, and what it
\* cannot visit waits for itself or for an entry that is there twice.
LEMMA KahnVerdict ==
    ASSUME Shape, KahnInv, queue = {}
    PROVE  IF visited = Tasks THEN ~HasCycle /\ ~NamesTwice ELSE HasCycle \/ NamesTwice
<1>1. CASE visited = Tasks
  <2>1. ~HasCycle
    <3> SUFFICES ASSUME NEW S \in (SUBSET Tasks) \ {{}}, \A t \in S : DependsOn(t) \cap S # {}
                 PROVE  FALSE
      BY DEF HasCycle
    <3>1. S \in SUBSET Free /\ S # {}
      BY <1>1 DEF Free
    <3> QED BY <3>1 DEF KahnInv
  <2>2. ~NamesTwice
    BY <1>1, NothingLeft DEF KahnInv, Free, NamesTwice
  <2> QED BY <1>1, <2>1, <2>2
<1>2. CASE visited # Tasks
  <2> SUFFICES ASSUME ~NamesTwice PROVE HasCycle
    BY <1>2
  <2> DEFINE rest == Tasks \ visited
  <2>1. rest \in (SUBSET Tasks) \ {{}}
    <3>1. visited \subseteq Tasks
      BY DEF KahnInv
    <3>2. rest # {}
      BY <1>2, <3>1
    <3> QED BY <3>2
  <2>2. ASSUME NEW u \in rest PROVE DependsOn(u) \cap rest # {}
    <3>1. inDegree[u] # 0
      BY <2>2 DEF KahnInv, Free
    <3>2. Len(deps[u]) - Cardinality(DependsOn(u) \cap visited) # 0
      BY <3>1, <2>2 DEF KahnInv
    <3>3. Cardinality(DependsOn(u)) = Len(deps[u]) /\ Len(deps[u]) \in Nat
      BY <2>2, DepsCount DEF NamesTwice
    <3>4. ~(DependsOn(u) \subseteq visited)
      <4> SUFFICES ASSUME DependsOn(u) \subseteq visited PROVE FALSE
        OBVIOUS
      <4>1. DependsOn(u) \cap visited = DependsOn(u)
        OBVIOUS
      <4>2. Cardinality(DependsOn(u) \cap visited) = Len(deps[u])
        BY <3>3, <4>1
      <4> QED BY <3>2, <3>3, <4>2
    <3>5. DependsOn(u) \subseteq Tasks \cup {Unknown} /\ Unknown \notin DependsOn(u)
      BY <2>2, DepsElements DEF Shape, KahnInv
    <3> QED BY <3>4, <3>5
  <2> QED BY <2>1, <2>2 DEF HasCycle
<1> QED
  BY <1>1, <1>2

-----------------------------------------------------------------------------
(* The verdict holds for the whole batch *)

Sound == ~HasCycle /\ ~NamesTwice

VerdictInv ==
    /\ phase = "kahn" => KahnInv
    /\ phase = "cycle" => ~Sound
    /\ phase \in {"scan", "run"} => Sound
    /\ phase = "parallel" => ~HasDeps
    /\ phase = "over" => Sound \/ ~HasDeps

\* The batch itself never changes.
LEMMA SameBatch ==
    ASSUME deps' = deps
    PROVE  (Sound' <=> Sound) /\ (HasDeps' <=> HasDeps)
BY DEF Sound, HasCycle, NamesTwice, HasDeps, DependsOn

\* Only the steps of the algorithm touch its bookkeeping.
LEMMA SameKahn == ASSUME KahnInv, UNCHANGED <<deps, kahnVars>> PROVE KahnInv'
BY DEF KahnInv, Free, kahnVars, DependsOn

LEMMA BatchFixed == ASSUME [BatchNext]_batchVars PROVE deps' = deps
BY DEF BatchNext, batchVars, RunParallel, RejectUnknown, StartKahn, KahnEnds, Scan, ScanEnds, GroupWaits,
       ParallelWaits, MapRace, KahnVisits, TaskFails, TaskRuns, TaskWritten, ParallelTaskEnds

LEMMA VerdictKept == ASSUME DAGInv, VerdictInv, [BatchNext]_batchVars PROVE VerdictInv'
<1>1. (Sound' <=> Sound) /\ (HasDeps' <=> HasDeps)
  BY BatchFixed, SameBatch
<1>2. CASE StartKahn
  <2>1. phase' = "kahn"
    BY <1>2 DEF StartKahn
  <2> QED BY <1>2, <2>1, KahnStarts DEF DAGInv, VerdictInv
<1>3. ASSUME NEW t \in Tasks, KahnVisits(t) PROVE VerdictInv'
  <2>1. phase = "kahn" /\ phase' = "kahn"
    BY <1>3 DEF KahnVisits
  <2> QED BY <1>3, <2>1, KahnGoesOn DEF DAGInv, VerdictInv
<1>4. CASE KahnEnds
  <2>1. /\ phase = "kahn" /\ queue = {}
        /\ phase' = IF visited = Tasks THEN "scan" ELSE "cycle"
    BY <1>4 DEF KahnEnds
  <2>2. IF visited = Tasks THEN Sound ELSE ~Sound
    BY <2>1, KahnVerdict, Zenon DEF DAGInv, VerdictInv, Sound
  <2> QED BY <1>1, <2>1, <2>2 DEF VerdictInv
<1>5. CASE RunParallel \/ RejectUnknown
  BY <1>1, <1>5 DEF RunParallel, RejectUnknown, VerdictInv
<1>6. CASE Scan \/ ScanEnds \/ GroupWaits \/ ParallelWaits \/ MapRace
  BY <1>1, <1>6 DEF Scan, ScanEnds, GroupWaits, ParallelWaits, MapRace, VerdictInv
<1>7. ASSUME NEW t \in Tasks,
             TaskFails(t) \/ TaskRuns(t) \/ TaskWritten(t) \/ ParallelTaskEnds(t)
      PROVE  VerdictInv'
  BY <1>1, <1>7 DEF TaskFails, TaskRuns, TaskWritten, ParallelTaskEnds, VerdictInv
<1>8. CASE UNCHANGED batchVars
  BY <1>1, <1>8, SameKahn DEF batchVars, VerdictInv
<1> QED
  BY <1>2, <1>3, <1>4, <1>5, <1>6, <1>7, <1>8 DEF BatchNext

LEMMA VerdictHolds == BatchSpec => [](DAGInv /\ VerdictInv)
<1>1. BatchInit => VerdictInv
  BY DEF BatchInit, VerdictInv
<1>2. DAGInv /\ VerdictInv /\ [BatchNext]_batchVars => VerdictInv'
  BY VerdictKept
<1> QED
  BY <1>1, <1>2, InitDAGInv, NextKeepsInv, PTL DEF BatchSpec

\* The validation refuses just the batches with a cycle or a task named twice in
\* one list: no cyclic batch is run, and no other is turned away as cyclic.
THEOREM ValidationIsExact == BatchSpec => []CycleVerdict
<1>1. VerdictInv => CycleVerdict
  BY DEF VerdictInv, CycleVerdict, Sound
<1> QED
  BY <1>1, VerdictHolds, PTL

-----------------------------------------------------------------------------
(* Who is blocked *)

\* What is upstream of a task is closed, and holds all that is upstream of its
\* members.
LEMMA UpstreamFacts ==
    ASSUME NEW t \in Tasks
    PROVE  /\ t \in Upstream(t) /\ Upstream(t) \subseteq Tasks /\ Closed(Upstream(t))
           /\ \A u \in Upstream(t) : Upstream(u) \subseteq Upstream(t)
<1>1. t \in Upstream(t) /\ Upstream(t) \subseteq Tasks
  BY DEF Upstream
<1>2. Closed(Upstream(t))
  <2> SUFFICES ASSUME NEW u \in Upstream(t), NEW d \in DependsOn(u) \cap Tasks,
                      NEW S \in SUBSET Tasks, t \in S, Closed(S)
               PROVE  d \in S
    BY DEF Closed, Upstream
  <2>1. u \in S
    BY DEF Upstream
  <2> QED BY <2>1 DEF Closed
<1>3. \A u \in Upstream(t) : Upstream(u) \subseteq Upstream(t)
  BY <1>1, <1>2 DEF Upstream
<1> QED
  BY <1>1, <1>2, <1>3

\* A task with a failed dependency is doomed.
LEMMA BlockedNowIsDoomed ==
    ASSUME Shape, NEW t \in BlockedNow PROVE Upstream(t) \cap failed # {}
<1>1. PICK i \in 1..Len(deps[t]) : deps[t][i] \in failed
  BY DEF BlockedNow
<1>2. t \in Tasks /\ deps[t][i] \in DependsOn(t) /\ deps[t][i] \in Tasks
  BY <1>1, DepsElements DEF BlockedNow, Shape
<1> QED
  BY <1>1, <1>2, UpstreamFacts DEF Closed

\* When no task is ready those that remain are doomed: if none upstream of one had
\* failed, those that are not done would all wait for each other.
LEMMA RestIsDoomed ==
    ASSUME DAGInv, ~HasCycle, BlockedIsDoomed, Ready = {},
           \A u \in Tasks : Unknown \notin DependsOn(u),
           NEW t \in Tasks \ (done \cup failed)
    PROVE  Upstream(t) \cap failed # {}
<1> SUFFICES ASSUME Upstream(t) \cap failed = {} PROVE FALSE
  OBVIOUS
<1> DEFINE rest == Upstream(t) \ done
<1>1. t \in rest /\ rest \in SUBSET Tasks
  BY UpstreamFacts
<1>2. ASSUME NEW u \in rest PROVE DependsOn(u) \cap rest # {}
  <2>1. u \in Tasks /\ u \notin failed
    BY <1>1
  <2>2. u \notin blocked
    BY UpstreamFacts DEF BlockedIsDoomed
  <2>3. ~(DependsOn(u) \subseteq done)
    BY <2>1, <2>2 DEF Ready, Processed
  <2>4. PICK d \in DependsOn(u) : d \notin done
    BY <2>3
  <2>5. d \in Tasks
    BY <2>1, <2>4, DepsElements DEF DAGInv, Shape
  <2>6. d \in Upstream(t)
    BY <2>5, UpstreamFacts DEF Closed
  <2> QED BY <2>4, <2>6
<1> QED
  BY <1>1, <1>2 DEF HasCycle

\* The validated batch names no unknown task.
KnownInv == phase \in {"kahn", "scan", "run"} => \A u \in Tasks : Unknown \notin DependsOn(u)

LEMMA KnownKept == KnownInv /\ [BatchNext]_batchVars => KnownInv'
<1> SUFFICES ASSUME KnownInv, [BatchNext]_batchVars PROVE KnownInv'
  OBVIOUS
<1>1. \A u \in Tasks : DependsOn(u)' = DependsOn(u)
  BY BatchFixed DEF DependsOn
<1>2. phase' \in {"kahn", "scan", "run"} => StartKahn \/ phase \in {"kahn", "scan", "run"}
  BY DEF BatchNext, batchVars, RunParallel, RejectUnknown, KahnEnds, Scan, ScanEnds, GroupWaits,
       ParallelWaits, MapRace, KahnVisits, TaskFails, TaskRuns, TaskWritten, ParallelTaskEnds
<1> QED
  BY <1>1, <1>2 DEF KnownInv, StartKahn

LEMMA DoomKept ==
    ASSUME DAGInv, VerdictInv, KnownInv, BlockedIsDoomed, [BatchNext]_batchVars
    PROVE  BlockedIsDoomed'
<1>1. \A t \in Tasks : Upstream(t)' = Upstream(t)
  BY BatchFixed DEF Upstream, Closed, DependsOn
<1>2. CASE Scan
  <2>1. failed' = failed /\ blocked' \subseteq Tasks
    BY <1>2 DEF Scan, DAGInv, Shape, BlockedNow
  <2>2. CASE Ready = {}
    <3>1. blocked' = Tasks \ (done \cup failed)
      BY <1>2, <2>2 DEF Scan
    <3>2. ~HasCycle /\ \A u \in Tasks : Unknown \notin DependsOn(u)
      BY <1>2 DEF Scan, VerdictInv, Sound, KnownInv
    <3> QED BY <1>1, <2>1, <2>2, <3>1, <3>2, RestIsDoomed DEF BlockedIsDoomed
  <2>3. CASE Ready # {}
    <3>1. blocked' = blocked \cup BlockedNow
      BY <1>2, <2>3 DEF Scan
    <3> QED BY <1>1, <2>1, <3>1, BlockedNowIsDoomed DEF BlockedIsDoomed, DAGInv
  <2> QED BY <2>2, <2>3
<1>3. CASE ~Scan
  <2>1. blocked' = blocked /\ failed \subseteq failed'
    BY <1>3 DEF BatchNext, batchVars, runVars, RunParallel, RejectUnknown, StartKahn, KahnEnds, ScanEnds,
           GroupWaits, ParallelWaits, MapRace, KahnVisits, TaskFails, TaskRuns, TaskWritten,
           ParallelTaskEnds
  <2> QED BY <1>1, <2>1 DEF BlockedIsDoomed, DAGInv, Shape
<1> QED
  BY <1>2, <1>3

\* A task is blocked only below a failure: the sweep at the end never catches one
\* that could have run.
THEOREM BlockedNeedsFailure == BatchSpec => []BlockedIsDoomed
<1>1. BatchInit => KnownInv /\ BlockedIsDoomed
  BY DEF BatchInit, KnownInv, BlockedIsDoomed
<1>2. /\ DAGInv /\ VerdictInv /\ KnownInv /\ BlockedIsDoomed /\ [BatchNext]_batchVars
      => KnownInv' /\ BlockedIsDoomed'
  BY KnownKept, DoomKept
<1> QED
  BY <1>1, <1>2, VerdictHolds, PTL DEF BatchSpec
=============================================================================
