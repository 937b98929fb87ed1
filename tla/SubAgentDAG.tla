---------------------------- MODULE SubAgentDAG ----------------------------
(***************************************************************************)
(* One batch of sub-agent tasks of the agent tool                          *)
(* (internal/core/agent/coordinator/agent_tool.go): validation, phases of  *)
(* parallel tasks, and the blocking of dependents.                         *)
(*                                                                         *)
(* A task t stands for its ID and its goroutine.  The goroutines of a      *)
(* phase write the Go maps done and failed without a lock: two writes to   *)
(* one map at a time may end the program (MapRace).                        *)
(***************************************************************************)
EXTENDS Integers, Sequences, FiniteSets, SequencesExt

CONSTANTS
    Tasks,
    Unknown,        \* an ID that names no task of the batch
    MaxDeps         \* bound: length of a dependency list

ASSUME DAGConstants ==
    /\ IsFiniteSet(Tasks) /\ Unknown \notin Tasks
    /\ MaxDeps \in Nat

VARIABLES
    deps,       \* the batch: DependsOn of each task
    phase,      \* where the caller is
    inDegree, visited,      \* Kahn's algorithm; its queue holds the free tasks
    queue,
    running,    \* tasks of this phase whose goroutine is at work
    writing,    \* tasks whose goroutine writes a map: done or failed
    done, failed, blocked,  \* the status maps
    started,    \* history: tasks whose sub-agent was asked to run
    succeeded   \* history: tasks whose sub-agent gave a result

kahnVars == <<inDegree, visited, queue>>
runVars == <<running, writing, done, failed, blocked, started, succeeded>>
batchVars == <<deps, phase, kahnVars, runVars>>

DependsOn(t) == ToSet(deps[t])
Processed == done \cup failed \cup blocked
HasDeps == \E t \in Tasks : deps[t] # <<>>

-----------------------------------------------------------------------------
(* Validation *)

\* Batches without dependencies go to runSubAgentParallel.
RunParallel ==
    /\ phase = "start" /\ ~HasDeps
    /\ running' = Tasks
    /\ phase' = "parallel"
    /\ UNCHANGED <<deps, kahnVars, writing, done, failed, blocked, started, succeeded>>

RejectUnknown ==
    /\ phase = "start" /\ HasDeps
    /\ \E t \in Tasks : Unknown \in DependsOn(t)
    /\ phase' = "rejected"
    /\ UNCHANGED <<deps, kahnVars, runVars>>

\* The in-degree is the length of the list, duplicates included.
StartKahn ==
    /\ phase = "start" /\ HasDeps
    /\ \A t \in Tasks : Unknown \notin DependsOn(t)
    /\ inDegree' = [t \in Tasks |-> Len(deps[t])]
    /\ queue' = {t \in Tasks : deps[t] = <<>>}
    /\ visited' = {}
    /\ phase' = "kahn"
    /\ UNCHANGED <<deps, runVars>>

\* One task leaves the queue; its dependents lose one from their in-degree,
\* however often they name it.  The order of the queue does not matter.
\* Fault: a dependent is queued at its first decrement.
KahnVisits_TooEarly(t) ==
    /\ phase = "kahn" /\ t \in queue
    /\ inDegree' = [u \in Tasks |-> IF t \in DependsOn(u) /\ inDegree[u] > 0
                                    THEN inDegree[u] - 1 ELSE inDegree[u]]
    /\ queue' = (queue \cup {u \in Tasks : t \in DependsOn(u) /\ u \notin visited}) \ {t}
    /\ visited' = visited \cup {t}
    /\ UNCHANGED <<deps, phase, runVars>>
KahnVisits(t) ==
    /\ phase = "kahn" /\ t \in queue
    /\ inDegree' = [u \in Tasks |-> IF t \in DependsOn(u) THEN inDegree[u] - 1
                                    ELSE inDegree[u]]
    /\ queue' = (queue \ {t}) \cup {u \in Tasks : t \in DependsOn(u) /\ inDegree[u] = 1}
    /\ visited' = visited \cup {t}
    /\ UNCHANGED <<deps, phase, runVars>>

KahnEnds ==
    /\ phase = "kahn" /\ queue = {}
    /\ phase' = IF visited = Tasks THEN "scan" ELSE "cycle"
    /\ UNCHANGED <<deps, kahnVars, runVars>>

-----------------------------------------------------------------------------
(* Phases *)

Ready == {t \in Tasks \ Processed : DependsOn(t) \subseteq done}

\* The list is read from its head: a failed entry behind one that is not done
\* yet is not seen.
BlockedNow ==
    {t \in Tasks \ Processed : \E i \in 1..Len(deps[t]) :
        deps[t][i] \in failed /\ \A k \in 1..(i - 1) : deps[t][k] \in done}

\* Fault: tasks whose dependencies were processed in any way are ready.
Scan_ProcessedIsDone ==
    /\ phase = "scan" /\ Processed # Tasks
    /\ LET ready == {t \in Tasks \ Processed : DependsOn(t) \subseteq Processed}
       IN  /\ running' = ready
           /\ phase' = IF ready = {} THEN "over" ELSE "run"
           /\ blocked' = blocked \cup (BlockedNow \ ready)
    /\ UNCHANGED <<deps, kahnVars, writing, done, failed, started, succeeded>>
\* Fault: the tasks that never get ready are not marked.
Scan_ForgetsRest ==
    /\ phase = "scan" /\ Processed # Tasks
    /\ running' = Ready
    /\ phase' = IF Ready = {} THEN "over" ELSE "run"
    /\ blocked' = blocked \cup BlockedNow
    /\ UNCHANGED <<deps, kahnVars, writing, done, failed, started, succeeded>>
\* Fault: a pass that finds nothing to run is repeated.
Scan_Repeats ==
    /\ phase = "scan" /\ Processed # Tasks
    /\ running' = Ready
    /\ phase' = IF Ready = {} THEN "scan" ELSE "run"
    /\ blocked' = blocked \cup BlockedNow
    /\ UNCHANGED <<deps, kahnVars, writing, done, failed, started, succeeded>>
\* Fault: the dependents of a task that is not done are blocked as well.
Scan_BlocksWaiting ==
    /\ phase = "scan" /\ Processed # Tasks
    /\ running' = Ready
    /\ phase' = IF Ready = {} THEN "over" ELSE "run"
    /\ blocked' = (Tasks \ Processed) \ Ready
    /\ UNCHANGED <<deps, kahnVars, writing, done, failed, started, succeeded>>
\* One pass over the tasks: mark those with a failed dependency, run those
\* that are ready; without a ready task all that remain are blocked.
Scan ==
    /\ phase = "scan" /\ Processed # Tasks
    /\ running' = Ready
    /\ phase' = IF Ready = {} THEN "over" ELSE "run"
    /\ blocked' = IF Ready = {} THEN Tasks \ (done \cup failed)
                  ELSE blocked \cup BlockedNow
    /\ UNCHANGED <<deps, kahnVars, writing, done, failed, started, succeeded>>

ScanEnds ==
    /\ phase = "scan" /\ Processed = Tasks
    /\ phase' = "over"
    /\ UNCHANGED <<deps, kahnVars, runVars>>

-----------------------------------------------------------------------------
(* The goroutine of a task *)

\* The prompt is empty, the agent cannot be built, or the call fails before or
\* after the sub-agent's run (session, provider, cost).
TaskFails(t) ==
    /\ phase = "run" /\ t \in running \ (writing.done \cup writing.failed)
    /\ writing' = [writing EXCEPT !.failed = @ \cup {t}]
    /\ started' \in {started, started \cup {t}}
    /\ UNCHANGED <<deps, phase, kahnVars, running, done, failed, blocked, succeeded>>

\* The sub-agent has run.  runSubAgentWithMeta reports its error, its
\* cancellation and a missing result as a response, with a nil error.
TaskRuns(t) ==
    /\ phase = "run" /\ t \in running \ (writing.done \cup writing.failed)
    /\ started' = started \cup {t}
    /\ \/ succeeded' = succeeded \cup {t}
       \/ UNCHANGED succeeded
    /\ writing' = [writing EXCEPT !.done = @ \cup {t}]
    /\ UNCHANGED <<deps, phase, kahnVars, running, done, failed, blocked>>

TaskWritten(t) ==
    /\ phase = "run" /\ t \in writing.done \cup writing.failed
    /\ done' = done \cup ({t} \cap writing.done)
    /\ failed' = failed \cup ({t} \cap writing.failed)
    /\ writing' = [done |-> writing.done \ {t}, failed |-> writing.failed \ {t}]
    /\ running' = running \ {t}
    /\ UNCHANGED <<deps, phase, kahnVars, blocked, started, succeeded>>

\* "concurrent map writes" ends the program.
MapRace ==
    /\ phase = "run"
    /\ Cardinality(writing.done) > 1 \/ Cardinality(writing.failed) > 1
    /\ phase' = "crashed"
    /\ UNCHANGED <<deps, kahnVars, runVars>>

GroupWaits ==
    /\ phase = "run" /\ running = {}
    /\ phase' = "scan"
    /\ UNCHANGED <<deps, kahnVars, runVars>>

\* A task of a batch without dependencies; each writes its own entry.
ParallelTaskEnds(t) ==
    /\ phase = "parallel" /\ t \in running
    /\ running' = running \ {t}
    /\ \/ /\ started' = started \cup {t} /\ done' = done \cup {t}
          /\ succeeded' = succeeded \cup {t}
          /\ UNCHANGED failed
       \/ /\ started' = started \cup {t} /\ done' = done \cup {t}
          /\ UNCHANGED <<failed, succeeded>>
       \/ /\ started' \in {started, started \cup {t}} /\ failed' = failed \cup {t}
          /\ UNCHANGED <<done, succeeded>>
    /\ UNCHANGED <<deps, phase, kahnVars, writing, blocked>>

ParallelWaits ==
    /\ phase = "parallel" /\ running = {}
    /\ phase' = "over"
    /\ UNCHANGED <<deps, kahnVars, runVars>>

-----------------------------------------------------------------------------
BatchInit ==
    /\ deps \in [Tasks -> SeqOf(Tasks \cup {Unknown}, MaxDeps)]
    /\ phase = "start"
    /\ inDegree = [t \in Tasks |-> 0] /\ visited = {} /\ queue = {}
    /\ running = {}
    /\ writing = [done |-> {}, failed |-> {}]
    /\ done = {} /\ failed = {} /\ blocked = {}
    /\ started = {} /\ succeeded = {}

BatchNext ==
    \/ RunParallel \/ RejectUnknown \/ StartKahn \/ KahnEnds
    \/ Scan \/ ScanEnds \/ GroupWaits \/ ParallelWaits \/ MapRace
    \/ \E t \in Tasks :
          \/ KahnVisits(t) \/ TaskFails(t) \/ TaskRuns(t) \/ TaskWritten(t)
          \/ ParallelTaskEnds(t)

BatchSpec == BatchInit /\ [][BatchNext]_batchVars

\* The loops run on, and a sub-agent's run ends.
FairSpec == BatchSpec /\ WF_batchVars(BatchNext)

-----------------------------------------------------------------------------
(* Properties *)

\* Types of the batch's state.
BatchTypes ==
    /\ deps \in [Tasks -> Seq(Tasks \cup {Unknown})]
    /\ phase \in {"start", "parallel", "kahn", "cycle", "rejected", "scan", "run",
                  "over", "crashed"}
    /\ inDegree \in [Tasks -> Int]
    /\ visited \subseteq Tasks /\ queue \subseteq Tasks
    /\ running \subseteq Tasks
    /\ writing \in [done : SUBSET running, failed : SUBSET running]
    /\ done \subseteq Tasks /\ failed \subseteq Tasks /\ blocked \subseteq Tasks
    /\ started \subseteq Tasks /\ succeeded \subseteq Tasks

\* Every task ends with exactly one status: when the batch is over the three
\* maps partition the tasks, and before that no task is in two of them.
StatusesPartition ==
    /\ done \cap failed = {} /\ done \cap blocked = {} /\ failed \cap blocked = {}
    /\ running \cap Processed = {}
    /\ phase = "over" => Processed = Tasks

\* "tasks that must complete before this one starts": a sub-agent is only
\* asked to run when all its dependencies are done and none of them failed.
StartsAfterDeps == \A t \in started \cup running : DependsOn(t) \subseteq done

\* t and what it depends on, directly or not: the least set of tasks that has t
\* and the dependencies of its members.
Closed(S) == \A t \in S : DependsOn(t) \cap Tasks \subseteq S
Upstream(t) == {u \in Tasks : \A S \in SUBSET Tasks : t \in S /\ Closed(S) => u \in S}
\* Some tasks wait for each other: none of them can be the first to run.
HasCycle == \E S \in (SUBSET Tasks) \ {{}} : \A t \in S : DependsOn(t) \cap S # {}
NamesTwice == \E t \in Tasks : Cardinality(DependsOn(t)) # Len(deps[t])

\* Validation refuses a batch exactly if its dependencies have a cycle or a
\* list names a task twice; in particular no cyclic batch is ever run.
CycleVerdict ==
    /\ phase = "cycle" => HasCycle \/ NamesTwice
    /\ phase \in {"scan", "run", "over"} /\ HasDeps => ~HasCycle /\ ~NamesTwice

\* A task is only blocked because a task upstream of it failed: the sweep of
\* the last phase never catches a task that could have run.
BlockedIsDoomed ==
    \A t \in blocked : Upstream(t) \cap failed # {}

\* "Failed/errored tasks block their dependents": a sub-agent runs only after
\* the sub-agents it depends on have given a result.
FailureBlocks == \A t \in started : DependsOn(t) \subseteq succeeded

\* Every batch ends, whatever its graph and whatever fails.
BatchEnds == <>(phase \in {"rejected", "cycle", "over", "crashed"})
=============================================================================
