-------------------------- MODULE BackgroundShells --------------------------
(***************************************************************************)
(* Shell jobs (internal/core/shellruntime/shell, background_manager.go and *)
(* background_notify.go) and the bash and job_kill tools that use them.    *)
(* Every bash command is such a job: the tool waits for it and returns its *)
(* output, or hands it back to the model as a background job.              *)
(*                                                                         *)
(* A job j stands for its ID, for the tool call that starts it and for the *)
(* goroutine that runs it.  Output, audit files and times are left out.    *)
(***************************************************************************)
EXTENDS Naturals, Sequences, FiniteSets, FiniteSetsExt

CONSTANTS
    Jobs,           \* calls of Start
    Sessions,
    session,        \* the session of a job
    MaxJobs,        \* MaxBackgroundJobs
    MaxPending      \* maxPendingNotifications

ASSUME ShellConstants ==
    /\ session \in [Jobs -> Sessions]
    /\ MaxJobs \in Nat /\ MaxPending \in Nat \ {0}

VARIABLES
    proc,       \* where each job is
    tool,       \* where the tool call that started it is
    shells,     \* m.shells: the tracked jobs
    cancelled,  \* jobs whose context has been cancelled
    killing,    \* jobs a Kill has taken from the table and waits for
    pending,    \* m.pending: the positions in ended of what is not yet drained
    killAll,    \* where KillAll is
    collected,  \* the jobs KillAll has collected
    ended,      \* the jobs that have ended, in the order they were notified
    noted,      \* history: how often each job was drained into a prompt
    late,       \* history: jobs put into the table that KillAll was about to reset
    overlooked  \* history: jobs a Start did not count when it let its own in

killAllVars == <<killAll, collected>>
noteVars == <<pending, ended, noted>>
history == <<late, overlooked>>
vars == <<proc, tool, shells, cancelled, killing, killAllVars, noteVars, history>>

\* The job's process may run.
Live == {j \in Jobs : proc[j] = "running"}
\* Its done channel is not closed: what Start counts.
NotDone == {j \in Jobs : proc[j] \in {"listed", "running", "notified"}}

-----------------------------------------------------------------------------
(* Start, called by the bash tool *)

\* What a Start cannot see, because it counts the table: jobs that another Start
\* is about to register, jobs a Kill has taken, and jobs KillAll has dropped.
Unseen == {j \in Jobs : proc[j] = "counted"} \cup killing \cup collected \cup late

\* Enter job j into the table.
Track(j) ==
    /\ shells' = shells \cup {j}
    /\ late' = IF killAll = "reset" THEN late \cup {j} ELSE late
    /\ UNCHANGED overlooked

\* The limit counts the tracked jobs that are not done.
\* Fault: one job too many.
StartCounts_OffByOne(j) ==
    /\ proc[j] = "new"
    /\ IF Cardinality(shells \cap NotDone) <= MaxJobs
       THEN /\ proc' = [proc EXCEPT ![j] = "counted"]
            /\ overlooked' = overlooked \cup Unseen
            /\ UNCHANGED tool
       ELSE /\ proc' = [proc EXCEPT ![j] = "refused"]
            /\ tool' = [tool EXCEPT ![j] = "returned"]
            /\ UNCHANGED overlooked
    /\ UNCHANGED <<shells, cancelled, killing, killAllVars, noteVars, late>>
StartCounts(j) ==
    /\ proc[j] = "new"
    /\ IF Cardinality(shells \cap NotDone) < MaxJobs
       THEN /\ proc' = [proc EXCEPT ![j] = "counted"]
            /\ overlooked' = overlooked \cup Unseen
            /\ UNCHANGED tool
       ELSE /\ proc' = [proc EXCEPT ![j] = "refused"]
            /\ tool' = [tool EXCEPT ![j] = "returned"]
            /\ UNCHANGED overlooked
    /\ UNCHANGED <<shells, cancelled, killing, killAllVars, noteVars, late>>

StartRegisters(j) ==
    /\ proc[j] = "counted"
    /\ Track(j)
    /\ proc' = [proc EXCEPT ![j] = "listed"]
    /\ UNCHANGED <<tool, cancelled, killing, killAllVars, noteVars>>

\* The stdin pipe cannot be created: the entry is taken back.
\* Fault: the entry stays.
StartFails_Ghost(j) ==
    /\ proc[j] = "listed"
    /\ cancelled' = cancelled \cup {j}
    /\ proc' = [proc EXCEPT ![j] = "refused"]
    /\ tool' = [tool EXCEPT ![j] = "returned"]
    /\ UNCHANGED <<shells, killing, killAllVars, noteVars, history>>
StartFails(j) ==
    /\ proc[j] = "listed"
    /\ shells' = shells \ {j}
    /\ cancelled' = cancelled \cup {j}
    /\ proc' = [proc EXCEPT ![j] = "refused"]
    /\ tool' = [tool EXCEPT ![j] = "returned"]
    /\ UNCHANGED <<killing, killAllVars, noteVars, history>>

StartRuns(j) ==
    /\ proc[j] = "listed"
    /\ proc' = [proc EXCEPT ![j] = "running"]
    /\ tool' = [tool EXCEPT ![j] = "waiting"]
    /\ UNCHANGED <<shells, cancelled, killing, killAllVars, noteVars, history>>

-----------------------------------------------------------------------------
(* The job's goroutine *)

\* The command ends; notifyTerminal appends its snapshot to a bounded list.
\* The list keeps the order of the ends, so its head is the least position.
\* Fault: the newest entry is dropped.
JobEnds_DropsNewest(j) ==
    /\ proc[j] = "running"
    /\ proc' = [proc EXCEPT ![j] = "notified"]
    /\ pending' = IF Cardinality(pending) >= MaxPending THEN pending
                  ELSE pending \cup {Len(ended) + 1}
    /\ ended' = Append(ended, j)
    /\ UNCHANGED <<tool, shells, cancelled, killing, killAllVars, noted, history>>
JobEnds(j) ==
    /\ proc[j] = "running"
    /\ proc' = [proc EXCEPT ![j] = "notified"]
    /\ pending' = (IF Cardinality(pending) >= MaxPending THEN pending \ {Min(pending)}
                   ELSE pending) \cup {Len(ended) + 1}
    /\ ended' = Append(ended, j)
    /\ UNCHANGED <<tool, shells, cancelled, killing, killAllVars, noted, history>>

\* After the completion hooks, the deferred close(done).
JobCloses(j) ==
    /\ proc[j] = "notified"
    /\ proc' = [proc EXCEPT ![j] = "done"]
    /\ UNCHANGED <<tool, shells, cancelled, killing, killAllVars, noteVars, history>>

-----------------------------------------------------------------------------
(* The bash tool waits for its job *)

\* The job is done in time: its entry is removed and its output returned.
ToolReturns(j) ==
    /\ tool[j] = "waiting"
    /\ proc[j] = "done"
    /\ shells' = shells \ {j}
    /\ tool' = [tool EXCEPT ![j] = "returned"]
    /\ UNCHANGED <<proc, cancelled, killing, killAllVars, noteVars, history>>

\* The time to wait is over or the user promotes the command: the model gets
\* the ID of a background job.
ToolHandsOver(j) ==
    /\ tool[j] = "waiting"
    /\ tool' = [tool EXCEPT ![j] = "handed"]
    /\ UNCHANGED <<proc, shells, cancelled, killing, killAllVars, noteVars, history>>

\* Kill takes the entry, if it is there, and cancels the job.
TakeAndCancel(j) ==
    IF j \in shells
    THEN /\ shells' = shells \ {j}
         /\ cancelled' = cancelled \cup {j}
         /\ killing' = killing \cup {j}
    ELSE UNCHANGED <<shells, cancelled, killing>>

\* The turn is cancelled while the tool waits.
ToolCancelled(j) ==
    /\ tool[j] = "waiting"
    /\ tool' = [tool EXCEPT ![j] = "returned"]
    /\ TakeAndCancel(j)
    /\ UNCHANGED <<proc, killAllVars, noteVars, history>>

\* job_kill, with an ID the model was given.
JobKill(j) ==
    /\ tool[j] = "handed"
    /\ j \in shells
    /\ TakeAndCancel(j)
    /\ UNCHANGED <<proc, tool, killAllVars, noteVars, history>>

KillReturns(j) ==
    /\ j \in killing
    /\ proc[j] = "done"
    /\ killing' = killing \ {j}
    /\ UNCHANGED <<proc, tool, shells, cancelled, killAllVars, noteVars, history>>

\* The grace periods are over: the entry is put back.
\* Fault: it is not.
KillTimesOut_Forgets(j) ==
    /\ j \in killing
    /\ proc[j] # "done"
    /\ killing' = killing \ {j}
    /\ UNCHANGED <<proc, tool, shells, cancelled, killAllVars, noteVars, history>>
KillTimesOut(j) ==
    /\ j \in killing
    /\ proc[j] # "done"
    /\ killing' = killing \ {j}
    /\ Track(j)
    /\ UNCHANGED <<proc, tool, cancelled, killAllVars, noteVars>>

\* Cleanup, before a command is started, forgets jobs that ended hours ago;
\* no tool call still waits for them.
Cleanup(j) ==
    /\ \E k \in Jobs : proc[k] = "new"
    /\ j \in shells
    /\ proc[j] \in {"notified", "done"} /\ tool[j] # "waiting"
    /\ shells' = shells \ {j}
    /\ UNCHANGED <<proc, tool, cancelled, killing, killAllVars, noteVars, history>>

-----------------------------------------------------------------------------
(* KillAll, at shutdown.  Shutdown cancels the agents first but waits for    *)
(* them a bounded time only, so that tool calls may still start and kill     *)
(* jobs.                                                                     *)

KillAllCollects ==
    /\ killAll = "no"
    /\ collected' = shells
    /\ killAll' = "reset"
    /\ UNCHANGED <<proc, tool, shells, cancelled, killing, noteVars, history>>

KillAllResets ==
    /\ killAll = "reset"
    /\ shells' = {}
    /\ killAll' = "cancel"
    /\ UNCHANGED <<proc, tool, cancelled, killing, collected, noteVars, history>>

KillAllCancels ==
    /\ killAll = "cancel"
    /\ cancelled' = cancelled \cup collected
    /\ killAll' = "wait"
    /\ UNCHANGED <<proc, tool, shells, killing, collected, noteVars, history>>

\* Every collected job is done, or the shutdown context has expired.
KillAllReturns ==
    /\ killAll = "wait"
    /\ killAll' = "over"
    /\ UNCHANGED <<proc, tool, shells, cancelled, killing, collected, noteVars, history>>

-----------------------------------------------------------------------------
(* The coordinator folds a session's notifications into its next prompt *)

Drained(s) == {i \in pending : session[ended[i]] = s}

\* Fault: the drained entries stay.
DrainCompletedNotifications_Peeks(s) ==
    /\ Drained(s) # {}
    /\ noted' = [j \in Jobs |->
          IF \E i \in Drained(s) : ended[i] = j THEN noted[j] + 1 ELSE noted[j]]
    /\ UNCHANGED <<proc, tool, shells, cancelled, killing, killAllVars, pending, ended, history>>
DrainCompletedNotifications(s) ==
    /\ Drained(s) # {}
    /\ noted' = [j \in Jobs |->
          IF \E i \in Drained(s) : ended[i] = j THEN noted[j] + 1 ELSE noted[j]]
    /\ pending' = pending \ Drained(s)
    /\ UNCHANGED <<proc, tool, shells, cancelled, killing, killAllVars, ended, history>>

-----------------------------------------------------------------------------
Init ==
    /\ proc = [j \in Jobs |-> "new"]
    /\ tool = [j \in Jobs |-> "new"]
    /\ shells = {} /\ cancelled = {} /\ killing = {} /\ collected = {}
    /\ killAll = "no"
    /\ pending = {} /\ ended = <<>>
    /\ noted = [j \in Jobs |-> 0]
    /\ late = {} /\ overlooked = {}

Next ==
    \/ \E j \in Jobs :
          \/ StartCounts(j) \/ StartRegisters(j) \/ StartFails(j) \/ StartRuns(j)
          \/ JobEnds(j) \/ JobCloses(j)
          \/ ToolReturns(j) \/ ToolHandsOver(j) \/ ToolCancelled(j)
          \/ JobKill(j) \/ KillReturns(j) \/ KillTimesOut(j) \/ Cleanup(j)
    \/ KillAllCollects \/ KillAllResets \/ KillAllCancels \/ KillAllReturns
    \/ \E s \in Sessions : DrainCompletedNotifications(s)

Spec == Init /\ [][Next]_vars

-----------------------------------------------------------------------------
(* Properties *)

\* Types of the manager's state.
TypeOK ==
    /\ proc \in [Jobs -> {"new", "counted", "listed", "running", "notified",
                          "done", "refused"}]
    /\ tool \in [Jobs -> {"new", "waiting", "handed", "returned"}]
    /\ shells \subseteq Jobs /\ cancelled \subseteq Jobs
    /\ killing \subseteq Jobs /\ collected \subseteq Jobs
    /\ pending \subseteq 1..Len(ended) /\ Cardinality(pending) <= MaxPending
    /\ killAll \in {"no", "reset", "cancel", "wait", "over"}
    /\ ended \in Seq(Jobs) /\ noted \in [Jobs -> Nat]
    /\ late \subseteq Jobs /\ overlooked \subseteq Jobs

\* No more than MaxBackgroundJobs commands run ("the maximum number of concurrent
\* background jobs allowed"), apart from those a Start could not see when it let
\* its own job in; a job that was asked to stop counts while it runs.
JobLimit == Cardinality(Live \ overlooked) <= MaxJobs

\* A command that runs can be found: in the table, in the hands of a Kill that
\* will put it back, or by KillAll, unless it came into the table between the two
\* steps in which KillAll reads and resets it.  Kills that time out, failed
\* starts, cleanups and the shutdown make no other "invisible orphan".
Tracked ==
    \A j \in Live : j \in shells \cup killing \cup collected \cup late

\* The table holds no ghost: what it lists was started, and will be done.
NoGhost == \A j \in shells \cup killing : proc[j] \notin {"new", "refused"}

\* A finished job is waiting to be reported or was reported, unless MaxPending
\* jobs have ended after it.
NoteKept ==
    \A i \in 1..Len(ended) :
        \/ i \in pending
        \/ noted[ended[i]] > 0
        \/ Len(ended) - i >= MaxPending

\* The end of a job is reported to the model in at most one prompt, whatever
\* sessions drain in between.
NotedOnce == \A j \in Jobs : noted[j] <= 1

\* The notifications are for background jobs: no command whose tool call
\* returned its result is reported again in a later prompt.
NotedOnlyBackground ==
    \A j \in Jobs : noted[j] > 0 => tool[j] # "returned"
=============================================================================
