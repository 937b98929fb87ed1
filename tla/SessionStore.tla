---------------------------- MODULE SessionStore ----------------------------
(***************************************************************************)
(* The metadata of one session in internal/store: an entry of the index in *)
(* memory, a file of its own and an entry of the index file.  Every change *)
(* ends with the three alike, but writes them one after the other, and     *)
(* Save writes the session's file before it takes the lock, with a copy    *)
(* its caller got earlier.  A crash loses the memory; a restart loads the  *)
(* index file, or scans the sessions' files when there is none.            *)
(*                                                                         *)
(* WriteJSON opens and empties .meta.json.tmp, writes it and renames it.   *)
(* All writers of a session share that name: a writer may empty or rename  *)
(* another's file, write into a file that has been renamed meanwhile, or   *)
(* find nothing to rename.  The index file is written under the lock only. *)
(*                                                                         *)
(* Of a session's fields two stand for all: the title, which calls         *)
(* replace, and the cost, to which calls add; a cost is the set of the     *)
(* calls that are in it.                                                   *)
(***************************************************************************)
EXTENDS Naturals

CONSTANTS
    Calls,
    kind,       \* [Calls -> Kinds]
    None,       \* no entry, no file
    Empty,      \* a file that is open and not written
    Missing,    \* there is no index file yet
    MaxCrashes  \* bound

Kinds == {"create", "save", "increment", "rename", "title", "delete", "lookup"}

ASSUME KindsOK == kind \in [Calls -> Kinds]
ASSUME OneCreate == \A c, d \in Calls : kind[c] = "create" /\ kind[d] = "create" => c = d
ASSUME CrashBound == MaxCrashes \in Nat

VARIABLES
    mem,        \* ss.index.Sessions[id]
    dir,        \* does the session's directory exist?
    meta,       \* .meta.json
    tmp,        \* .meta.json.tmp
    idx,        \* the session's entry of sessions_index.json
    mu,         \* who holds ss.mu for writing
    pc,
    copy,       \* the session a Save was given, with its caller's change
    file,       \* where the file is now that a writer has open
    acked,
    exposed,    \* costs that a stale copy or a title's usage has replaced
    broken,     \* the calls that a failed file operation has ended
    revived,    \* a Save has made the directory of a deleted session
    crashes

disk == <<dir, meta, tmp, idx>>
history == <<acked, exposed, broken, revived>>
vars == <<mem, disk, mu, pc, copy, file, history, crashes>>

-----------------------------------------------------------------------------
Content == [title : Calls, cost : SUBSET Calls]

\* The absence of a session is no session, and no call.
ASSUME NoContent ==
    /\ None \notin Calls \cup Content \cup {Empty} /\ Empty \notin Content
    /\ Missing \notin Content \cup {None}

Idle == pc \in [Calls -> {"idle", "done", "failed", "dead"}]
Exists == \E c \in Calls : kind[c] = "create" /\ pc[c] \in {"done", "dead"}
Unlocked == mu = None

Goes(c, label) == pc' = [pc EXCEPT ![c] = label]
\* An entry with the cost of c added.
Charged(e, c) == [e EXCEPT !.cost = @ \cup {c}]
\* What a reader finds in a file: an empty one does not parse.
Read(f) == IF f = Empty THEN None ELSE f

\* A Create and a Save write the session's file without the lock.
LockFree(c) == kind[c] \in {"create", "save"}
\* Such a call that is between its file and its index entry.
Halfway(c) == LockFree(c) /\ pc[c] = "file"
Writing(c) == pc[c] \in {"opened", "written"}

-----------------------------------------------------------------------------
(* WriteJSON of the session's file *)

\* What the call writes: a new session, its copy, or the entry in memory.
Body(c) ==
    CASE kind[c] = "create" -> [title |-> c, cost |-> {}]
      [] kind[c] = "save"   -> copy[c]
      [] OTHER              -> mem

\* The costs that a new content e of .meta.json hides: those of the call that
\* put it there and of Saves that are about to read the file back, and, when e
\* is not what the memory holds, those of all calls that are through with it.
\* An empty file is not read back; then only a Save's cost is nowhere else.
Hidden(c, e) ==
    LET fresh == {d \in Calls : d = c \/ Halfway(d)}
    IN  IF e = Empty THEN {d \in fresh : LockFree(d)}
        ELSE {d \in Calls :
                /\ d \notin e.cost
                /\ d \in fresh \/ (e # mem /\ pc[d] \in {"index", "done"})}

\* .meta.json has a new content.
Lands(c, e) ==
    /\ meta' = e
    /\ exposed' = exposed \cup Hidden(c, e)

\* A file operation of c has failed: the call returns the error.
Breaks(c) ==
    /\ broken' = broken \cup {c}
    /\ mu' = IF mu = c THEN None ELSE mu
    /\ Goes(c, "failed")

\* The temporary file is created, or emptied if there is one.  For a call under
\* the lock, and for Create, the directory is there: they make it first, and no
\* Delete can come between.
OpenTmp(c) ==
    /\ \/ kind[c] = "create" /\ pc[c] = "idle"
       \/ pc[c] = "memory"
    /\ dir' = TRUE
    /\ tmp' = Empty
    /\ file' = [file EXCEPT ![c] = "tmp"]
    /\ Goes(c, "opened")
    /\ UNCHANGED <<mem, meta, idx, mu, copy, history, crashes>>

\* The content goes to the file that was opened, wherever that is by now.
WriteTmp(c) ==
    /\ pc[c] = "opened"
    /\ CASE file[c] = "tmp"  -> tmp' = Body(c) /\ UNCHANGED <<meta, exposed>>
         [] file[c] = "meta" -> Lands(c, Body(c)) /\ UNCHANGED tmp
         [] file[c] = "gone" -> UNCHANGED <<meta, tmp, exposed>>
    /\ copy' = [copy EXCEPT ![c] = None]
    /\ Goes(c, "written")
    /\ UNCHANGED <<mem, dir, idx, mu, file, acked, broken, revived, crashes>>

\* Whatever has that name by now becomes .meta.json.
RenameTmp(c) ==
    /\ pc[c] = "written" /\ tmp # None
    /\ Lands(c, tmp)
    /\ tmp' = None
    /\ file' = [d \in Calls |-> CASE file[d] = "tmp" /\ d # c -> "meta"
                                  [] OTHER -> "gone"]
    /\ Goes(c, IF LockFree(c) THEN "file" ELSE "index")
    /\ UNCHANGED <<mem, dir, idx, mu, copy, acked, broken, revived, crashes>>

\* The name is gone: another writer has renamed it, or a Delete removed it.
RenameFails(c) ==
    /\ pc[c] = "written" /\ tmp = None
    /\ Goes(c, "cleanup")
    /\ UNCHANGED <<mem, disk, mu, copy, file, history, crashes>>

\* os.Remove of the temporary file, whoever has created it since.
RemoveTmp(c) ==
    /\ pc[c] = "cleanup"
    /\ tmp' = None
    /\ file' = [d \in Calls |-> IF file[d] = "tmp" \/ d = c THEN "gone" ELSE file[d]]
    /\ Breaks(c)
    /\ UNCHANGED <<mem, dir, meta, idx, copy, acked, exposed, revived, crashes>>

-----------------------------------------------------------------------------
(* Save *)

\* The caller gets a session and changes it.  Get answers from memory; when
\* the session is not there it rebuilds the memory from the files.
SaveCopies(c) ==
    /\ kind[c] = "save" /\ pc[c] = "idle" /\ Exists /\ Unlocked
    /\ LET found == IF mem # None THEN mem ELSE Read(meta)
       IN  /\ mem' = found
           /\ IF found = None
              THEN Goes(c, "failed") /\ UNCHANGED copy
              ELSE Goes(c, "copied") /\ copy' = [copy EXCEPT ![c] = Charged(found, c)]
    /\ UNCHANGED <<disk, mu, file, history, crashes>>

\* Without the lock: the directory is made if it is gone.
SaveMakesDir(c) ==
    /\ kind[c] = "save" /\ pc[c] = "copied"
    /\ dir' = TRUE
    /\ revived' = (revived \/ ~dir)
    /\ Goes(c, "dir")
    /\ UNCHANGED <<mem, meta, tmp, idx, mu, copy, file, acked, exposed, broken, crashes>>

\* A Delete may have removed it again.
SaveOpens(c) ==
    /\ pc[c] = "dir"
    /\ IF dir
       THEN /\ tmp' = Empty
            /\ file' = [file EXCEPT ![c] = "tmp"]
            /\ Goes(c, "opened")
            /\ UNCHANGED <<mu, copy, broken>>
       ELSE /\ Breaks(c)
            /\ copy' = [copy EXCEPT ![c] = None]
            /\ UNCHANGED <<tmp, file>>
    /\ UNCHANGED <<mem, dir, meta, idx, acked, exposed, revived, crashes>>

\* Fault: the file is not read again.
Refresh_Skipped(c) == mem' = IF mem = None THEN Read(meta) ELSE mem

\* The file is read again; without a file the entry stays as it is.
Refresh(c) == mem' = IF Read(meta) # None THEN meta ELSE mem

\* Under the lock, for Create and Save.
TakesOver(c) ==
    /\ Halfway(c) /\ Unlocked
    /\ mu' = c
    /\ Refresh(c)
    /\ Goes(c, "index")
    /\ UNCHANGED <<disk, copy, file, history, crashes>>

-----------------------------------------------------------------------------
(* IncrementCost, Rename, UpdateTitleAndUsage *)

Changed(c, e) ==
    CASE kind[c] = "increment" -> Charged(e, c)
      [] kind[c] = "rename"    -> [e EXCEPT !.title = c]
      [] kind[c] = "title"     -> [title |-> c, cost |-> {c}]

\* Under the lock: the entry in memory is changed, and then written over the
\* session's file, whatever that holds by now.
ChangeMemory(c) ==
    /\ kind[c] \in {"increment", "rename", "title"} /\ pc[c] = "idle"
    /\ Exists /\ Unlocked
    /\ IF mem = None
       THEN Goes(c, "failed") /\ UNCHANGED <<mem, mu, exposed>>
       ELSE /\ mu' = c
            /\ mem' = Changed(c, mem)
            /\ exposed' = IF kind[c] = "title" THEN exposed \cup (mem.cost \ {c}) ELSE exposed
            /\ Goes(c, "memory")
    /\ UNCHANGED <<disk, copy, file, acked, broken, revived, crashes>>

-----------------------------------------------------------------------------
(* Delete, and the end of every change *)

\* Under the lock: os.RemoveAll removes the files of the directory ...
DeleteFiles(c) ==
    /\ kind[c] = "delete" /\ pc[c] = "idle" /\ Exists /\ Unlocked
    /\ IF mem = None
       THEN Goes(c, "failed") /\ UNCHANGED <<mu, meta, tmp, file>>
       ELSE /\ mu' = c
            /\ meta' = None /\ tmp' = None
            /\ file' = [d \in Calls |-> "gone"]
            /\ Goes(c, "emptied")
    /\ UNCHANGED <<mem, dir, idx, copy, history, crashes>>

\* ... and the directory, unless a Save has put a file there meanwhile: then
\* Delete returns the error, and the files it has removed stay removed.
DeleteDir(c) ==
    /\ pc[c] = "emptied"
    /\ IF meta = None /\ tmp = None
       THEN dir' = FALSE /\ Goes(c, "removed") /\ UNCHANGED <<mu, exposed, broken>>
       ELSE /\ Breaks(c)
            /\ exposed' = exposed \cup {d \in Calls : Halfway(d)}
            /\ UNCHANGED dir
    /\ UNCHANGED <<mem, meta, tmp, idx, copy, file, acked, revived, crashes>>

\* Fault: the entry stays in memory.
DeleteEntry_Stays(c) ==
    /\ pc[c] = "removed"
    /\ Goes(c, "index")
    /\ UNCHANGED <<mem, disk, mu, copy, file, history, crashes>>

DeleteEntry(c) ==
    /\ pc[c] = "removed"
    /\ mem' = None
    /\ Goes(c, "index")
    /\ UNCHANGED <<disk, mu, copy, file, history, crashes>>

\* Fault: a Rename does not save the index.
SaveIndex_Skipped(c) ==
    /\ pc[c] = "index"
    /\ idx' = IF kind[c] = "rename" THEN idx ELSE mem
    /\ mu' = None
    /\ acked' = acked \cup {c}
    /\ Goes(c, "done")
    /\ UNCHANGED <<mem, dir, meta, tmp, copy, file, exposed, broken, revived, crashes>>

\* saveIndex, the release of the lock and the return.
SaveIndex(c) ==
    /\ pc[c] = "index"
    /\ idx' = mem
    /\ mu' = None
    /\ acked' = acked \cup {c}
    /\ Goes(c, "done")
    /\ UNCHANGED <<mem, dir, meta, tmp, copy, file, exposed, broken, revived, crashes>>

\* Get of an unknown session, which scans all sessions' files.
Lookup(c) ==
    /\ kind[c] = "lookup" /\ pc[c] = "idle" /\ Unlocked
    /\ mem' = Read(meta)
    /\ Goes(c, "failed")
    /\ UNCHANGED <<disk, mu, copy, file, history, crashes>>

-----------------------------------------------------------------------------
(* Crash and restart *)

\* Every call in progress dies; newSessionStore loads the index.
Restart ==
    /\ crashes < MaxCrashes
    /\ crashes' = crashes + 1
    /\ mem' = IF idx = Missing THEN Read(meta) ELSE idx
    /\ mu' = None
    /\ pc' = [c \in Calls |-> IF pc[c] \in {"idle", "done", "failed"} THEN pc[c] ELSE "dead"]
    /\ copy' = [c \in Calls |-> None]
    /\ file' = [c \in Calls |-> "gone"]
    /\ UNCHANGED <<disk, history>>

Init ==
    /\ mem = None /\ dir = FALSE /\ meta = None /\ tmp = None /\ idx = Missing
    /\ mu = None /\ pc = [c \in Calls |-> "idle"]
    /\ copy = [c \in Calls |-> None] /\ file = [c \in Calls |-> "gone"]
    /\ acked = {} /\ exposed = {} /\ broken = {} /\ revived = FALSE /\ crashes = 0

Step(c) ==
    \/ SaveCopies(c) \/ SaveMakesDir(c) \/ SaveOpens(c)
    \/ OpenTmp(c) \/ WriteTmp(c) \/ RenameTmp(c) \/ RenameFails(c) \/ RemoveTmp(c)
    \/ TakesOver(c) \/ ChangeMemory(c)
    \/ DeleteFiles(c) \/ DeleteDir(c) \/ DeleteEntry(c)
    \/ SaveIndex(c) \/ Lookup(c)

Next == (\E c \in Calls : Step(c)) \/ Restart

Spec == Init /\ [][Next]_vars

-----------------------------------------------------------------------------
(* Properties *)

\* Types of the three places and of the calls.
TypeOK ==
    /\ mem \in Content \cup {None} /\ dir \in BOOLEAN
    /\ meta \in Content \cup {None, Empty} /\ tmp \in Content \cup {None, Empty}
    /\ idx \in Content \cup {None, Missing}
    /\ mu \in Calls \cup {None}
    /\ pc \in [Calls -> {"idle", "copied", "dir", "memory", "opened", "written", "cleanup",
                         "file", "emptied", "removed", "index", "done", "failed", "dead"}]
    /\ copy \in [Calls -> Content \cup {None}]
    /\ file \in [Calls -> {"tmp", "meta", "gone"}]
    /\ acked \subseteq Calls /\ exposed \subseteq Calls /\ broken \subseteq Calls
    /\ revived \in BOOLEAN /\ crashes \in 0..MaxCrashes

\* However the calls interleave, memory, file and index agree when none is in
\* progress: writers that take the temporary file from each other leave them
\* different only when one of them has returned an error, or the program crashed.
AgreeAtRest ==
    crashes = 0 /\ broken = {} /\ Idle /\ acked # {} => mem = meta /\ idx = mem

\* A cost that a returned call has added is in the session, in memory and
\* after a restart, unless another call has replaced it by an older copy.
ChargesKept ==
    \A c \in acked \ exposed :
        kind[c] \in {"increment", "save"} /\ Unlocked
            => \A e \in {mem, idx} : e \notin {None, Missing} => c \in e.cost

\* A deleted session stays deleted, in memory and after a restart, unless a
\* Save with a copy from before has made its directory again.
Deleted == \E c \in acked : kind[c] = "delete"
DeleteStays == Deleted /\ ~revived /\ Unlocked => mem = None /\ idx = None

\* "This prevents lost updates when multiple concurrent operations try to
\* update cost."
IncrementsKept ==
    \A c \in acked : kind[c] = "increment" /\ mem # None /\ Unlocked => c \in mem.cost
=============================================================================
