------------------------- MODULE SessionStoreProofs -------------------------
(***************************************************************************)
(* Proofs about SessionStore, for every set of calls on a session and any  *)
(* number of crashes: a deleted session stays deleted, what a returned     *)
(* call has charged is kept, and memory, file and index agree at rest, as  *)
(* long as no file operation has failed.                                   *)
(***************************************************************************)
EXTENDS SessionStore, TLAPS

-----------------------------------------------------------------------------
(* Types, and where a call of each kind can be *)

Labels == {"idle", "copied", "dir", "memory", "opened", "written", "cleanup",
           "file", "emptied", "removed", "index", "done", "failed", "dead"}

\* The types of the places and of the calls apart.
PlaceTypes ==
    /\ mem \in Content \cup {None} /\ dir \in BOOLEAN
    /\ meta \in Content \cup {None, Empty} /\ tmp \in Content \cup {None, Empty}
    /\ idx \in Content \cup {None, Missing}
    /\ copy \in [Calls -> Content \cup {None}]
    /\ file \in [Calls -> {"tmp", "meta", "gone"}]
CallTypes ==
    /\ mu \in Calls \cup {None} /\ pc \in [Calls -> Labels]
    /\ acked \subseteq Calls /\ exposed \subseteq Calls /\ broken \subseteq Calls
    /\ revived \in BOOLEAN /\ crashes \in 0..MaxCrashes

\* A call that changes the session under the lock.
Changer(c) == kind[c] \in {"increment", "rename", "title"}

\* The call is between its lock and its unlock.
Holds(c) == \/ pc[c] \in {"memory", "emptied", "removed", "index"}
            \/ ~LockFree(c) /\ pc[c] \in {"opened", "written", "cleanup"}
LockInv == \A c \in Calls : Holds(c) <=> mu = c

\* The labels of each kind; a Save that has not written yet has a session; and
\* what a call changes under the lock is in memory until it has written it.
Label(c) ==
    /\ pc[c] \in {"copied", "dir"} => kind[c] = "save"
    /\ kind[c] = "save" /\ pc[c] \in {"copied", "dir", "opened"} => copy[c] \in Content
    /\ pc[c] = "memory" => Changer(c)
    /\ pc[c] \in {"opened", "written", "cleanup"} => LockFree(c) \/ Changer(c)
    /\ pc[c] = "file" => LockFree(c)
    /\ pc[c] \in {"emptied", "removed"} => kind[c] = "delete"
    /\ c \in acked => pc[c] = "done"
LabelInv == \A c \in Calls : Label(c)
EntryInv ==
    \A c \in Calls : Changer(c) /\ pc[c] \in {"memory", "opened", "written"} => mem # None

\* A call on the session comes after its Create.
CreateInv == \A c \in Calls : kind[c] \notin {"create", "lookup"} /\ pc[c] # "idle" => Exists

\* An open file is one of the two that are there, and they are in the directory.
FileInv ==
    /\ \A c \in Calls : file[c] = "tmp" => tmp # None
    /\ \A c \in Calls : file[c] = "meta" => meta # None
    /\ ~dir => meta = None /\ tmp = None

Base == PlaceTypes /\ CallTypes /\ LockInv /\ LabelInv /\ EntryInv /\ CreateInv /\ FileInv

LEMMA ChangedType ==
    ASSUME NEW c \in Calls, NEW e \in Content
    PROVE  /\ Charged(e, c) \in Content
           /\ Changer(c) => Changed(c, e) \in Content
<1>1. Charged(e, c) \in Content
  BY DEF Charged, Content
<1>2. [e EXCEPT !.title = c] \in Content /\ [title |-> c, cost |-> {c}] \in Content
  BY DEF Content
<1> QED
  BY <1>1, <1>2 DEF Changed, Changer

\* What a writer has to write is a session.
LEMMA BodyType ==
    ASSUME PlaceTypes, LabelInv, EntryInv, NEW c \in Calls, pc[c] = "opened"
    PROVE  Body(c) \in Content
<1>1. CASE kind[c] = "create"
  <2>1. [title |-> c, cost |-> {}] \in Content
    BY DEF Content
  <2> QED BY <1>1, <2>1 DEF Body
<1>2. CASE kind[c] = "save"
  BY <1>2 DEF Body, LabelInv, Label
<1>3. CASE Changer(c)
  BY <1>3 DEF Body, EntryInv, PlaceTypes, Changer
<1> QED
  BY <1>1, <1>2, <1>3 DEF LabelInv, Label, LockFree

LEMMA ReadType == ASSUME PlaceTypes PROVE Read(meta) \in Content \cup {None}
BY DEF PlaceTypes, Read

\* The steps of one call.
LEMMA Steps ==
    ASSUME NEW c \in Calls, Step(c)
    PROVE  \/ SaveCopies(c) \/ SaveMakesDir(c) \/ SaveOpens(c)
           \/ OpenTmp(c) \/ WriteTmp(c) \/ RenameTmp(c) \/ RenameFails(c) \/ RemoveTmp(c)
           \/ TakesOver(c) \/ ChangeMemory(c)
           \/ DeleteFiles(c) \/ DeleteDir(c) \/ DeleteEntry(c) \/ SaveIndex(c) \/ Lookup(c)
BY DEF Step

\* A call moves along its own labels, and returns with success only when it
\* releases the lock.
LEMMA StepMoves ==
    ASSUME NEW c \in Calls, Step(c)
    PROVE  /\ pc[c] \notin {"done", "failed", "dead"}
           /\ \E l \in Labels \ {"dead"} : pc' = [pc EXCEPT ![c] = l]
           /\ acked' \subseteq acked \cup {c}
           /\ crashes' = crashes
<1>1. /\ pc[c] \notin {"done", "failed", "dead"} /\ acked' \subseteq acked \cup {c}
      /\ crashes' = crashes
  BY Steps DEF history, SaveCopies, SaveMakesDir, SaveOpens, OpenTmp, WriteTmp, RenameTmp,
     RenameFails, RemoveTmp, TakesOver, Halfway, ChangeMemory, DeleteFiles, DeleteDir,
     DeleteEntry, SaveIndex, Lookup
<1>2. \E l \in Labels \ {"dead"} : pc' = [pc EXCEPT ![c] = l]
  <2>1. CASE SaveCopies(c) \/ SaveMakesDir(c) \/ SaveOpens(c) \/ OpenTmp(c) \/ WriteTmp(c)
    BY <2>1, Zenon DEF SaveCopies, SaveMakesDir, SaveOpens, OpenTmp, WriteTmp, Goes, Breaks, Labels
  <2>2. CASE RenameTmp(c)
    <3>1. CASE LockFree(c)
      BY <2>2, <3>1, Zenon DEF RenameTmp, Goes, Labels
    <3>2. CASE ~LockFree(c)
      BY <2>2, <3>2, Zenon DEF RenameTmp, Goes, Labels
    <3> QED BY <3>1, <3>2
  <2>3. CASE RenameFails(c) \/ RemoveTmp(c) \/ TakesOver(c) \/ ChangeMemory(c)
    BY <2>3, Zenon DEF RenameFails, RemoveTmp, TakesOver, ChangeMemory, Goes, Breaks, Labels
  <2>4. CASE DeleteFiles(c) \/ DeleteDir(c) \/ DeleteEntry(c) \/ SaveIndex(c) \/ Lookup(c)
    BY <2>4, Zenon DEF DeleteFiles, DeleteDir, DeleteEntry, SaveIndex, Lookup, Goes, Breaks, Labels
  <2> QED BY <2>1, <2>2, <2>3, <2>4, Steps
<1> QED
  BY <1>1, <1>2

LEMMA PlaceTypesKept == Base /\ [Next]_vars => PlaceTypes'
<1> SUFFICES ASSUME Base, [Next]_vars PROVE PlaceTypes'
  OBVIOUS
<1> USE DEF Base, PlaceTypes
<1>1. ASSUME NEW c \in Calls, SaveCopies(c) PROVE PlaceTypes'
  BY <1>1, ChangedType, ReadType DEF SaveCopies, disk
<1>2. ASSUME NEW c \in Calls, SaveMakesDir(c) \/ SaveOpens(c) \/ OpenTmp(c) PROVE PlaceTypes'
  BY <1>2 DEF SaveMakesDir, SaveOpens, OpenTmp
<1>3. ASSUME NEW c \in Calls, WriteTmp(c) PROVE PlaceTypes'
  <2>1. Body(c) \in Content
    BY <1>3, BodyType DEF WriteTmp
  <2>2. meta' \in Content \cup {None, Empty} /\ tmp' \in Content \cup {None, Empty}
    BY <1>3, <2>1 DEF WriteTmp, Lands
  <2> QED BY <1>3, <2>2 DEF WriteTmp
<1>4. ASSUME NEW c \in Calls, RenameTmp(c) PROVE PlaceTypes'
  BY <1>4 DEF RenameTmp, Lands
<1>5. ASSUME NEW c \in Calls, RenameFails(c) \/ RemoveTmp(c) PROVE PlaceTypes'
  BY <1>5 DEF RenameFails, RemoveTmp, disk
<1>6. ASSUME NEW c \in Calls, TakesOver(c) \/ ChangeMemory(c) PROVE PlaceTypes'
  <2>1. ChangeMemory(c) /\ mem # None => Changed(c, mem) \in Content
    BY ChangedType DEF ChangeMemory, Changer
  <2> QED BY <1>6, <2>1, ReadType DEF TakesOver, Refresh, ChangeMemory, disk, Read
<1>7. ASSUME NEW c \in Calls, DeleteFiles(c) \/ DeleteDir(c) \/ DeleteEntry(c) PROVE PlaceTypes'
  BY <1>7 DEF DeleteFiles, DeleteDir, DeleteEntry, disk
<1>8. ASSUME NEW c \in Calls, SaveIndex(c) \/ Lookup(c) PROVE PlaceTypes'
  BY <1>8, ReadType DEF SaveIndex, Lookup, disk
<1>9. CASE Restart
  BY <1>9, ReadType DEF Restart, disk
<1>10. CASE UNCHANGED vars
  BY <1>10 DEF vars, disk
<1> QED
  BY <1>1, <1>2, <1>3, <1>4, <1>5, <1>6, <1>7, <1>8, <1>9, <1>10, Steps DEF Next

LEMMA CallTypesKept == Base /\ [Next]_vars => CallTypes'
<1> SUFFICES ASSUME Base, [Next]_vars PROVE CallTypes'
  OBVIOUS
<1> USE DEF Base, CallTypes
<1>1. ASSUME NEW c \in Calls, Step(c) PROVE CallTypes'
  <2>1. pc' \in [Calls -> Labels] /\ acked' \subseteq Calls /\ crashes' \in 0..MaxCrashes
    BY <1>1, StepMoves
  <2>2. Hidden(c, tmp) \subseteq Calls /\ Hidden(c, Body(c)) \subseteq Calls
    BY DEF Hidden
  <2>3. mem # None => mem.cost \subseteq Calls
    BY DEF PlaceTypes, Content
  <2>4. exposed' \subseteq Calls
    BY <1>1, <2>2, <2>3, Steps DEF history, SaveCopies, SaveMakesDir, SaveOpens, OpenTmp,
       WriteTmp, RenameTmp, Lands, RenameFails, RemoveTmp, TakesOver, ChangeMemory, DeleteFiles,
       DeleteDir, DeleteEntry, SaveIndex, Lookup, PlaceTypes
  <2>5. mu' \in Calls \cup {None} /\ broken' \subseteq Calls /\ revived' \in BOOLEAN
    BY <1>1, Steps DEF history, SaveCopies, SaveMakesDir, SaveOpens, OpenTmp, Breaks,
       WriteTmp, RenameTmp, RenameFails, RemoveTmp, TakesOver, ChangeMemory, DeleteFiles,
       DeleteDir, DeleteEntry, SaveIndex, Lookup
  <2> QED BY <2>1, <2>4, <2>5
<1>2. CASE Restart
  BY <1>2, CrashBound DEF Restart, history, Labels
<1>3. CASE UNCHANGED vars
  BY <1>3 DEF vars, history
<1> QED
  BY <1>1, <1>2, <1>3 DEF Next

LEMMA LockKept == Base /\ [Next]_vars => LockInv'
<1> SUFFICES ASSUME Base, [Next]_vars PROVE LockInv'
  OBVIOUS
<1> USE NoContent DEF Base, CallTypes, LockInv, Holds, LockFree, Goes, Unlocked, LabelInv, Label,
        Changer
<1>1. ASSUME NEW c \in Calls, SaveCopies(c) \/ SaveMakesDir(c) PROVE LockInv'
  BY <1>1 DEF SaveCopies, SaveMakesDir
<1>2. ASSUME NEW c \in Calls, SaveOpens(c) PROVE LockInv'
  BY <1>2 DEF SaveOpens, Breaks
<1>3. ASSUME NEW c \in Calls, OpenTmp(c) PROVE LockInv'
  BY <1>3 DEF OpenTmp
<1>4. ASSUME NEW c \in Calls, WriteTmp(c) \/ RenameFails(c) PROVE LockInv'
  BY <1>4 DEF WriteTmp, RenameFails
<1>5. ASSUME NEW c \in Calls, RenameTmp(c) PROVE LockInv'
  <2>1. CASE LockFree(c)
    BY <1>5, <2>1 DEF RenameTmp
  <2>2. CASE ~LockFree(c)
    BY <1>5, <2>2 DEF RenameTmp
  <2> QED BY <2>1, <2>2
<1>6. ASSUME NEW c \in Calls, RemoveTmp(c) PROVE LockInv'
  BY <1>6 DEF RemoveTmp, Breaks
<1>7. ASSUME NEW c \in Calls, TakesOver(c) \/ ChangeMemory(c) PROVE LockInv'
  BY <1>7 DEF TakesOver, Halfway, ChangeMemory
<1>8. ASSUME NEW c \in Calls, DeleteFiles(c) \/ DeleteEntry(c) PROVE LockInv'
  BY <1>8 DEF DeleteFiles, DeleteEntry
<1>9. ASSUME NEW c \in Calls, DeleteDir(c) PROVE LockInv'
  BY <1>9 DEF DeleteDir, Breaks
<1>10. ASSUME NEW c \in Calls, SaveIndex(c) \/ Lookup(c) PROVE LockInv'
  BY <1>10 DEF SaveIndex, Lookup
<1>11. CASE Restart
  BY <1>11 DEF Restart
<1>12. CASE UNCHANGED vars
  BY <1>12 DEF vars
<1> QED
  BY <1>1, <1>2, <1>3, <1>4, <1>5, <1>6, <1>7, <1>8, <1>9, <1>10, <1>11, <1>12, Steps DEF Next

\* While a call holds the lock, the steps of others leave memory and index alone.
LEMMA OthersWait ==
    ASSUME Base, NEW c \in Calls, Step(c), NEW d \in Calls \ {c}, Holds(d)
    PROVE  mem' = mem /\ idx' = idx
<1>1. mu = d /\ ~Holds(c)
  BY DEF Base, LockInv
<1>2. mu # None
  BY <1>1, NoContent
<1> QED
  BY <1>1, <1>2, Steps DEF disk, SaveCopies, SaveMakesDir, SaveOpens, OpenTmp, WriteTmp, RenameTmp,
     RenameFails, RemoveTmp, TakesOver, ChangeMemory, DeleteFiles, DeleteDir, DeleteEntry,
     SaveIndex, Lookup, Unlocked, Holds

LEMMA LabelKept == Base /\ [Next]_vars => LabelInv'
<1> SUFFICES ASSUME Base, [Next]_vars PROVE LabelInv'
  OBVIOUS
<1>1. ASSUME NEW c \in Calls, Step(c) PROVE Label(c)'
  <2> USE DEF Base, CallTypes, Goes, LabelInv, Label, LockFree, Changer
  <2>1. CASE SaveCopies(c)
    BY <2>1, ChangedType, ReadType DEF SaveCopies, PlaceTypes, history
  <2>2. CASE SaveMakesDir(c) \/ OpenTmp(c)
    BY <2>2 DEF SaveMakesDir, OpenTmp, history
  <2>3. CASE SaveOpens(c)
    BY <2>3 DEF SaveOpens, Breaks
  <2>4. CASE WriteTmp(c) \/ RenameFails(c)
    BY <2>4 DEF WriteTmp, RenameFails, history
  <2>5. CASE RenameTmp(c) \/ RemoveTmp(c)
    BY <2>5 DEF RenameTmp, RemoveTmp, Breaks
  <2>6. CASE TakesOver(c) \/ ChangeMemory(c)
    BY <2>6 DEF TakesOver, Halfway, ChangeMemory, history
  <2>7. CASE DeleteFiles(c) \/ DeleteDir(c) \/ DeleteEntry(c)
    BY <2>7 DEF DeleteFiles, DeleteDir, Breaks, DeleteEntry, history
  <2>8. CASE SaveIndex(c) \/ Lookup(c)
    BY <2>8 DEF SaveIndex, Lookup, history
  <2> QED BY <1>1, <2>1, <2>2, <2>3, <2>4, <2>5, <2>6, <2>7, <2>8, Steps
<1>2. ASSUME NEW c \in Calls, Step(c), NEW d \in Calls \ {c} PROVE Label(d)'
  <2>1. copy'[d] = copy[d]
    BY <1>2, Steps DEF Base, PlaceTypes, SaveCopies, SaveMakesDir, SaveOpens, OpenTmp, WriteTmp,
       RenameTmp, RenameFails, RemoveTmp, TakesOver, ChangeMemory, DeleteFiles, DeleteDir,
       DeleteEntry, SaveIndex, Lookup
  <2>2. pc'[d] = pc[d] /\ (d \in acked' => d \in acked)
    BY <1>2, StepMoves DEF Base, CallTypes
  <2> QED BY <2>1, <2>2 DEF Base, LabelInv, Label, LockFree, Changer
<1>3. CASE Restart
  BY <1>3 DEF Restart, Base, LabelInv, Label, LockFree, Changer, history
<1>4. CASE UNCHANGED vars
  BY <1>4 DEF vars, Base, LabelInv, Label, LockFree, Changer, history
<1> QED
  BY <1>1, <1>2, <1>3, <1>4 DEF Next, LabelInv

LEMMA EntryKept == Base /\ [Next]_vars => EntryInv'
<1> SUFFICES ASSUME Base, [Next]_vars PROVE EntryInv'
  OBVIOUS
<1> USE DEF EntryInv, Changer
<1>1. ASSUME NEW c \in Calls, Step(c), Changer(c),
             pc'[c] \in {"memory", "opened", "written"}
      PROVE  mem' # None
  <2>1. pc[c] \in {"idle", "memory", "opened"} /\ (pc[c] = "idle" => ChangeMemory(c))
        /\ (pc[c] # "idle" => mem' = mem)
    BY <1>1, Steps DEF Base, CallTypes, LabelInv, Label, LockFree, disk, Goes, Breaks,
       SaveCopies, SaveMakesDir, SaveOpens, OpenTmp,
       WriteTmp, RenameTmp, RenameFails, RemoveTmp, TakesOver, Halfway, ChangeMemory, DeleteFiles,
       DeleteDir, DeleteEntry, SaveIndex, Lookup
  <2>2. CASE pc[c] = "idle"
    <3>1. mem = None => pc'[c] = "failed"
      BY <2>1, <2>2 DEF ChangeMemory, Goes, Base, CallTypes
    <3>2. mem \in Content => Changed(c, mem) \in Content
      BY <1>1, ChangedType
    <3> QED BY <1>1, <2>1, <2>2, <3>1, <3>2, NoContent DEF ChangeMemory, Base, PlaceTypes
  <2>3. CASE pc[c] # "idle"
    BY <1>1, <2>1, <2>3 DEF Base
  <2> QED BY <2>2, <2>3
<1>2. ASSUME NEW c \in Calls, Step(c), NEW d \in Calls \ {c}, Changer(d),
             pc'[d] \in {"memory", "opened", "written"}
      PROVE  mem' # None
  <2>1. pc'[d] = pc[d]
    BY <1>2, StepMoves DEF Base, CallTypes
  <2>2. Holds(d)
    BY <1>2, <2>1 DEF Holds, LockFree
  <2> QED BY <1>2, <2>1, <2>2, OthersWait DEF Base
<1>3. CASE Restart
  BY <1>3 DEF Restart
<1>4. CASE UNCHANGED vars
  BY <1>4 DEF vars, Base
<1> QED
  BY <1>1, <1>2, <1>3, <1>4 DEF Next

\* A session that was created stays created.
LEMMA ExistsKept == CallTypes /\ Exists /\ [Next]_vars => Exists'
<1> SUFFICES ASSUME CallTypes, Exists, [Next]_vars PROVE Exists'
  OBVIOUS
<1>1. PICK n \in Calls : kind[n] = "create" /\ pc[n] \in {"done", "dead"}
  BY DEF Exists
<1>2. ASSUME NEW c \in Calls, Step(c) PROVE Exists'
  BY <1>1, <1>2, StepMoves DEF Exists, CallTypes
<1>3. CASE Restart
  BY <1>1, <1>3 DEF Restart, Exists
<1>4. CASE UNCHANGED vars
  BY <1>1, <1>4 DEF vars, Exists
<1> QED
  BY <1>2, <1>3, <1>4 DEF Next

\* Create does not run again.
LEMMA CreatedOnce ==
    ASSUME Exists, NEW c \in Calls, kind[c] = "create" PROVE pc[c] \in {"done", "dead"}
BY OneCreate DEF Exists

LEMMA CreateKept == Base /\ [Next]_vars => CreateInv'
<1> SUFFICES ASSUME Base, [Next]_vars PROVE CreateInv'
  OBVIOUS
<1>1. ASSUME NEW c \in Calls, Step(c), kind[c] \notin {"create", "lookup"} PROVE Exists
  <2>1. CASE pc[c] # "idle"
    BY <1>1, <2>1 DEF Base, CreateInv
  <2>2. CASE pc[c] = "idle"
    BY <1>1, <2>2, Steps DEF SaveCopies, SaveMakesDir, SaveOpens, OpenTmp, WriteTmp, RenameTmp,
       RenameFails, RemoveTmp, TakesOver, Halfway, ChangeMemory, DeleteFiles, DeleteDir,
       DeleteEntry, SaveIndex, Lookup
  <2> QED BY <2>1, <2>2
<1>2. ASSUME NEW c \in Calls, Step(c), NEW d \in Calls,
             kind[d] \notin {"create", "lookup"}, pc'[d] # "idle"
      PROVE  Exists'
  <2>1. Exists
    <3>1. CASE c = d
      BY <1>1, <1>2, <3>1
    <3>2. CASE c # d
      BY <1>2, <3>2, StepMoves DEF Base, CreateInv, CallTypes
    <3> QED BY <3>1, <3>2
  <2> QED BY <2>1, ExistsKept DEF Base
<1>3. CASE Restart
  <2>1. Exists => Exists'
    BY <1>3, ExistsKept DEF Base, Next
  <2>2. \A c \in Calls : pc'[c] # "idle" => pc[c] # "idle"
    BY <1>3 DEF Restart
  <2> QED BY <2>1, <2>2 DEF CreateInv, Base
<1>4. CASE UNCHANGED vars
  BY <1>4 DEF vars, CreateInv, Base, Exists
<1> QED
  BY <1>2, <1>3, <1>4 DEF Next, CreateInv

LEMMA FileKept == Base /\ [Next]_vars => FileInv'
<1> SUFFICES ASSUME Base, [Next]_vars PROVE FileInv'
  OBVIOUS
<1> USE NoContent DEF Base, FileInv, PlaceTypes
<1>1. ASSUME NEW c \in Calls, SaveMakesDir(c) \/ SaveOpens(c) \/ OpenTmp(c) PROVE FileInv'
  BY <1>1 DEF SaveMakesDir, SaveOpens, OpenTmp
<1>2. ASSUME NEW c \in Calls, WriteTmp(c) PROVE FileInv'
  <2>1. Body(c) # None
    BY <1>2, BodyType DEF WriteTmp
  <2> QED BY <1>2, <2>1 DEF WriteTmp, Lands
<1>3. ASSUME NEW c \in Calls, RenameTmp(c) PROVE FileInv'
  BY <1>3 DEF RenameTmp, Lands
<1>4. ASSUME NEW c \in Calls, RemoveTmp(c) PROVE FileInv'
  BY <1>4 DEF RemoveTmp
<1>5. ASSUME NEW c \in Calls, DeleteFiles(c) PROVE FileInv'
  BY <1>5 DEF DeleteFiles
<1>6. ASSUME NEW c \in Calls, DeleteDir(c) PROVE FileInv'
  BY <1>6 DEF DeleteDir
<1>7. ASSUME NEW c \in Calls, SaveCopies(c) \/ RenameFails(c) \/ TakesOver(c) \/ ChangeMemory(c)
                              \/ DeleteEntry(c) \/ SaveIndex(c) \/ Lookup(c)
      PROVE  FileInv'
  BY <1>7 DEF SaveCopies, RenameFails, TakesOver, ChangeMemory, DeleteEntry, SaveIndex, Lookup, disk
<1>8. CASE Restart
  BY <1>8 DEF Restart, disk
<1>9. CASE UNCHANGED vars
  BY <1>9 DEF vars, disk
<1> QED
  BY <1>1, <1>2, <1>3, <1>4, <1>5, <1>6, <1>7, <1>8, <1>9, Steps DEF Next

LEMMA BaseHolds == Spec => []Base
<1>1. Init => Base
  <2> SUFFICES ASSUME Init PROVE Base
    OBVIOUS
  <2>1. LockInv /\ LabelInv /\ EntryInv /\ CreateInv /\ FileInv
    BY NoContent DEF Init, LockInv, Holds, LabelInv, Label, EntryInv, CreateInv, FileInv
  <2>2. CallTypes
    <3>1. pc \in [Calls -> Labels]
      BY DEF Init, Labels
    <3>2. crashes \in 0..MaxCrashes
      BY CrashBound DEF Init
    <3> QED BY <3>1, <3>2 DEF Init, CallTypes
  <2>3. copy \in [Calls -> Content \cup {None}] /\ file \in [Calls -> {"tmp", "meta", "gone"}]
    BY DEF Init
  <2>4. PlaceTypes
    BY <2>3, Zenon DEF Init, PlaceTypes
  <2> QED BY <2>1, <2>2, <2>4 DEF Base
<1>2. Base /\ [Next]_vars => Base'
  BY PlaceTypesKept, CallTypesKept, LockKept, LabelKept, EntryKept, CreateKept, FileKept DEF Base
<1> QED
  BY <1>1, <1>2, PTL DEF Spec

\* The store's state keeps its types.
THEOREM StoreTypes == Spec => []TypeOK
<1>1. Base => TypeOK
  BY DEF Base, PlaceTypes, CallTypes, TypeOK, Labels
<1> QED
  BY <1>1, BaseHolds, PTL

-----------------------------------------------------------------------------
(* A deleted session stays deleted *)

\* What a Delete has removed is gone, with its directory, unless a Save has made
\* that again: then no call finds an entry to change or to write back.
GoneInv ==
    /\ \A c \in Calls : pc[c] = "removed" => ~dir \/ revived
    /\ \A c \in Calls : kind[c] = "delete" /\ pc[c] = "index"
                          => mem = None /\ (~dir \/ revived)
    /\ Deleted /\ ~revived => mem = None /\ ~dir /\ idx = None

\* A Delete has removed the directory, and perhaps returned.
Removed == \E d \in Calls : kind[d] = "delete" /\ (pc[d] \in {"removed", "index"} \/ d \in acked)

\* The directory of a deleted session comes back only with a revival.
LEMMA DirStaysGone ==
    ASSUME Base, GoneInv, Removed, NEW c \in Calls, Step(c), ~dir \/ revived
    PROVE  ~dir' \/ revived'
<1>1. revived => revived'
  BY Steps DEF history, SaveCopies, SaveMakesDir, SaveOpens, OpenTmp, WriteTmp, RenameTmp,
     RenameFails, RemoveTmp, TakesOver, ChangeMemory, DeleteFiles, DeleteDir,
     DeleteEntry, SaveIndex, Lookup
<1> SUFFICES ASSUME ~dir, ~revived PROVE ~dir' \/ revived'
  BY <1>1
<1>2. PICK d \in Calls : kind[d] = "delete" /\ (pc[d] \in {"removed", "index"} \/ d \in acked)
  BY DEF Removed
<1>3. pc[d] # "idle"
  BY <1>2 DEF Base, LabelInv, Label
<1>4. Exists
  BY <1>2, <1>3 DEF Base, CreateInv
<1>5. ~OpenTmp(c)
  <2> SUFFICES ASSUME OpenTmp(c) PROVE FALSE
    OBVIOUS
  <2>1. pc[c] = "memory"
    BY <1>4, CreatedOnce DEF OpenTmp
  <2>2. Changer(c) /\ mem # None /\ Holds(c)
    BY <2>1 DEF Base, LabelInv, Label, EntryInv, Holds
  <2>3. d \notin acked
    BY <1>2, <2>2 DEF GoneInv, Deleted
  <2>4. Holds(d) /\ d # c
    BY <1>2, <2>1, <2>3 DEF Holds
  <2> QED BY <2>2, <2>4 DEF Base, LockInv
<1>6. SaveMakesDir(c) => revived'
  BY DEF SaveMakesDir
<1> QED
  BY <1>5, <1>6, Steps DEF disk, SaveCopies, SaveOpens, WriteTmp, RenameTmp,
     RenameFails, RemoveTmp, TakesOver, ChangeMemory, DeleteFiles, DeleteDir,
     DeleteEntry, SaveIndex, Lookup

\* A step of c sets the memory to what the file holds, or leaves an empty one so.
LEMMA MemStaysGone ==
    ASSUME Base, NEW c \in Calls, Step(c), mem = None, ~dir
    PROVE  mem' = None
<1>1. Read(meta) = None
  BY NoContent DEF Base, FileInv, Read
<1> QED
  BY <1>1, Steps DEF disk, SaveCopies, SaveMakesDir, SaveOpens, OpenTmp, WriteTmp, RenameTmp,
     RenameFails, RemoveTmp, TakesOver, Refresh, ChangeMemory, DeleteFiles, DeleteDir,
     DeleteEntry, SaveIndex, Lookup

LEMMA GoneKept == ASSUME Base, GoneInv, [Next]_vars PROVE GoneInv'
<1>1. ASSUME NEW c \in Calls, Step(c) PROVE GoneInv'
  <2>1. \A d \in Calls \ {c} : pc'[d] = pc[d] /\ (d \in acked' => d \in acked)
    BY <1>1, StepMoves DEF Base, CallTypes
  <2>2. Removed => (~dir \/ revived => ~dir' \/ revived')
    BY <1>1, DirStaysGone
  <2>3. ASSUME NEW d \in Calls, pc'[d] = "removed" PROVE ~dir' \/ revived'
    <3>1. CASE d = c
      <4>1. DeleteDir(c)
        BY <1>1, <2>3, <3>1, Steps DEF Goes, Breaks, Base, CallTypes, SaveCopies, SaveMakesDir,
           SaveOpens, OpenTmp, WriteTmp, RenameTmp, RenameFails, RemoveTmp, TakesOver, Halfway,
           ChangeMemory, DeleteFiles, DeleteEntry, SaveIndex, Lookup
      <4>2. pc' = [pc EXCEPT ![c] = "removed"] \/ pc' = [pc EXCEPT ![c] = "failed"]
        BY <4>1 DEF DeleteDir, Goes, Breaks
      <4> QED BY <2>3, <3>1, <4>1, <4>2 DEF DeleteDir, Breaks, Goes, Base, CallTypes
    <3>2. CASE d # c
      <4>1. pc[d] = "removed" /\ kind[d] = "delete"
        BY <2>1, <2>3, <3>2 DEF Base, LabelInv, Label
      <4> QED BY <2>2, <4>1 DEF GoneInv, Removed
    <3> QED BY <3>1, <3>2
  <2>4. ASSUME NEW d \in Calls, kind[d] = "delete", pc'[d] = "index"
        PROVE  mem' = None /\ (~dir' \/ revived')
    <3>1. CASE d = c
      <4>1. DeleteEntry(c)
        BY <1>1, <2>4, <3>1, Steps DEF Goes, Breaks, Base, CallTypes, LabelInv, Label, LockFree,
           Changer, SaveCopies, SaveMakesDir, SaveOpens, OpenTmp, WriteTmp, RenameTmp, RenameFails,
           RemoveTmp, TakesOver, Halfway, ChangeMemory, DeleteFiles, DeleteDir, SaveIndex, Lookup
      <4>2. pc[c] = "removed"
        BY <4>1 DEF DeleteEntry
      <4>3. Removed
        BY <2>4, <3>1, <4>2 DEF Removed
      <4> QED BY <2>2, <4>1, <4>2, <4>3 DEF DeleteEntry, GoneInv
    <3>2. CASE d # c
      <4>1. pc[d] = "index" /\ Holds(d)
        BY <2>1, <2>4, <3>2 DEF Holds
      <4>2. Removed
        BY <2>4, <4>1 DEF Removed
      <4> QED BY <1>1, <2>2, <2>4, <3>2, <4>1, <4>2, OthersWait DEF GoneInv
    <3> QED BY <3>1, <3>2
  <2>5. ASSUME Deleted', ~revived' PROVE mem' = None /\ ~dir' /\ idx' = None
    <3>1. PICK d \in acked' : kind[d] = "delete"
      BY <2>5 DEF Deleted
    <3>2. CASE d \in acked
      <4>1. Deleted /\ Removed /\ d \in Calls
        BY <3>1, <3>2 DEF Deleted, Removed, Base, CallTypes
      <4>2. ~revived
        BY <1>1, <2>5, Steps DEF history, SaveCopies, SaveMakesDir, SaveOpens, OpenTmp, WriteTmp,
           RenameTmp, RenameFails, RemoveTmp, TakesOver, ChangeMemory, DeleteFiles, DeleteDir,
           DeleteEntry, SaveIndex, Lookup
      <4>3. mem = None /\ ~dir /\ idx = None
        BY <4>1, <4>2 DEF GoneInv
      <4>4. idx' \in {idx, mem}
        BY <1>1, Steps DEF disk, SaveCopies, SaveMakesDir, SaveOpens, OpenTmp, WriteTmp,
           RenameTmp, RenameFails, RemoveTmp, TakesOver, ChangeMemory, DeleteFiles, DeleteDir,
           DeleteEntry, SaveIndex, Lookup
      <4> QED BY <1>1, <2>2, <2>5, <4>1, <4>3, <4>4, MemStaysGone
    <3>3. CASE d \notin acked
      <4>1. d = c /\ SaveIndex(c)
        BY <1>1, <3>1, <3>3, Steps DEF history, SaveCopies, SaveMakesDir, SaveOpens, OpenTmp,
           WriteTmp, RenameTmp, RenameFails, RemoveTmp, TakesOver, ChangeMemory, DeleteFiles,
           DeleteDir, DeleteEntry, SaveIndex, Lookup
      <4>2. kind[c] = "delete" /\ pc[c] = "index"
        BY <3>1, <4>1 DEF SaveIndex
      <4>3. mem = None /\ (~dir \/ revived) /\ Removed
        BY <4>2 DEF GoneInv, Removed
      <4> QED BY <2>2, <2>5, <4>1, <4>3 DEF SaveIndex
    <3> QED BY <3>2, <3>3
  <2> QED BY <2>3, <2>4, <2>5 DEF GoneInv
<1>2. CASE Restart
  BY <1>2, NoContent DEF Restart, GoneInv, Deleted, disk, history
<1>3. CASE UNCHANGED vars
  BY <1>3 DEF vars, GoneInv, Deleted, disk, history
<1> QED
  BY <1>1, <1>2, <1>3 DEF Next

\* A session that was deleted is neither in memory nor in the index, whatever
\* calls were in progress and whenever the program crashes, until a Save makes
\* its directory again.
THEOREM DeletionIsFinal == Spec => []DeleteStays
<1>1. Init => GoneInv
  BY DEF Init, GoneInv, Deleted
<1>2. Base /\ GoneInv /\ [Next]_vars => GoneInv'
  BY GoneKept
<1>3. GoneInv => DeleteStays
  BY DEF GoneInv, DeleteStays
<1> QED
  BY <1>1, <1>2, <1>3, BaseHolds, PTL DEF Spec

-----------------------------------------------------------------------------
(* Memory, file and index agree at rest *)

\* Two writers share the temporary file, or one has lost it: then one of them
\* will find nothing to rename, and its call will fail.
Debt ==
    \/ \E c \in Calls : pc[c] = "cleanup"
    \/ tmp = None /\ \E c \in Calls : Writing(c)
    \/ \E c, d \in Calls : c # d /\ Writing(c) /\ Writing(d)
Clean == crashes = 0 /\ broken = {} /\ ~Debt

NoHalfway == \A c \in Calls : ~Halfway(c)

\* Without debt a writer has its own file, with its own content.
OwnFile ==
    \A c \in Calls :
        /\ Writing(c) => file[c] = "tmp"
        /\ pc[c] = "written" => tmp \in Content /\ (~LockFree(c) => tmp = mem)
\* The file a Save has written is there, unless a Delete has removed it, and the
\* entry with it.
HalfThere ==
    (\E c \in Calls : Halfway(c)) /\ meta = None
        => mem = None \/ \E c \in Calls : pc[c] \in {"emptied", "removed"}
\* When no Save is between its file and its entry, memory and file differ only
\* while a call holds the lock, and the index differs only until it has saved it.
Agrees ==
    NoHalfway =>
        /\ mu = None => mem = meta /\ (acked # {} => idx = mem)
        /\ \A c \in Calls : pc[c] = "removed" => meta = None
        /\ \A c \in Calls : pc[c] = "index" => mem = meta
AgreeInv == Clean => OwnFile /\ meta # Empty /\ HalfThere /\ Agrees

\* A debt stays until a call fails.
LEMMA DebtStays == ASSUME Base, Debt, NEW c \in Calls, Step(c) PROVE Debt' \/ broken' # {}
<1> SUFFICES ASSUME broken' = {} PROVE Debt'
  OBVIOUS
<1>1. \A d \in Calls \ {c} : pc'[d] = pc[d]
  BY StepMoves DEF Base, CallTypes
<1>2. ~RemoveTmp(c)
  BY DEF RemoveTmp, Breaks
<1>3. ASSUME NEW d \in Calls, pc[d] = "cleanup" PROVE pc'[d] = "cleanup"
  BY <1>1, <1>2, <1>3, Steps DEF LockFree, SaveCopies, SaveMakesDir, SaveOpens, OpenTmp, WriteTmp,
     RenameTmp, RenameFails, TakesOver, Halfway, ChangeMemory, DeleteFiles, DeleteDir,
     DeleteEntry, SaveIndex, Lookup
<1>4. CASE RenameFails(c)
  BY <1>4 DEF RenameFails, Goes, Debt, Base, CallTypes
<1>5. CASE RenameTmp(c)
  <2>1. tmp' = None /\ tmp # None
    BY <1>5 DEF RenameTmp
  <2> QED BY <1>1, <1>3, <2>1 DEF Debt, Writing
<1>6. ASSUME ~RenameFails(c), ~RenameTmp(c)
      PROVE  \A d \in Calls : Writing(d) => Writing(d)'
  BY <1>1, <1>2, <1>6, Steps DEF Writing, Goes, Base, CallTypes, SaveCopies, SaveMakesDir,
     SaveOpens, OpenTmp, WriteTmp, TakesOver, Halfway, ChangeMemory, DeleteFiles, DeleteDir,
     DeleteEntry, SaveIndex, Lookup
<1>7. ASSUME ~RenameFails(c), ~RenameTmp(c), tmp = None, tmp' # None
      PROVE  ~Writing(c) /\ Writing(c)'
  <2>1. SaveOpens(c) \/ OpenTmp(c)
    BY <1>2, <1>7, Steps DEF disk, SaveCopies, SaveMakesDir, WriteTmp, TakesOver, ChangeMemory,
       DeleteFiles, DeleteDir, DeleteEntry, SaveIndex, Lookup, Base, FileInv, PlaceTypes
  <2> QED BY <1>7, <2>1 DEF SaveOpens, OpenTmp, Writing, Goes, Base, CallTypes
<1> QED
  BY <1>3, <1>4, <1>5, <1>6, <1>7 DEF Debt

LEMMA CleanBefore == ASSUME Base, NEW c \in Calls, Step(c), Clean' PROVE Clean
<1>1. crashes' = crashes
  BY StepMoves
<1>2. broken \subseteq broken'
  BY Steps DEF history, Breaks, SaveCopies, SaveMakesDir, SaveOpens, OpenTmp, WriteTmp, RenameTmp,
     RenameFails, RemoveTmp, TakesOver, ChangeMemory, DeleteFiles, DeleteDir,
     DeleteEntry, SaveIndex, Lookup
<1> QED
  BY <1>1, <1>2, DebtStays DEF Clean

\* Without debt nobody else writes while a call writes.
LEMMA Alone ==
    ASSUME Clean, NEW c \in Calls, Writing(c), NEW d \in Calls \ {c}
    PROVE  ~Writing(d) /\ tmp # None
BY DEF Clean, Debt

LEMMA OwnFileKept ==
    ASSUME Base, Clean, Clean', OwnFile, NEW c \in Calls, Step(c) PROVE OwnFile'
<1>1. \A d \in Calls \ {c} : pc'[d] = pc[d]
  BY StepMoves DEF Base, CallTypes
<1> DEFINE Own(d) ==
        /\ Writing(d) => file[d] = "tmp"
        /\ pc[d] = "written" => tmp \in Content /\ (~LockFree(d) => tmp = mem)
<1>2. ASSUME NEW d \in Calls, Writing(d)', NEW e \in Calls, Writing(e)' PROVE d = e
  BY <1>2 DEF Clean, Debt
<1>3. ASSUME Writing(c)' PROVE Own(c)'
  <2>1. CASE SaveOpens(c) \/ OpenTmp(c)
    <3>1. pc'[c] = "opened" /\ file'[c] = "tmp"
      BY <1>3, <2>1 DEF SaveOpens, OpenTmp, Breaks, Goes, Writing, Base, CallTypes, PlaceTypes
    <3> QED BY <3>1 DEF Writing
  <2>2. CASE WriteTmp(c)
    <3>1. file[c] = "tmp"
      BY <2>2 DEF WriteTmp, OwnFile, Writing
    <3>2. tmp' = Body(c) /\ file' = file /\ mem' = mem
      BY <2>2, <3>1 DEF WriteTmp
    <3>3. Body(c) \in Content
      BY <2>2, BodyType DEF Base, WriteTmp
    <3>4. ~LockFree(c) => Body(c) = mem
      BY DEF LockFree, Body
    <3> QED BY <3>1, <3>2, <3>3, <3>4 DEF Writing, LockFree
  <2>3. SaveOpens(c) \/ OpenTmp(c) \/ WriteTmp(c)
    BY <1>3, Steps DEF Writing, Goes, Breaks, Base, CallTypes, SaveCopies, SaveMakesDir,
       RenameTmp, RenameFails, RemoveTmp, TakesOver, ChangeMemory, DeleteFiles, DeleteDir,
       DeleteEntry, SaveIndex, Lookup
  <2> QED BY <2>1, <2>2, <2>3
<1>4. ASSUME NEW d \in Calls \ {c}, Writing(d)' PROVE Own(d)'
  <2>1. Writing(d) /\ ~Writing(c)'
    BY <1>1, <1>2, <1>4 DEF Writing
  <2>2. ~Writing(c) /\ tmp # None /\ Own(d)
    BY <2>1, Alone DEF OwnFile
  <2>3. tmp' = tmp
    <3>1. tmp' # None
      BY <1>4 DEF Clean, Debt
    <3> QED BY <2>1, <2>2, <3>1, Steps DEF disk, Writing, Goes, Base, CallTypes, SaveCopies,
            SaveMakesDir, SaveOpens, OpenTmp, WriteTmp, RenameTmp, RenameFails, RemoveTmp,
            TakesOver, ChangeMemory, DeleteFiles, DeleteDir, DeleteEntry, SaveIndex, Lookup
  <2>4. file'[d] = file[d]
    <3>1. tmp' # None
      BY <1>4 DEF Clean, Debt
    <3> QED BY <2>1, <2>2, <3>1, Steps DEF Writing, Goes, Base, CallTypes, PlaceTypes, SaveCopies,
            SaveMakesDir, SaveOpens, OpenTmp, WriteTmp, RenameTmp, RenameFails, RemoveTmp,
            TakesOver, ChangeMemory, DeleteFiles, DeleteDir, DeleteEntry, SaveIndex, Lookup
  <2>5. ~LockFree(d) => mem' = mem
    <3>1. ~LockFree(d) => Holds(d)
      BY <2>1 DEF Holds, Writing
    <3> QED BY <3>1, OthersWait
  <2> QED BY <1>1, <2>1, <2>2, <2>3, <2>4, <2>5 DEF Writing, LockFree
<1>5. \A d \in Calls : Writing(d)' => Own(d)'
  BY <1>3, <1>4
<1> QED
  BY <1>5 DEF OwnFile, Writing

\* Without debt the session's file changes only by the rename of a whole file,
\* and by a Delete.
LEMMA FileChanges ==
    ASSUME Base, Clean, OwnFile, NEW c \in Calls, Step(c)
    PROVE  \/ meta' = meta
           \/ RenameTmp(c) /\ meta' \in Content /\ (~LockFree(c) => meta' = mem)
           \/ DeleteFiles(c) /\ meta' = None /\ mu' = c /\ pc' = [pc EXCEPT ![c] = "emptied"]
<1>1. CASE WriteTmp(c)
  BY <1>1 DEF WriteTmp, OwnFile, Writing
<1>2. CASE RenameTmp(c)
  BY <1>2 DEF RenameTmp, Lands, OwnFile
<1>3. CASE DeleteFiles(c)
  BY <1>3 DEF DeleteFiles, Goes
<1> QED
  BY <1>1, <1>2, <1>3, Steps DEF disk, SaveCopies, SaveMakesDir, SaveOpens, OpenTmp,
     RenameFails, RemoveTmp, TakesOver, ChangeMemory, DeleteDir, DeleteEntry, SaveIndex, Lookup

LEMMA HalfThereKept ==
    ASSUME Base, Clean, Clean', OwnFile, HalfThere, NEW c \in Calls, Step(c) PROVE HalfThere'
<1> USE NoContent
<1> SUFFICES ASSUME \E d \in Calls : Halfway(d)', meta' = None
             PROVE  mem' = None \/ \E d \in Calls : pc'[d] \in {"emptied", "removed"}
  BY DEF HalfThere
<1>1. CASE DeleteFiles(c) /\ mu' = c /\ pc' = [pc EXCEPT ![c] = "emptied"]
  BY <1>1 DEF Base, CallTypes
<1>2. CASE meta' = meta
  <2>1. PICK d \in Calls : Halfway(d)'
    OBVIOUS
  <2>2. Halfway(d)
    <3>1. ~RenameTmp(c)
      BY <1>2 DEF RenameTmp, Lands
    <3> QED BY <2>1, <3>1, Steps DEF Halfway, LockFree, Goes, Breaks, Base, CallTypes, SaveCopies,
            SaveMakesDir, SaveOpens, OpenTmp, WriteTmp, RenameFails, RemoveTmp,
            TakesOver, ChangeMemory, DeleteFiles, DeleteDir, DeleteEntry, SaveIndex, Lookup
  <2>3. mem = None \/ \E e \in Calls : pc[e] \in {"emptied", "removed"}
    BY <1>2, <2>2 DEF HalfThere
  <2>4. CASE mem = None
    <3>1. Read(meta) = None
      BY <1>2 DEF Read
    <3> QED BY <2>4, <3>1, Steps DEF SaveCopies, SaveMakesDir, SaveOpens, OpenTmp, WriteTmp,
            RenameTmp, RenameFails, RemoveTmp, TakesOver, Refresh, ChangeMemory, DeleteFiles,
            DeleteDir, DeleteEntry, SaveIndex, Lookup
  <2>5. ASSUME NEW e \in Calls, pc[e] \in {"emptied", "removed"}
        PROVE  mem' = None \/ pc'[e] \in {"emptied", "removed"}
    <3>1. CASE e # c
      BY <2>5, <3>1, StepMoves DEF Base, CallTypes
    <3>2. CASE e = c
      <4>1. DeleteDir(c) \/ DeleteEntry(c)
        BY <2>5, <3>2, Steps DEF Halfway, SaveCopies, SaveMakesDir, SaveOpens, OpenTmp, WriteTmp,
           RenameTmp, RenameFails, RemoveTmp, TakesOver, ChangeMemory, DeleteFiles, SaveIndex, Lookup
      <4>2. broken' = {}
        BY DEF Clean
      <4>3. DeleteDir(c) => pc' = [pc EXCEPT ![c] = "removed"]
        BY <4>2 DEF DeleteDir, Breaks, Goes
      <4> QED BY <3>2, <4>1, <4>3 DEF DeleteEntry, Base, CallTypes
    <3> QED BY <3>1, <3>2
  <2> QED BY <2>3, <2>4, <2>5
<1> QED
  BY <1>1, <1>2, FileChanges DEF Base, PlaceTypes

LEMMA AgreesKept ==
    ASSUME Base, Clean, Clean', OwnFile, meta # Empty, HalfThere, Agrees, NEW c \in Calls, Step(c)
    PROVE  Agrees'
<1> USE NoContent
<1> SUFFICES ASSUME NoHalfway'
             PROVE  /\ mu' = None => mem' = meta' /\ (acked' # {} => idx' = mem')
                    /\ \A d \in Calls : pc'[d] = "removed" => meta' = None
                    /\ \A d \in Calls : pc'[d] = "index" => mem' = meta'
  BY DEF Agrees
<1>1. CASE TakesOver(c)
  <2>1. \A d \in Calls : pc[d] \notin {"emptied", "removed"} /\ pc'[d] # "removed"
    BY <1>1 DEF TakesOver, Unlocked, Goes, Base, CallTypes, LockInv, Holds
  <2>2. meta = None => mem = None
    BY <1>1, <2>1 DEF TakesOver, HalfThere
  <2>3. mem' = meta' /\ mu' # None
    BY <1>1, <2>2 DEF TakesOver, Refresh, Read, disk
  <2> QED BY <2>1, <2>3
<1>2. CASE RenameTmp(c)
  <2>1. ~LockFree(c)
    BY <1>2 DEF RenameTmp, Goes, NoHalfway, Halfway, LockFree, Base, CallTypes
  <2>2. mu = c /\ \A d \in Calls : pc[d] # "removed"
    BY <1>2, <2>1 DEF RenameTmp, Base, LockInv, Holds
  <2>3. meta' = mem /\ mem' = mem /\ mu' = mu
    BY <1>2, <2>1 DEF RenameTmp, Lands, OwnFile
  <2>4. pc' = [pc EXCEPT ![c] = "index"]
    BY <1>2, <2>1 DEF RenameTmp, Goes
  <2> QED BY <2>2, <2>3, <2>4 DEF Base, CallTypes
<1>3. ASSUME ~TakesOver(c), ~RenameTmp(c)
      PROVE  /\ mu = None => mem = meta /\ (acked # {} => idx = mem)
             /\ \A d \in Calls : pc[d] = "removed" => meta = None
             /\ \A d \in Calls : pc[d] = "index" => mem = meta
  <2>1. \A d \in Calls : Halfway(d) => Halfway(d)'
    BY <1>3, Steps DEF Halfway, LockFree, Goes, Breaks, Base, CallTypes, SaveCopies,
       SaveMakesDir, SaveOpens, OpenTmp, WriteTmp, RenameFails, RemoveTmp,
       ChangeMemory, DeleteFiles, DeleteDir, DeleteEntry, SaveIndex, Lookup
  <2> QED BY <2>1 DEF Agrees, NoHalfway
<1>4. CASE SaveCopies(c)
  BY <1>3, <1>4 DEF SaveCopies, TakesOver, RenameTmp, Read, disk, history, Goes, Unlocked, Base,
     CallTypes, PlaceTypes
<1>5. CASE SaveMakesDir(c) \/ OpenTmp(c) \/ RenameFails(c)
  BY <1>3, <1>5 DEF SaveMakesDir, OpenTmp, RenameFails, TakesOver, RenameTmp, Halfway, disk, history,
     Goes, Base, CallTypes
<1>6. CASE SaveOpens(c) \/ RemoveTmp(c)
  <2>1. broken' = {}
    BY DEF Clean
  <2> QED BY <1>3, <1>6, <2>1 DEF SaveOpens, RemoveTmp, Breaks, TakesOver, RenameTmp, Halfway,
          Goes, Base, CallTypes
<1>7. CASE WriteTmp(c)
  <2>1. meta' = meta
    BY <1>7 DEF WriteTmp, OwnFile, Writing
  <2> QED BY <1>3, <1>7, <2>1 DEF WriteTmp, TakesOver, RenameTmp, Halfway, Goes, Base, CallTypes
<1>8. CASE ChangeMemory(c)
  <2>1. \A d \in Calls : ~Holds(d)
    BY <1>8 DEF ChangeMemory, Unlocked, Base, LockInv
  <2>2. \A d \in Calls : pc'[d] # "removed" /\ pc'[d] # "index"
    BY <1>8, <2>1 DEF ChangeMemory, Goes, Base, CallTypes, Holds
  <2> QED BY <1>3, <1>8, <2>2 DEF ChangeMemory, TakesOver, RenameTmp, Halfway, disk, Unlocked
<1>9. CASE DeleteFiles(c)
  <2>1. \A d \in Calls : ~Holds(d)
    BY <1>9 DEF DeleteFiles, Unlocked, Base, LockInv
  <2>2. \A d \in Calls : pc'[d] # "removed" /\ pc'[d] # "index"
    BY <1>9, <2>1 DEF DeleteFiles, Goes, Base, CallTypes, Holds
  <2> QED BY <1>3, <1>9, <2>2 DEF DeleteFiles, TakesOver, RenameTmp, Halfway, history, Unlocked
<1>10. CASE DeleteDir(c)
  <2>1. broken' = {}
    BY DEF Clean
  <2>2. meta = None /\ pc' = [pc EXCEPT ![c] = "removed"] /\ mu' = mu /\ pc[c] = "emptied"
    BY <1>10, <2>1 DEF DeleteDir, Breaks, Goes
  <2>3. mu = c /\ \A d \in Calls \ {c} : ~Holds(d)
    BY <2>2 DEF Base, LockInv, Holds
  <2> QED BY <1>10, <2>2, <2>3 DEF DeleteDir, Base, CallTypes, Holds
<1>11. CASE DeleteEntry(c)
  <2>1. mu = c /\ meta = None
    BY <1>3, <1>11 DEF DeleteEntry, TakesOver, RenameTmp, Halfway, Base, LockInv, Holds
  <2> QED BY <1>11, <2>1 DEF DeleteEntry, disk, Goes
<1>12. CASE SaveIndex(c)
  <2>1. mem = meta /\ mu = c
    BY <1>3, <1>12 DEF SaveIndex, TakesOver, RenameTmp, Halfway, Base, LockInv, Holds
  <2>2. \A d \in Calls : pc'[d] # "removed"
    BY <1>12, <2>1 DEF SaveIndex, Goes, Base, CallTypes, LockInv, Holds
  <2> QED BY <1>12, <2>1, <2>2 DEF SaveIndex
<1>13. CASE Lookup(c)
  BY <1>3, <1>13 DEF Lookup, TakesOver, RenameTmp, Halfway, Read, disk, history, Goes, Unlocked,
     Base, CallTypes
<1> QED
  BY <1>1, <1>2, <1>4, <1>5, <1>6, <1>7, <1>8, <1>9, <1>10, <1>11, <1>12, <1>13, Steps

LEMMA AgreeKept == ASSUME Base, AgreeInv, [Next]_vars PROVE AgreeInv'
<1>1. ASSUME NEW c \in Calls, Step(c) PROVE AgreeInv'
  <2> SUFFICES ASSUME Clean' PROVE (OwnFile /\ meta # Empty /\ HalfThere /\ Agrees)'
    BY DEF AgreeInv
  <2>1. Clean /\ OwnFile /\ meta # Empty /\ HalfThere /\ Agrees
    BY <1>1, CleanBefore DEF AgreeInv
  <2>2. OwnFile' /\ HalfThere' /\ Agrees'
    BY <1>1, <2>1, OwnFileKept, HalfThereKept, AgreesKept
  <2>3. meta' # Empty
    BY <1>1, <2>1, FileChanges, NoContent
  <2> QED BY <2>2, <2>3
<1>2. CASE Restart
  <2>1. crashes' # 0
    BY <1>2, CrashBound DEF Restart, Base, CallTypes
  <2> QED BY <2>1 DEF AgreeInv, Clean
<1>3. CASE UNCHANGED vars
  BY <1>3 DEF vars, disk, history, AgreeInv, Clean, Debt, Writing, OwnFile, HalfThere, Agrees,
     NoHalfway, Halfway, LockFree
<1> QED
  BY <1>1, <1>2, <1>3 DEF Next

\* However the calls interleave, the three places of a session agree when no call
\* is in progress, until a crash or a failed file operation.
THEOREM PlacesAgree == Spec => []AgreeAtRest
<1>1. Init => AgreeInv
  BY NoContent DEF Init, AgreeInv, OwnFile, Writing, HalfThere, Halfway, Agrees
<1>2. Base /\ AgreeInv /\ [Next]_vars => AgreeInv'
  BY AgreeKept
<1>3. Base /\ AgreeInv => AgreeAtRest
  <2> SUFFICES ASSUME Base, AgreeInv, crashes = 0, broken = {}, Idle, acked # {}
               PROVE  mem = meta /\ idx = mem
    BY DEF AgreeAtRest
  <2>1. \A c \in Calls : pc[c] \in {"idle", "done", "failed", "dead"}
    BY DEF Idle
  <2>2. Clean /\ NoHalfway
    BY <2>1 DEF Clean, Debt, Writing, NoHalfway, Halfway
  <2>3. mu = None
    BY <2>1 DEF Base, LockInv, Holds, CallTypes
  <2> QED BY <2>2, <2>3 DEF AgreeInv, Agrees
<1> QED
  BY <1>1, <1>2, <1>3, BaseHolds, PTL DEF Spec

-----------------------------------------------------------------------------
(* Charges are kept *)

\* Where there is a session, the cost of c is in it.
Has(e, c) == e \in Content => c \in e.cost
Charges(c) == kind[c] \in {"increment", "save"}

\* The file holds the cost that a Save has written; or a Delete has removed the
\* file, and the entry or is about to.
InFile(x) ==
    \/ meta \in Content /\ x \in meta.cost
    \/ meta = None /\ (mem = None \/ \E d \in Calls : pc[d] \in {"emptied", "removed"})

\* The cost of a call is in every place the call has been to, and in all of them
\* once it has returned.
Kept(x) ==
    /\ x \in acked => Has(mem, x) /\ Has(meta, x) /\ Has(idx, x)
    /\ Changer(x) /\ pc[x] \in {"memory", "opened", "written"} => Has(mem, x)
    /\ pc[x] = "file" => InFile(x)
    /\ pc[x] = "index" => Has(mem, x) /\ Has(meta, x)

\* This holds of every cost that no other call has replaced.
ChargeInv == \A c \in Calls \ exposed : Charges(c) => Kept(c)

\* What is exposed stays exposed.
LEMMA ExposedGrows == ASSUME Base, [Next]_vars PROVE exposed \subseteq exposed'
<1>1. ASSUME NEW c \in Calls, Step(c) PROVE exposed \subseteq exposed'
  BY <1>1, Steps DEF history, SaveCopies, SaveMakesDir, SaveOpens, OpenTmp, WriteTmp, RenameTmp,
     Lands, RenameFails, RemoveTmp, TakesOver, ChangeMemory, DeleteFiles, DeleteDir,
     DeleteEntry, SaveIndex, Lookup, Base, PlaceTypes
<1> QED
  BY <1>1 DEF Next, Restart, vars, history

\* A new content of the file has the cost of every call that has put it in the
\* file or in memory and is not exposed.
LEMMA LandingKeeps ==
    ASSUME Base, NEW c \in Calls, NEW e \in Content \cup {Empty}, Lands(c, e),
           NEW x \in Calls \ exposed', Charges(x), Kept(x)
    PROVE  /\ x \in acked \/ pc[x] = "index" => Has(e, x)
           /\ x = c \/ Halfway(x) => Has(e, x) /\ (LockFree(x) => e \in Content)
<1> USE NoContent
<1>1. x \notin Hidden(c, e)
  BY DEF Lands
<1>2. x \in acked => pc[x] = "done"
  BY DEF Base, LabelInv, Label
<1>3. CASE e = Empty
  BY <1>1, <1>3 DEF Hidden, Has, Halfway
<1>4. CASE e # Empty
  <2>1. x \in e.cost \/ (x # c /\ ~Halfway(x) /\ (e = mem \/ pc[x] \notin {"index", "done"}))
    BY <1>1, <1>4 DEF Hidden
  <2>2. e = mem /\ (x \in acked \/ pc[x] = "index") => Has(e, x)
    BY DEF Kept
  <2> QED BY <1>2, <1>4, <2>1, <2>2 DEF Has
<1> QED
  BY <1>3, <1>4

\* A step of another call leaves a Save's cost in the file, unless it exposes it.
LEMMA InFileStays ==
    ASSUME Base, NEW c \in Calls, Step(c), NEW x \in Calls \ exposed', Charges(x),
           Kept(x), x # c, pc[x] = "file"
    PROVE  InFile(x)'
<1> USE NoContent
<1>1. Halfway(x) /\ InFile(x)
  BY DEF Kept, Base, LabelInv, Label, Halfway
<1>2. ASSUME NEW e \in Content \cup {Empty}, Lands(c, e) PROVE InFile(x)'
  <2>1. Has(e, x) /\ e \in Content
    BY <1>1, <1>2, LandingKeeps DEF Halfway
  <2> QED BY <1>2, <2>1 DEF Lands, Has, InFile
<1>3. CASE WriteTmp(c)
  <2>1. Body(c) \in Content
    BY <1>3, BodyType DEF WriteTmp, Base
  <2>2. file[c] = "meta" => Lands(c, Body(c))
    BY <1>3 DEF WriteTmp
  <2>3. file[c] # "meta" => meta' = meta
    BY <1>3 DEF WriteTmp, Base, PlaceTypes
  <2>4. mem' = mem /\ \A d \in Calls : pc[d] \in {"emptied", "removed"} => pc'[d] = pc[d]
    BY <1>3 DEF WriteTmp, Goes, Base, CallTypes
  <2> QED BY <1>1, <1>2, <2>1, <2>2, <2>3, <2>4 DEF InFile
<1>4. CASE RenameTmp(c)
  BY <1>2, <1>4 DEF RenameTmp, Base, PlaceTypes
<1>5. CASE DeleteFiles(c)
  BY <1>1, <1>5 DEF DeleteFiles, Goes, InFile, Base, CallTypes
<1>6. CASE DeleteDir(c)
  <2>1. CASE meta = None /\ tmp = None
    BY <1>6, <2>1 DEF DeleteDir, Goes, InFile, Base, CallTypes
  <2>2. CASE ~(meta = None /\ tmp = None)
    BY <1>1, <1>6, <2>2 DEF DeleteDir
  <2> QED BY <2>1, <2>2
<1>7. CASE DeleteEntry(c)
  BY <1>1, <1>7 DEF DeleteEntry, disk, InFile
<1>8. CASE SaveCopies(c) \/ TakesOver(c) \/ ChangeMemory(c) \/ Lookup(c)
  <2>1. \A d \in Calls : pc[d] \notin {"emptied", "removed"} \/ ChangeMemory(c)
    BY <1>8 DEF SaveCopies, TakesOver, ChangeMemory, Lookup, Unlocked, Base, LockInv, Holds
  <2>2. ChangeMemory(c) => \A d \in Calls : pc[d] \notin {"emptied", "removed"}
    BY DEF ChangeMemory, Unlocked, Base, LockInv, Holds
  <2>3. meta' = meta
    BY <1>8 DEF SaveCopies, TakesOver, ChangeMemory, Lookup, disk
  <2>4. meta = None => mem = None
    BY <1>1, <2>1, <2>2 DEF InFile
  <2>5. meta = None => Read(meta) = None
    BY DEF Read
  <2>6. meta = None => mem' = None
    BY <1>8, <2>4, <2>5 DEF SaveCopies, TakesOver, Refresh, ChangeMemory, Lookup
  <2> QED BY <1>1, <2>3, <2>6 DEF InFile
<1>9. CASE SaveMakesDir(c) \/ SaveOpens(c) \/ OpenTmp(c) \/ RenameFails(c) \/ RemoveTmp(c)
           \/ SaveIndex(c)
  <2>1. meta' = meta /\ mem' = mem
    BY <1>9 DEF SaveMakesDir, SaveOpens, OpenTmp, RenameFails, RemoveTmp, SaveIndex, disk
  <2>2. \A d \in Calls : pc[d] \in {"emptied", "removed"} => pc'[d] = pc[d]
    BY <1>9, StepMoves DEF SaveMakesDir, SaveOpens, OpenTmp, RenameFails, RemoveTmp, SaveIndex,
       Base, CallTypes, LabelInv, Label
  <2> QED BY <1>1, <2>1, <2>2 DEF InFile
<1> QED
  BY <1>3, <1>4, <1>5, <1>6, <1>7, <1>8, <1>9, Steps

\* What a call has changed in memory has the costs that were there, unless it
\* exposes them, and its own.
LEMMA ChangeKeeps ==
    ASSUME Base, NEW c \in Calls, ChangeMemory(c), mem # None,
           NEW x \in Calls \ exposed', Charges(x), x = c \/ x \in mem.cost
    PROVE  x \in mem'.cost
<1>1. mem \in Content /\ mem' = Changed(c, mem)
  BY DEF ChangeMemory, Base, PlaceTypes
<1>2. CASE kind[c] = "increment"
  BY <1>1, <1>2 DEF Changed, Charged, Content
<1>3. CASE kind[c] = "rename"
  BY <1>1, <1>3 DEF Changed, Content, Charges
<1>4. CASE kind[c] = "title"
  <2>1. mem' = [title |-> c, cost |-> {c}]
    BY <1>1, <1>4 DEF Changed
  <2>2. x \notin mem.cost \ {c}
    BY <1>4 DEF ChangeMemory
  <2> QED BY <2>1, <2>2
<1> QED
  BY <1>2, <1>3, <1>4 DEF ChangeMemory

\* No place loses a cost, but to a call that reports it as exposed.
LEMMA PlacesKeep ==
    ASSUME Base, NEW c \in Calls, Step(c), NEW x \in Calls \ exposed', Charges(x),
           Kept(x), x \in acked \/ (x # c /\ pc[x] = "index")
    PROVE  Has(mem', x) /\ Has(meta', x) /\ (x \in acked => Has(idx', x))
<1> USE NoContent
<1>1. Has(mem, x) /\ Has(meta, x) /\ (x \in acked => Has(idx, x))
  BY DEF Kept
<1>2. ASSUME NEW e \in Content \cup {Empty}, Lands(c, e) PROVE Has(meta', x)
  BY <1>2, LandingKeeps DEF Lands
<1>3. CASE WriteTmp(c)
  <2>1. Body(c) \in Content
    BY <1>3, BodyType DEF WriteTmp, Base
  <2>2. file[c] = "meta" => Lands(c, Body(c))
    BY <1>3 DEF WriteTmp
  <2>3. file[c] # "meta" => meta' = meta
    BY <1>3 DEF WriteTmp, Base, PlaceTypes
  <2> QED BY <1>1, <1>2, <1>3, <2>1, <2>2, <2>3 DEF WriteTmp
<1>4. CASE RenameTmp(c)
  BY <1>1, <1>2, <1>4 DEF RenameTmp, Base, PlaceTypes
<1>5. CASE ChangeMemory(c)
  <2>1. mem # None => mem \in Content /\ x \in mem.cost
    BY <1>1 DEF Has, Base, PlaceTypes
  <2>2. mem # None => x \in mem'.cost
    BY <1>5, <2>1, ChangeKeeps
  <2>3. mem = None => mem' = mem
    BY <1>5 DEF ChangeMemory
  <2> QED BY <1>1, <1>5, <2>2, <2>3 DEF ChangeMemory, disk, Has
<1>6. CASE SaveCopies(c) \/ TakesOver(c) \/ Lookup(c)
  BY <1>1, <1>6 DEF SaveCopies, TakesOver, Refresh, Lookup, Read, disk, Has
<1>7. CASE SaveMakesDir(c) \/ SaveOpens(c) \/ OpenTmp(c) \/ RenameFails(c) \/ RemoveTmp(c)
  BY <1>1, <1>7 DEF SaveMakesDir, SaveOpens, OpenTmp, RenameFails, RemoveTmp, disk
<1>8. CASE DeleteFiles(c) \/ DeleteDir(c) \/ DeleteEntry(c) \/ SaveIndex(c)
  BY <1>1, <1>8 DEF DeleteFiles, DeleteDir, DeleteEntry, SaveIndex, disk, Has
<1> QED
  BY <1>3, <1>4, <1>5, <1>6, <1>7, <1>8, Steps

\* A call puts its own cost in a place before it goes on to the next.
LEMMA CallCharges ==
    ASSUME Base, NEW x \in Calls \ exposed', Step(x), Charges(x), Kept(x)
    PROVE  Kept(x)'
<1> USE NoContent
<1>1. x \notin acked
  BY StepMoves DEF Base, LabelInv, Label
<1>2. CASE SaveCopies(x) \/ SaveMakesDir(x) \/ SaveOpens(x)
  BY <1>1, <1>2 DEF SaveCopies, SaveMakesDir, SaveOpens, Breaks, Goes, history, Kept, Changer,
     Base, CallTypes, LabelInv, Label
<1>3. CASE OpenTmp(x)
  BY <1>1, <1>3 DEF OpenTmp, Goes, history, Kept, Changer, Charges, Base, CallTypes
<1>4. CASE WriteTmp(x)
  BY <1>1, <1>4 DEF WriteTmp, Goes, Kept, Changer, Base, CallTypes
<1>5. CASE RenameTmp(x)
  <2>1. tmp \in Content \cup {Empty} /\ Lands(x, tmp) /\ meta' = tmp
    BY <1>5 DEF RenameTmp, Lands, Base, PlaceTypes
  <2>2. Has(meta', x) /\ (LockFree(x) => meta' \in Content)
    BY <2>1, LandingKeeps
  <2>3. CASE LockFree(x)
    <3>1. pc' = [pc EXCEPT ![x] = "file"] /\ x \notin acked'
      BY <1>1, <1>5, <2>3 DEF RenameTmp, Goes
    <3> QED BY <2>2, <2>3, <3>1 DEF Kept, InFile, Has, Base, CallTypes
  <2>4. CASE ~LockFree(x)
    <3>1. pc' = [pc EXCEPT ![x] = "index"] /\ x \notin acked' /\ mem' = mem /\ pc[x] = "written"
      BY <1>1, <1>5, <2>4 DEF RenameTmp, Goes
    <3>2. Changer(x)
      BY <2>4, <3>1 DEF Base, LabelInv, Label
    <3> QED BY <2>2, <3>1, <3>2 DEF Kept, Base, CallTypes
  <2> QED BY <2>3, <2>4
<1>6. CASE RenameFails(x) \/ RemoveTmp(x)
  BY <1>1, <1>6 DEF RenameFails, RemoveTmp, Breaks, Goes, history, Kept, Base, CallTypes
<1>7. CASE TakesOver(x)
  <2>1. InFile(x) /\ \A d \in Calls : pc[d] \notin {"emptied", "removed"}
    BY <1>7 DEF TakesOver, Halfway, Kept, Unlocked, Base, LockInv, Holds
  <2>2. Has(mem', x) /\ Has(meta', x)
    BY <1>7, <2>1 DEF TakesOver, Refresh, Read, disk, InFile, Has
  <2>3. pc' = [pc EXCEPT ![x] = "index"] /\ x \notin acked'
    BY <1>1, <1>7 DEF TakesOver, Goes, history
  <2> QED BY <2>2, <2>3 DEF Kept, Base, CallTypes
<1>8. CASE ChangeMemory(x)
  <2>1. mem # None => x \in mem'.cost
    BY <1>8, ChangeKeeps
  <2>2. mem = None => pc' = [pc EXCEPT ![x] = "failed"]
    BY <1>8 DEF ChangeMemory, Goes
  <2>3. mem # None => pc' = [pc EXCEPT ![x] = "memory"]
    BY <1>8 DEF ChangeMemory, Goes
  <2>4. x \notin acked'
    BY <1>1, <1>8 DEF ChangeMemory
  <2> QED BY <2>1, <2>2, <2>3, <2>4 DEF Kept, Has, Base, CallTypes
<1>9. CASE SaveIndex(x)
  BY <1>1, <1>9 DEF SaveIndex, Goes, Kept, Has, Base, CallTypes
<1>10. ~DeleteFiles(x) /\ ~DeleteDir(x) /\ ~DeleteEntry(x) /\ ~Lookup(x)
  BY DEF DeleteFiles, DeleteDir, DeleteEntry, Lookup, Charges, Base, LabelInv, Label
<1> QED
  BY <1>2, <1>3, <1>4, <1>5, <1>6, <1>7, <1>8, <1>9, <1>10, Steps

\* The steps of other calls keep the cost of x.
LEMMA OthersKeep ==
    ASSUME Base, NEW c \in Calls, Step(c), NEW x \in Calls \ exposed', Charges(x),
           Kept(x), x # c
    PROVE  Kept(x)'
<1>1. pc'[x] = pc[x] /\ (x \in acked' => x \in acked)
  BY StepMoves DEF Base, CallTypes
<1>2. x \in acked' => Has(mem', x) /\ Has(meta', x) /\ Has(idx', x)
  BY <1>1, PlacesKeep
<1>3. pc'[x] = "index" => Has(mem', x) /\ Has(meta', x)
  BY <1>1, PlacesKeep
<1>4. pc'[x] = "file" => InFile(x)'
  BY <1>1, InFileStays
<1>5. Changer(x) /\ pc'[x] \in {"memory", "opened", "written"} => Has(mem', x)
  <2> SUFFICES ASSUME Changer(x), pc'[x] \in {"memory", "opened", "written"} PROVE Has(mem', x)
    OBVIOUS
  <2>1. Holds(x)
    BY <1>1 DEF Holds, Changer, LockFree
  <2>2. mem' = mem
    BY <2>1, OthersWait
  <2> QED BY <1>1, <2>2 DEF Kept
<1> QED
  BY <1>2, <1>3, <1>4, <1>5 DEF Kept, Has, Changer

LEMMA ChargeKept == ASSUME Base, ChargeInv, [Next]_vars PROVE ChargeInv'
<1>1. \A x \in Calls \ exposed' : Charges(x) => Kept(x)
  BY ExposedGrows DEF ChargeInv
<1>2. ASSUME NEW x \in Calls \ exposed', Charges(x) PROVE Kept(x)'
  <2>1. CASE \E c \in Calls : Step(c)
    BY <1>1, <1>2, <2>1, OthersKeep, CallCharges
  <2>2. CASE Restart
    <3>1. Kept(x)
      BY <1>1, <1>2
    <3>2. acked' = acked /\ meta' = meta /\ idx' = idx
          /\ mem' = IF idx = Missing THEN Read(meta) ELSE idx
      BY <2>2 DEF Restart, disk, history
    <3>3. pc'[x] \notin {"memory", "opened", "written", "file", "index"}
      BY <2>2 DEF Restart
    <3> QED BY <3>1, <3>2, <3>3, NoContent DEF Kept, Has, Read
  <2>3. CASE UNCHANGED vars
    BY <1>1, <1>2, <2>3 DEF vars, disk, history, Kept, Has, InFile, Changer
  <2> QED BY <2>1, <2>2, <2>3 DEF Next
<1> QED
  BY <1>2 DEF ChargeInv, Charges

\* What a returned call has charged is in memory and in the index, however calls
\* interleave and whenever the program crashes, unless another call has replaced
\* it by an older copy.
THEOREM ChargesAreKept == Spec => []ChargesKept
<1>1. Init => ChargeInv
  BY DEF Init, ChargeInv, Kept
<1>2. Base /\ ChargeInv /\ [Next]_vars => ChargeInv'
  BY ChargeKept
<1>3. Base /\ ChargeInv => ChargesKept
  BY DEF ChargeInv, Kept, ChargesKept, Charges, Has, Base, CallTypes, PlaceTypes
<1> QED
  BY <1>1, <1>2, <1>3, BaseHolds, PTL DEF Spec
=============================================================================
