SPECIFICATION Spec
CONSTANTS
    j1 = j1
    j2 = j2
    j3 = j3
    s1 = s1
    s2 = s2
    Jobs = {j1, j2, j3}
    Sessions = {s1, s2}
    session <- MCsession
    MaxJobs = 2
    MaxPending = 2
CHECK_DEADLOCK FALSE
INVARIANTS JobLimit Tracked NoGhost NoteKept NotedOnce
SYMMETRY Symmetric
CONSTRAINT ShutdownMeetsTwo
