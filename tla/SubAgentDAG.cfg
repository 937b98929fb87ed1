SPECIFICATION FairSpec
CONSTANTS
    t1 = t1
    t2 = t2
    t3 = t3
    Unknown = Unknown
    Tasks = {t1, t2, t3}
    MaxDeps = 2
CHECK_DEADLOCK FALSE
INVARIANTS StatusesPartition StartsAfterDeps CycleVerdict BlockedIsDoomed
PROPERTIES BatchEnds
