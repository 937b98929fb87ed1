SPECIFICATION FairSpec
CONSTANTS
    a = a
    b = b
    c = c
    d = d
    cancel = cancel
    clear = clear
    summary = summary
    None = None
    Calls <- ThreeCalls
    Forced = {c}
    Summarizers = {}
    Cancellers = {cancel}
    AutoSummarize = TRUE
    MaxSummaries = 1
INVARIANTS NoLostCall NoOrphanedQueue
 
