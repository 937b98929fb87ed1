SPECIFICATION Spec
CONSTANTS
    a = a
    b = b
    c = c
    d = d
    cancel = cancel
    clear = clear
    summary = summary
    None = None
    Calls <- TwoCalls
    Forced = {}
    Summarizers = {}
    Cancellers = {}
    AutoSummarize = TRUE
    MaxSummaries = 1
INVARIANTS TurnsSerialized
