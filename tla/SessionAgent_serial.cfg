SPECIFICATION Spec
CONSTANTS
    a = a
    b = b
    c = c
    d = d
    cancel = cancel
    clear = clear
    summary = summary
    None = None
    Calls <- FourCalls
    Forced = {}
    Summarizers = {}
    Cancellers = {cancel, clear}
    AutoSummarize = FALSE
    MaxSummaries = 0
INVARIANTS TurnsSerialized
PROPERTIES ImplementsSerial OneTurnPerCall CancelStopsDispatch
