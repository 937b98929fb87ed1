SPECIFICATION FairSpec
CONSTANTS
    Sent = 2
    MaxRuns = 2
    MaxExpiries = 1
    MaxLapses = 1
    MaxCrashes = 1
CHECK_DEADLOCK FALSE
CONSTRAINT OneEvent
INVARIANTS HandledOnce OneLoop
PROPERTIES LogoutEnds
