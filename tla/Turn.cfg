SPECIFICATION Spec
CONSTANTS
    g1 = g1
    Guidance = {g1}
    MaxTurns = 1
    MaxSteps = 2
    MaxCalls = 2
    MaxCrashes = 2
CONSTRAINT FewCalls
CHECK_DEADLOCK FALSE
INVARIANTS PromptWellFormed TranscriptComplete
PROPERTIES GuidanceSeen
