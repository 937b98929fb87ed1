SPECIFICATION BufferSpec
CONSTANTS
    Half = 3
    KillLimit = 11
    MaxChunk = 8
    MaxTotal = 20
CHECK_DEADLOCK FALSE
INVARIANTS HeadThenTail NeverOvercounts FiresOnce
