SPECIFICATION FairSpec
CONSTANTS
    q1 = q1
    q2 = q2
    tui = tui
    web = web
    None = None
    Asks = {q1, q2}
    Clients = {tui, web}
CHECK_DEADLOCK FALSE
INVARIANTS ResponseIsFresh SlotIsLive
PROPERTIES EveryAskReturns
