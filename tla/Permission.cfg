SPECIFICATION FairSpec
CONSTANTS
    r1 = r1
    r2 = r2
    r3 = r3
    r4 = r4
    k1 = k1
    k2 = k2
    s1 = s1
    s2 = s2
    tui = tui
    None = None
    Requests = {r1, r2, r3, r4}
    Clients = {tui}
    Keys = {k1, k2}
    Sessions = {s1, s2}
    key <- MCkey
    session <- MCsession
    PreApproved = {r4}
CHECK_DEADLOCK FALSE
INVARIANTS OneAtATime Authorized DenialHolds
PROPERTIES EveryRequestReturns
