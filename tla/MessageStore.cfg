SPECIFICATION Spec
CONSTANTS
    c1 = c1
    c2 = c2
    c3 = c3
    up = up
    del = del
    aft = aft
    idx = idx
    Writers = {c1, c2, c3, up, del, aft, idx}
    op <- MCop
    MaxCrashes = 2
CHECK_DEADLOCK FALSE
INVARIANTS LossBounded RemovedStays
PROPERTIES ImplementsLog
CONSTRAINT TwoAtATime
