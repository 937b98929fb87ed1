SPECIFICATION Spec
CONSTANTS
    None = None
    Empty = Empty
    Missing = Missing
    new = new
    s1 = s1
    s2 = s2
    inc = inc
    ren = ren
    ttl = ttl
    del = del
    get = get
    Calls = {new, s1, s2, inc, ren, ttl, del, get}
    kind <- MCkind
    MaxCrashes = 1
SYMMETRY Symm
CHECK_DEADLOCK FALSE
INVARIANTS AgreeAtRest ChargesKept DeleteStays
