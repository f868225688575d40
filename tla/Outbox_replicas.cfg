CONSTANTS
    r1 = r1
    r2 = r2
    r3 = r3
    u1 = u1
    u2 = u2
    d1 = d1
    d2 = d2
    Rows = {r1, r2, r3}
    AggregateOf <- MCAggregateOf
    Dispatchers = {d1, d2}
    BatchSize = 2
    MaxOpen = 2
    MaxFaults = 1
SPECIFICATION Spec
INVARIANTS TypeOK OrderKept CopiesBounded
PROPERTIES PromiseSpec EverythingDispatched
CHECK_DEADLOCK FALSE
