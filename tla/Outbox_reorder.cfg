CONSTANTS
    r1 = r1
    r2 = r2
    r3 = r3
    u1 = u1
    u2 = u2
    d1 = d1
    d2 = d2
    Rows = {r1, r2, r3}
    AggregateOf <- MCAggregateOf
    Dispatchers = {d1}
    BatchSize = 3
    MaxOpen = 1
    MaxFaults = 1
SPECIFICATION Spec
INVARIANTS FirstInOrder
CHECK_DEADLOCK FALSE
