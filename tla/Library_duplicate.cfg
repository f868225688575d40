CONSTANTS
    ann = ann
    k1 = k1
    c1 = c1
    c2 = c2
    Keys = {k1}
    Owners = {ann}
    OwnerOf <- MCOwnerOf
    Replicas = {c1, c2}
    MaxRetries = 3
    MaxLog = 1
    MaxFaults = 0
    MaxMoves = 1
    MaxRows = 2
    None = None
SPECIFICATION Spec
INVARIANTS NoDuplicates
CHECK_DEADLOCK FALSE
