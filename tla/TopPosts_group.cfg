CONSTANTS
    p1 = p1
    p2 = p2
    p3 = p3
    c1 = c1
    c2 = c2
    Posts = {p1, p2, p3}
    Scores = {1, 2}
    Replicas = {c1, c2}
    MaxTop = 2
    MaxRetries = 2
    MaxLog = 3
    MaxTrouble = 1
    MaxRows = 5
    None = None
SPECIFICATION Spec
SYMMETRY Alike
INVARIANTS TypeOK OnceOnShelf
PROPERTIES LikeTheAggregate
CHECK_DEADLOCK FALSE
