CONSTANTS
    ann = ann
    j1 = j1
    j2 = j2
    w1 = w1
    w2 = w2
    Ids = {ann}
    Rows <- MCRows
    Jtis = {j1}
    Workers = {w1, w2}
    Second = 2
    RefreshTTL = 2
    MaxNow = 5
    MaxAudits = 2
    Faults = {"abort", "redis"}
    None = None
SPECIFICATION Spec
INVARIANTS TypeOK AnswersAreCurrent EverySessionAudited
PROPERTIES LogoutHoldsToTheLastSecond
CHECK_DEADLOCK FALSE
