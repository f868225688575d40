CONSTANTS
    ann = ann
    c1 = c1
    c2 = c2
    Users = {ann}
    Avatars = {"picture"}
    Replicas = {c1, c2}
    MaxRetries = 2
    MaxTrades = 2
    MaxEvents = 2
    MaxTrouble = 1
    None = None
SPECIFICATION FairSpec
INVARIANTS TypeOK ItemsAccountedFor
PROPERTIES FirstWordNames EveryoneGetsAProfile
CHECK_DEADLOCK FALSE
