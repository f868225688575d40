CONSTANTS
    r1 = r1
    r2 = r2
    bare = bare
    Replicas = {r1, r2, bare}
    Migrating = {r1, r2}
    Streaming = {r1, r2}
    AdminEmail = "admin@arcadia.com"
    Stored = "admin@arcadia.com"
    MaxMishaps = 2
SPECIFICATION LifespanLiveSpec
INVARIANTS LifespanTypeOK ReadyIsSeeded AdaptersUsable
PROPERTIES EveryReplicaServes
CHECK_DEADLOCK FALSE
