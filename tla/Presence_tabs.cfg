CONSTANTS
    s1 = s1
    s2 = s2
    Sockets = {s1, s2}
    TTL = 3
    AuthTimeout = 1
    Interval = 1
    Delay = 1
    MaxFrames = 1
    MaxFaults = 1
SPECIFICATION LiveSpec
INVARIANTS TypeOK StaysOnline AnnouncementsBounded
PROPERTIES SilentGoesOffline
