\* Two servers that start together, or one that is started again, and every fault.
SPECIFICATION FairSpec
CONSTANTS
    Servers = {s1, s2}
    MaxStarts = 2
    Faults = {"crash", "db", "ffmpeg", "disk"}
INVARIANTS
    LockedWhileMigrating
    SeedWhole
    SeedHonest
PROPERTY StartsEnd
CHECK_DEADLOCK FALSE
