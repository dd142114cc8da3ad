\* Chunks of one and two against buckets of one and two or none: a chunk may be larger
\* than what its bucket ever holds.
SPECIFICATION FairBuckets
CONSTANTS
    d1 = d1
    d2 = d2
    alice = alice
    Downloads = {d1, d2}
    Users = {alice}
    UserOf <- Owner
    Settings <- Rates
    Second = 1
    Chunk = 2
    MaxSent = 4
    MaxNow = 3
INVARIANTS
    RateHolds
    SharedRateHolds
    OwnCostOnly
PROPERTY ChunksPass
CHECK_DEADLOCK FALSE
