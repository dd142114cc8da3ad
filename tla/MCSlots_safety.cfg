\* Every fault: failed calls and restarts leave counts behind, the key expires, also
\* under a request.
SPECIFICATION FairSpec
CONSTANTS
    Requests = {r1, r2}
    MaxConc = 1
    KeyTTL = 3
    RequestTime = 2
    Cap = 3
    Faults = {"crash", "redis", "gap"}
INVARIANTS
    
    CountIsExact
PROPERTY EveryRequestEnds
