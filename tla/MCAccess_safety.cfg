\* A fan, the artist and a visitor; two requests; settings, subscription and grants that
\* change between any two queries, which may fail.
SPECIFICATION Spec
CONSTANTS
    Users = {fan, artist}
    Owner = artist
    NoUser = visitor
    Duration = 20000
    Segments = 4
    Settings <- Open
    Default <- Short
    Moments = {15001}
    SubTerm = 1
    StreamTTL = 1
    RequestTime = 1
    Requests = {e1, e2}
    Faults = {"db"}
SYMMETRY Symmetric
INVARIANTS
    TicketWhenAsked
    EntitledHearsAll
    DecideFollowsMatrix
PROPERTY HeardInTime
