\* One request at a time in a process that is not stopped, calls that do not fail; nobody
\* vouches for the creator id.
SPECIFICATION FairSpec
CONSTANTS
    Orders = {o1, o2}
    Requests = {r1}
    Writers = {}
    Users = {fan, artist}
    Creators = {artist, ghost}
    Tracks = {song}
    Amounts = {0, 1, 3}
    Price <- MCPrice
    Behaviours = {"success", "delayed", "timeout", "fail", "real"}
    SubDays = 2
    MaxDay = 2
    Faults = {}
PROPERTY PaidOrdersSettle
\* Order numbers and days run out.
CHECK_DEADLOCK FALSE
