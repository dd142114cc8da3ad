\* A call of Fulfill fails after the order was marked.
SPECIFICATION Spec
CONSTANTS
    Orders = {o1}
    Requests = {r1, r2}
    Writers = {}
    Users = {fan, artist}
    Creators = {artist}
    Tracks = {song}
    Amounts = {0, 1, 3}
    Price <- MCPrice
    Behaviours = {"success", "delayed"}
    SubDays = 2
    MaxDay = 1
    Faults = {"call"}
INVARIANT PaidUnlocks
CHECK_DEADLOCK FALSE
