\* Three requests racing over two orders, failing calls and restarts.
SPECIFICATION Spec
CONSTANTS
    Orders = {o1, o2}
    Requests = {r1, r2, r3}
    Writers = {w1}
    Users = {fan, artist}
    Creators = {artist, ghost}
    Tracks = {song}
    Amounts = {0, 1, 3}
    Price <- MCPrice
    Behaviours = {"success", "delayed", "fail", "real"}
    SubDays = 2
    MaxDay = 3
    Faults = {"call", "crash"}
SYMMETRY Symmetric
INVARIANTS
    GrantedAtMostOnce
    IssuedOnlyWhenPaid
    NeverOverstated
    SubscriptionPaidFor
    SettledUnlessCutOrRaced
PROPERTIES
    ImplementsPromise
