\* One ticket, three requests of which two hold a slot.
SPECIFICATION Spec
CONSTANTS
    Nonces = {k1}
    Requests = {r1, r2, r3}
    Size = 20
    Headers <- Asking
    Sent = {0, 9, 10, 21}
    MaxUses = 1
    MaxConc = 2
    DailyLimit = 1
    MaxBytes = 41
    Faults = {"cancel", "redis", "db", "crash"}
SYMMETRY Symmetric
INVARIANTS
    UsesMeanBytes
    DailyNeverOverstated
    DailyOverrun
    ChargedOnce
PROPERTY ExhaustedIsFinal
