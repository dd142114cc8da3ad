\* Three answers: one that is over, one being encoded, one that begins.
SPECIFICATION ResponsesSpec
CONSTANTS
    Requests = {r1, r2, r3}
    Envelopes = {e1, e2, e3}
SYMMETRY Symmetric
INVARIANT OwnOrOverlapping
CHECK_DEADLOCK FALSE
