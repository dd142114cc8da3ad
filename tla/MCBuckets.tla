------------------------------ MODULE MCBuckets ------------------------------
(* Small instances of Buckets: all downloads are of one listener. *)
EXTENDS Buckets

CONSTANTS d1, d2, alice

Owner == [d \in Downloads |-> alice]

\* The rate of each listener and of all of them: one of them off, or both small.
Rate(user, all) == [b \in Buckets |-> IF b = Global THEN all ELSE user]
Rates == {Rate(1, 0), Rate(0, 2), Rate(2, 1)}
=============================================================================
