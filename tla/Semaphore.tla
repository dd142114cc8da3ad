------------------------------ MODULE Semaphore ------------------------------
(***************************************************************************)
(* What the concurrency slots of one listener promise: "Limiter enforces   *)
(* concurrency" (download/limiter.go:14).  A request takes a slot in one   *)
(* step, when fewer than the limit are taken, and gives it back; a restart *)
(* frees them all.  Slots implements this command by command over Redis,   *)
(* and Tickets relies on it.                                               *)
(***************************************************************************)
EXTENDS Naturals, FiniteSets

CONSTANTS
    Requests,
    Limit

VARIABLE holders    \* the requests that hold a slot

Init == holders = {}

Acquire(r) ==
    /\ r \notin holders
    /\ Cardinality(holders) < Limit
    /\ holders' = holders \cup {r}

Release(r) ==
    /\ r \in holders
    /\ holders' = holders \ {r}

Restart == holders' = {}

Next == (\E r \in Requests : Acquire(r) \/ Release(r)) \/ Restart

Spec == Init /\ [][Next]_holders
=============================================================================
