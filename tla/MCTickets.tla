------------------------------ MODULE MCTickets ------------------------------
(* Small instances of Tickets: a file of 20 units fetched whole or in halves,  *)
(* so that 19 units complete it.                                               *)
EXTENDS Tickets, TLC

Symmetric == Permutations(Nonces) \cup Permutations(Requests)

\* No header, one of each form, one cut at the end of the file and one past it.
Asking ==
    LET Header(first, last) == [first |-> first, last |-> last]
    IN  {Header(Missing, Missing), Header(0, 9), Header(11, Missing),
         Header(Missing, 9), Header(10, 40), Header(20, 30)}
=============================================================================
