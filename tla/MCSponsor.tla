------------------------------ MODULE MCSponsor ------------------------------
(* Small instances of Sponsor.  Orders, requests, users, creators and works  *)
(* are model values of the .cfg files.                                       *)
EXTENDS Sponsor, TLC

\* With amounts 0, 1 and 3: the default, one that is refused, a generous one.
MCPrice == [t \in Tracks |-> 2]

\* No definition of Sponsor tells two order numbers or two requests apart.
Symmetric == Permutations(Orders) \cup Permutations(Requests)
=============================================================================
