---------------------------- MODULE MCSessions ----------------------------
(* Small instances of Sessions: the artist, and a creator of other tracks.        *)
EXTENDS Sessions, TLC

CONSTANTS artist, rival, hidden

Roles == [u \in Users |-> "CREATOR"]
Bodies == {Keep, [Keep EXCEPT ![hidden] = "on"]}
Symmetric == Permutations(Tabs) \cup Permutations(Requests) \cup Permutations(Sids)
=============================================================================
