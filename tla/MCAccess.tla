------------------------------ MODULE MCAccess ------------------------------
(* Small instances of Access: a track of four segments.                      *)
EXTENDS Access, TLC

Short == [preview |-> 15000, fanDownload |-> TRUE,  paidDownload |-> FALSE]
Long  == [preview |-> 30000, fanDownload |-> FALSE, paidDownload |-> TRUE]
Open  == {Short, Long}
Symmetric == Permutations(Requests)
=============================================================================
