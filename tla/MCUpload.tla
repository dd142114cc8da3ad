------------------------------ MODULE MCUpload ------------------------------
(* Small instances of Upload: songs of two chunks, the second not a full one. *)
EXTENDS Upload, TLC

MiB == 1024 * 1024
Sizes == [c \in Contents |-> 6 * MiB]
Symmetric == Permutations(Files) \cup Permutations(Requests) \cup Permutations(Uploads)
=============================================================================
