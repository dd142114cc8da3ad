----------------------------- MODULE MCTranscode -----------------------------
(* Small instances of Transcode.  Every track has the same content.            *)
EXTENDS Transcode, TLC

SameContent == [t \in Tracks |-> "sha"]
=============================================================================
