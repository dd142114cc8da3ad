---------------------------- MODULE MCResponses ----------------------------
(* Small instances of Responses. *)
EXTENDS Responses, TLC

Symmetric == Permutations(Requests) \cup Permutations(Envelopes)
=============================================================================
