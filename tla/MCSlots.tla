------------------------------- MODULE MCSlots -------------------------------
(* Small instances of Slots. *)
EXTENDS Slots, TLC

Symmetric == Permutations(Requests)
=============================================================================
