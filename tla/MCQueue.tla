------------------------------ MODULE MCQueue ------------------------------
(* Instances, slots and symbols are interchangeable. *)
EXTENDS Queue, TLC

Interchangeable ==
  Permutations(Instances) \cup Permutations(Slots) \cup Permutations(Symbols)
=============================================================================
