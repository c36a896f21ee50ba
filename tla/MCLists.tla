------------------------------ MODULE MCLists ------------------------------
(* Browsers, request slots, symbols and keys are interchangeable. *)
EXTENDS Lists, TLC

Interchangeable ==
  Permutations(Browsers) \cup Permutations(Requests) \cup Permutations(Symbols)
=============================================================================
