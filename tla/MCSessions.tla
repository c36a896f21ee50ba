----------------------------- MODULE MCSessions -----------------------------
(* The tabs are alike, and so are the tokens. *)
EXTENDS Sessions, TLC

Symmetry == Permutations(Tabs) \cup Permutations(Tokens)
=============================================================================
