------------------------------ MODULE MCIngest ------------------------------
(* Instances of Ingest for TLC: the workers are interchangeable. *)
EXTENDS Ingest, TLC

Interchangeable == Permutations(Workers)
=============================================================================
