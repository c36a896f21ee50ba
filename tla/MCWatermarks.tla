---------------------------- MODULE MCWatermarks ----------------------------
(* Instances of Watermarks for TLC: devices and signals are interchangeable. *)
EXTENDS Watermarks, TLC

Interchangeable == Permutations(Devices) \cup Permutations(Signals)
=============================================================================
