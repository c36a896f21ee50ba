---------------------------- MODULE MCDetection ----------------------------
(***************************************************************************)
(* Instances of Detection for TLC.  Magnitudes: 0 is quiet, 1 lies in the  *)
(* dead band, 2 enters, 3 is more than 15% above 2.                        *)
(***************************************************************************)
EXTENDS Detection, TLC

EnterAtTwo == [k \in Kinds |-> 2]
ExitAtOne == [k \in Kinds |-> 1]
Interchangeable == Permutations(Workers) \cup Permutations(Discs)
=============================================================================
