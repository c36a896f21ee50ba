------------------------- MODULE MCDetectionSerial -------------------------
(***************************************************************************)
(* One worker, two kinds: kind 1 is a market kind, kind 2 a state kind.    *)
(* Magnitudes as in MCDetection: 0 quiet, 1 dead band, 2 enters, 3 deepens.*)
(***************************************************************************)
EXTENDS DetectionSerial

EnterAtTwo == [k \in Kinds |-> 2]
ExitAtOne == [k \in Kinds |-> 1]
=============================================================================
