------------------------------ MODULE MCReplay ------------------------------
(* One kind and one worker; magnitudes as in MCDetection. *)
EXTENDS Replay

EnterAtTwo == [k \in Kinds |-> 2]
ExitAtOne == [k \in Kinds |-> 1]
=============================================================================
