------------------------------ MODULE Episodes ------------------------------
(***************************************************************************)
(* What the detection engine promises a reader about one symbol: per kind  *)
(* at most one standing item, an item announced exactly once for as long   *)
(* as it stands, and no announcement for a condition that was already      *)
(* standing when the symbol was first looked at.                           *)
(***************************************************************************)
EXTENDS Integers

CONSTANTS Kinds, StateKinds, Discs, None

VARIABLES
  open,   \* kind -> discriminator of the standing item, or None
  told,   \* kind -> number of announcements so far
  known   \* the kinds that have been looked at

vars == <<open, told, known>>

Init ==
  /\ open = [k \in Kinds |-> None]
  /\ told = [k \in Kinds |-> 0]
  /\ known = {}

(* A new item, or the same condition in a new character. *)
Announce(k, d) ==
  /\ open[k] # d
  /\ open' = [open EXCEPT ![k] = d]
  /\ told' = [told EXCEPT ![k] = @ + 1]
  /\ UNCHANGED known

(* Items subside in silence; a standing condition is taken over in silence *)
(* when its kind is looked at for the first time, never later.  A cycle    *)
(* settles all its kinds in one write.                                     *)
MaySettle(k, d) ==
  \/ d = open[k]
  \/ d = None
  \/ k \in StateKinds /\ k \notin known /\ k \in known'

Settle ==
  /\ open' \in [Kinds -> Discs \cup {None}]
  /\ known' \in SUBSET Kinds /\ known \subseteq known'
  /\ \A k \in Kinds : MaySettle(k, open'[k])
  /\ UNCHANGED told

Next == Settle \/ \E k \in Kinds, d \in Discs : Announce(k, d)

Spec == Init /\ [][Next]_vars
=============================================================================
