----------------------------- MODULE Hysteresis -----------------------------
(***************************************************************************)
(* The episode state machine of server/src/domain/signals/hysteresis.ts:   *)
(* a pure function from one reading and the persisted state of its kind to *)
(* an outcome.                                                             *)
(*                                                                         *)
(* Abstractions.  A reading's value is its magnitude in fixed-point units  *)
(* (the code takes Math.abs first and never uses the sign again).  The     *)
(* flag in_episode is written together with episode_key in every branch    *)
(* of the code, so a state row is a key, or None outside an episode, and   *)
(* a peak.  entered_at always equals the second half of the key, and       *)
(* last_value and updated_at are never read back: all three are dropped.   *)
(***************************************************************************)
EXTENDS Integers

CONSTANTS
  None,     \* SQL NULL / JavaScript null
  Enter,    \* per kind: the magnitude at which an episode opens
  Exit      \* per kind: the magnitude below which it closes

(* Episode keys are `<discriminator>#<openedAt>`: unique and parseable. *)
makeEpisodeKey(disc, openedAt) == <<disc, openedAt>>
discriminatorOf(key) == key[1]

(* A state row outside any episode. *)
Quiet == [key |-> None, peak |-> 0]

(* A state row for an episode that opens on reading o at instant now. *)
Opened(o, now) == [key |-> makeEpisodeKey(o.disc, now), peak |-> o.value]

inEpisode(prior) == IF prior = None THEN FALSE ELSE prior.key # None

(* More than 15% above the peak; any positive reading when there is none. *)
isMaterialIncrease(current, peak) ==
  IF peak <= 0 THEN current > 0 ELSE 100 * current > 115 * peak

Larger(a, b) == IF a >= b THEN a ELSE b

Outcome(action, key, closing, state) ==
  [action |-> action, key |-> key, closing |-> closing, state |-> state]

(* A reading outside any episode. *)
StepOutside(o, now) ==
  IF o.value < Enter[o.kind]
  THEN Outcome("idle", None, None, Quiet)
  ELSE Outcome("open", makeEpisodeKey(o.disc, now), None, Opened(o, now))

(* Mutant: the new episode keeps the instant at which the old one opened. *)
StepChangedKeepingTime(o, prior, now) ==
  IF o.value >= Enter[o.kind]
  THEN Outcome("reopen", makeEpisodeKey(o.disc, prior.key[2]), prior.key,
               Opened(o, prior.key[2]))
  ELSE Outcome("close", prior.key, prior.key, Quiet)

(* A reading whose discriminator is not the one of the open episode. *)
StepChanged(o, prior, now) ==
  IF o.value >= Enter[o.kind]
  THEN Outcome("reopen", makeEpisodeKey(o.disc, now), prior.key, Opened(o, now))
  ELSE Outcome("close", prior.key, prior.key, Quiet)

(* Mutant: one threshold instead of two. *)
StepNoDeadBand(o, prior) ==
  IF o.value < Enter[o.kind]
  THEN Outcome("close", prior.key, prior.key, Quiet)
  ELSE Outcome("continue", prior.key, None,
               [key |-> prior.key, peak |-> Larger(prior.peak, o.value)])

(* A reading of the same episode: below exit it is over, 15% above the    *)
(* peak it is revised in place, in between there is nothing new to say.   *)
StepInside(o, prior) ==
  IF o.value < Exit[o.kind]
  THEN Outcome("close", prior.key, prior.key, Quiet)
  ELSE IF isMaterialIncrease(o.value, prior.peak)
       THEN Outcome("intensify", prior.key, None,
                    [key |-> prior.key, peak |-> o.value])
       ELSE Outcome("continue", prior.key, None,
                    [key |-> prior.key, peak |-> Larger(prior.peak, o.value)])

step(o, prior, now) ==
  IF ~inEpisode(prior) THEN StepOutside(o, now)
  ELSE IF discriminatorOf(prior.key) # o.disc THEN StepChanged(o, prior, now)
       ELSE StepInside(o, prior)
=============================================================================
