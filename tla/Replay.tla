------------------------------- MODULE Replay -------------------------------
(***************************************************************************)
(* services/replay.ts: on every boot, before the scheduler starts, the     *)
(* last Sessions completed daily bars of a symbol are driven through the   *)
(* same detection cycle, each with the bar's own timestamp as `now`, on    *)
(* top of whatever signal_state the previous run of the process left.      *)
(*                                                                         *)
(* One unit of the clock is a session: the bar stamped t is complete once  *)
(* the clock has passed t.  A restart is graceful (the scheduler waits for *)
(* its tick), takes no time, and happens with no cycle in flight.          *)
(***************************************************************************)
EXTENDS Detection

CONSTANTS
  Sessions,   \* config.replay.sessions
  FirstBoot   \* the clock when the symbol is first replayed

VARIABLES
  bars,    \* what each completed session reads as: the same on every replay
  phase,   \* "down", "replay" or "live"
  cursor,  \* the next bar to replay
  boots    \* history: how often the process has started

rvars == <<vars, bars, phase, cursor, boots>>
boot  == <<bars, phase, cursor, boots>>

RInit ==
  /\ Init
  /\ bars \in [Times -> Observations(1)]
  /\ phase = "down" /\ cursor = 0 /\ boots = 0

allIdle == \A w \in Workers : pc[w] = "idle"
firstIndex == Larger(1, clock - Sessions)

(* bootstrap: replayMissing(watchedSymbols()), with no test for whether    *)
(* the symbol has signals already.                                         *)
Boot ==
  /\ phase # "replay" /\ allIdle
  /\ clock >= FirstBoot
  /\ phase' = "replay"
  /\ cursor' = firstIndex
  /\ boots' = boots + 1
  /\ UNCHANGED <<vars, bars>>

(* replaySymbol, one bar: detect({ quoteFromBar(bar), now: bar.ts }). *)
ReplayBar(w) ==
  /\ phase = "replay" /\ allIdle /\ cursor < clock
  /\ now' = [now EXCEPT ![w] = cursor]
  /\ asOf' = [asOf EXCEPT ![w] = cursor]
  /\ pc' = [pc EXCEPT ![w] = "read"]
  /\ cursor' = cursor + 1
  /\ UNCHANGED <<clock, quote, tables, snap, i, out, writes, bars, phase, boots>>

(* main: the scheduler starts when bootstrap has returned. *)
GoLive ==
  /\ phase = "replay" /\ allIdle /\ cursor >= clock
  /\ phase' = "live"
  /\ UNCHANGED <<vars, bars, cursor, boots>>

(* A replayed session is settled, so its price is fresh.  A live cycle is  *)
(* given the reading its session ends as: the case most favourable to the  *)
(* agreement of the two.                                                   *)
Reads(w) == Observe(w, bars[now[w]], TRUE)

CycleStep(w) ==
  \/ phase = "live" /\ (Begin(w) \/ SkipKind(w))
  \/ Fetch(w) \/ ReadStates(w) \/ Reads(w)
  \/ Supersede(w) \/ Insert(w) \/ Intensify(w) \/ PutStates(w)

RNext ==
  \/ Boot \/ GoLive
  \/ \E w \in Workers : ReplayBar(w)
  \/ phase # "replay" /\ Tick /\ UNCHANGED boot
  \/ \E w \in Workers : CycleStep(w) /\ UNCHANGED boot

RSpec == RInit /\ [][RNext]_rvars
-----------------------------------------------------------------------------
(* Restarting does not duplicate an episode: a replay announces no item of *)
(* a condition that was announced before and has stood, by the very bars   *)
(* it replays, ever since.                                                 *)
Stands(k, d, from, to) ==
  \A t \in from .. to : bars[t].disc = d /\ bars[t].value >= Exit[k]

NoDuplicateOnRestart ==
  [][\A k \in Kinds, d \in Discs, t \in Times :
       (phase = "replay" /\ <<k, <<d, t>>>> \in announced' \ announced) =>
         ~ \E from \in 0 .. t - 1 :
             <<k, <<d, from>>>> \in announced /\ Stands(k, d, from, t)]_rvars
=============================================================================
