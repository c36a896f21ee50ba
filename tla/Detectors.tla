----------------------------- MODULE Detectors ------------------------------
(***************************************************************************)
(* domain/signals/detectors.ts: the ten detectors, pure functions from the *)
(* context of a symbol to a reading of their kind, or None when they have  *)
(* nothing to measure.                                                     *)
(*                                                                         *)
(* A context is a record: quote and stats (or None), freshness, the keys   *)
(* and shares the clock derives from it, the benchmark's quote and the     *)
(* sector proxy's (or None).  A reading carries its value in hundredths    *)
(* with its sign and, where the detector reports one, the evidence `sigma`;*)
(* the rest of the evidence and headlines are left out.  The thresholds a  *)
(* reading carries are Enter and Exit of the episode machine.              *)
(***************************************************************************)
EXTENDS Stats, Hysteresis

CONSTANTS
  Staleness,      \* thresholds.staleMs, in ticks
  EnoughBars,     \* thresholds.minBarsForStats
  TrendBars,      \* 55
  RegimeBars,     \* 40
  BreakBuffer,    \* rangeBreakBuffer, in basis points
  Buckets         \* drawdownBuckets, in percent

ASSUME ThresholdsAssumption ==
  /\ Staleness \in Nat \ {0} /\ BreakBuffer \in Nat \ {0}
  /\ {EnoughBars, TrendBars, RegimeBars} \subseteq Nat /\ Buckets \subseteq Nat \ {0}

DetectorKinds ==
  {"sigma_move", "idio_move", "gap", "range_break", "volume_spike",
   "trend_flip", "vol_regime", "drawdown", "stale_data", "data_conflict"}
INTEGRITY_KINDS == {"stale_data", "data_conflict"}
STATE_KINDS == {"trend_flip", "vol_regime", "drawdown", "range_break"}

dirOf(x) == IF x > 0 THEN "up" ELSE IF x < 0 THEN "down" ELSE "neutral"

hasStats(ctx) ==
  IF ctx.stats = None THEN FALSE
  ELSE ctx.stats.bars >= EnoughBars /\ ctx.stats.sigmaDaily > 0

(* Floors: a tick in the first seconds is not an infinite sigma. *)
elapsedSessions(ctx) == Most(15, ctx.progress)
VolumePace(ctx) == Most(8, ctx.progress)

(* Both prices are positive: reconcileQuotes lets no other quote through. *)
sessionReturn(q) == Return(q.price, q.prevClose)

Reading(kind, value, direction, severity, disc) ==
  [kind |-> kind, value |-> value, direction |-> direction, severity |-> severity,
   disc |-> disc, sigma |-> None]

(* "Nothing to see here": what closes an open episode. *)
inactive(kind, disc) == Reading(kind, 0, "neutral", 0, disc)

-----------------------------------------------------------------------------
sigmaMove(ctx) ==
  LET ret == sessionReturn(ctx.quote)
      expected == horizonSigma(ctx.stats.sigmaDaily, elapsedSessions(ctx))
      z == Quot(100 * ret, expected)
  IN IF ~hasStats(ctx) THEN None
     ELSE IF expected <= 0 THEN None
     ELSE [Reading("sigma_move", z, dirOf(z), saturate(z, 400), <<ctx.session, dirOf(z)>>)
           EXCEPT !.sigma = Abs(z)]

(* The sector's move of the day, when its proxy has a quote. *)
SectorMove(ctx) ==
  IF ctx.sector = None THEN [known |-> FALSE, ret |-> 0]
  ELSE [known |-> TRUE, ret |-> sessionReturn(ctx.sector)]

Parts(ctx) ==
  attribute(sessionReturn(ctx.quote), sessionReturn(ctx.benchmark), SectorMove(ctx),
            ctx.stats.beta, ctx.stats.betaSector, ctx.stats.sectorMarketBeta)

(* The factors account for the move: what they leave is less than half of  *)
(* what they explain.                                                      *)
marketExplains(parts) ==
  LET explained == parts.market + parts.sector
  IN explained # 0 /\ 2 * Abs(parts.idiosyncratic) < Abs(explained)

idioMove(ctx) ==
  LET parts == Parts(ctx)
      expected == horizonSigma(ctx.stats.residSigma, elapsedSessions(ctx))
      z == Quot(100 * parts.idiosyncratic, expected)
      along == marketExplains(parts)
  IN IF ~hasStats(ctx) \/ ctx.benchmark = None THEN None
     ELSE IF expected <= 0 THEN None
     ELSE [Reading("idio_move", IF along THEN 0 ELSE z, dirOf(z), saturate(z, 350),
                   <<ctx.session, dirOf(z)>>)
           EXCEPT !.sigma = Abs(z)]

gap(ctx) ==
  LET q == ctx.quote
      change == Return(q.dayOpen, q.prevClose)
      multiple == Quot(100 * change, ctx.stats.atrPct)
  IN IF ~hasStats(ctx) \/ q.dayOpen <= 0 THEN None
     ELSE IF ctx.stats.atrPct <= 0 THEN None
     ELSE Reading("gap", multiple, dirOf(change), saturate(multiple, 300),
                  <<ctx.session, dirOf(change)>>)

(* A level is broken when the price is beyond it by more than the buffer. *)
Above(price, level) == level > 0 /\ 10000 * price > level * (10000 + BreakBuffer)
Below(price, level) == level > 0 /\ 10000 * price < level * (10000 - BreakBuffer)

Break(price, level, scope, direction, weight) ==
  LET overshoot == Abs(Return(price, level))
  IN Reading("range_break", 100 + (100 * overshoot) \div BreakBuffer, direction,
             Least(100, (weight * (55 + (45 * saturate(overshoot, 500)) \div 100)) \div 100),
             scope)

(* The 52-week extremes first, the 30-day ones when neither is broken. *)
rangeBreak(ctx) ==
  LET p == ctx.quote.price
      s == ctx.stats
  IN IF ~hasStats(ctx) THEN None
     ELSE CASE Above(p, s.hi52w) -> Break(p, s.hi52w, "52-week high", "up", 100)
            [] ~Above(p, s.hi52w) /\ Below(p, s.lo52w) ->
                 Break(p, s.lo52w, "52-week low", "down", 100)
            [] OTHER ->
                 CASE Above(p, s.hi30d) -> Break(p, s.hi30d, "30-day high", "up", 60)
                   [] ~Above(p, s.hi30d) /\ Below(p, s.lo30d) ->
                        Break(p, s.lo30d, "30-day low", "down", 60)
                   [] OTHER -> inactive("range_break", "none")

volumeSpike(ctx) ==
  LET expected == (ctx.stats.medVol20 * VolumePace(ctx)) \div 100
      rvol == (100 * ctx.quote.volume) \div expected
  IN IF ~hasStats(ctx) THEN None
     ELSE IF expected <= 0 THEN None
     ELSE Reading("volume_spike", rvol, dirOf(sessionReturn(ctx.quote)),
                  saturate(rvol - 100, 400), ctx.session)

trendFlip(ctx) ==
  LET s == ctx.stats
      spread == Return(s.sma20, s.sma50)
      margin == Most(40, s.sigmaDaily \div 2)
  IN IF ~hasStats(ctx) THEN None
     ELSE IF s.sma20 <= 0 \/ s.sma50 <= 0 \/ s.bars < TrendBars THEN None
     ELSE Reading("trend_flip", (100 * Abs(spread)) \div margin,
                  IF spread > 0 THEN "up" ELSE "down",
                  Least(70, 30 + (40 * saturate(spread, 400)) \div 100),
                  IF spread > 0 THEN "above" ELSE "below")

volRegime(ctx) ==
  LET s == ctx.stats
      ratio == (100 * s.sigmaShort) \div s.sigmaDaily
  IN IF ~hasStats(ctx) THEN None
     ELSE IF s.sigmaShort <= 0 \/ s.bars < RegimeBars THEN None
     ELSE Reading("vol_regime", ratio, "neutral", Least(85, saturate(ratio - 100, 150)),
                  "elevated")

(* The deepest bucket the drawdown has reached, 0 for none. *)
BucketOf(drop) == Max({0} \cup {b \in Buckets : drop >= 100 * b})

drawdown(ctx) ==
  LET reached == BucketOf(drawdownFromPeak(ctx.quote.price, ctx.stats.peak52w))
  IN IF ~hasStats(ctx) THEN None
     ELSE IF ctx.stats.peak52w <= 0 THEN None
     ELSE IF reached = 0 THEN inactive("drawdown", 0)
     ELSE Reading("drawdown", 100 + reached, "down", Least(100, 30 + reached), reached)

(* A closed market is not an outage, and closes what was open. *)
staleData(ctx) ==
  LET ratio == (100 * (ctx.now - ctx.quote.asOf)) \div Staleness
  IN IF ctx.freshness = "closed" THEN inactive("stale_data", "none")
     ELSE Reading("stale_data", ratio, "neutral",
                  Least(90, 40 + saturate(ratio - 100, 300) \div 2), "stale")

dataConflict(ctx) ==
  LET spread == ctx.quote.conflict
  IN IF spread = 0 THEN inactive("data_conflict", "none")
     ELSE Reading("data_conflict", 100 + spread, "neutral",
                  Least(80, 35 + (45 * saturate(spread, 200)) \div 100), "conflict")

(* The registry the engine runs through: kind -> reading or None. *)
DETECTORS(ctx) ==
  [sigma_move |-> sigmaMove(ctx), idio_move |-> idioMove(ctx), gap |-> gap(ctx),
   range_break |-> rangeBreak(ctx), volume_spike |-> volumeSpike(ctx),
   trend_flip |-> trendFlip(ctx), vol_regime |-> volRegime(ctx),
   drawdown |-> drawdown(ctx), stale_data |-> staleData(ctx),
   data_conflict |-> dataConflict(ctx)]
=============================================================================
