------------------------------- MODULE Quotes -------------------------------
(***************************************************************************)
(* providers/reconcile.ts: one quote out of what several providers say.    *)
(*                                                                         *)
(* A raw quote is a record; prices are even integers, so that the midpoint *)
(* of two is one too, and a price that is not finite is a price of 0.      *)
(* Spreads are in basis points, confidence in hundredths; the logarithm in *)
(* the conflict penalty counts octaves, one that has begun in full.  A     *)
(* stored conflict is its spread (0 for none) and the lowest and highest   *)
(* of the prices it lists.                                                 *)
(***************************************************************************)
EXTENDS Integers, FiniteSets, FiniteSetsExt

CONSTANTS
  FreshMs, DelayedMs,   \* config.freshness, in ticks
  Future,       \* a minute: how far ahead of us a timestamp may be
  Grace,        \* 90 minutes: how far the closing print may lag the bell
  Tolerance,    \* reconcile.tolerance, in basis points
  Preference,   \* provider -> place in the order of preference
  MinBars       \* minBarsForStats

ASSUME FreshnessAssumption ==
  /\ {FreshMs, DelayedMs, Future, Grace} \subseteq Nat
  /\ FreshMs <= DelayedMs /\ Tolerance \in Nat \ {0} /\ MinBars \in Nat \ {0}

Freshnesses == {"fresh", "delayed", "stale", "closed", "unknown"}

classifyFreshness(asOf, now, marketOpen, lastClose) ==
  LET age == now - asOf
  IN CASE age < -Future -> "unknown"
       [] age >= -Future /\ ~marketOpen ->
            IF asOf >= lastClose - Grace THEN "closed" ELSE "stale"
       [] age >= -Future /\ marketOpen ->
            IF age <= FreshMs THEN "fresh"
            ELSE IF age <= DelayedMs THEN "delayed" ELSE "stale"

(* Hundredths lost to age. *)
Doubt == [fresh |-> 100, closed |-> 100, delayed |-> 85, stale |-> 40, unknown |-> 30]

(* One share less per octave above the tolerance, begun ones included. *)
ConflictFactor(spread) ==
  CASE spread <= Tolerance -> 100
    [] spread \in Tolerance + 1 .. 2 * Tolerance -> 50
    [] spread \in 2 * Tolerance + 1 .. 4 * Tolerance -> 33
    [] OTHER -> 25

HistoryFactor(bars) ==
  IF bars >= MinBars THEN 100
  ELSE LET f == (100 * bars) \div MinBars IN IF f < 35 THEN 35 ELSE f

Share(c, factor) == (c * factor) \div 100

(* Each reason for doubt compounds. *)
computeConfidence(freshness, spread, halted, bars) ==
  Share(Share(Share(Doubt[freshness], ConflictFactor(spread)), IF halted THEN 60 ELSE 100),
        HistoryFactor(bars))

Usable(raws) == {r \in raws : r.price > 0 /\ r.prevClose > 0}

Prices(raws) == {r.price : r \in raws}
Spread(raws) ==
  LET lo == Min(Prices(raws))
      hi == Max(Prices(raws))
  IN (20000 * (hi - lo)) \div (hi + lo)

(* By preference, the fresher first among equals. *)
Before(a, b) ==
  \/ Preference[a.source] < Preference[b.source]
  \/ Preference[a.source] = Preference[b.source] /\ a.asOf > b.asOf
Lead(raws) == CHOOSE r \in raws : \A s \in raws : ~Before(s, r)

Conflicted(raws) == Cardinality(raws) > 1 /\ Spread(raws) > Tolerance

(* The k-th of the prices in their order. *)
Ranked(raws, k) ==
  CHOOSE p \in Prices(raws) : /\ Cardinality({r \in raws : r.price < p}) < k
                              /\ Cardinality({r \in raws : r.price <= p}) >= k

(* The median of the prices: neither of two sources wins. *)
MedianPrice(raws) ==
  LET n == Cardinality(raws)
  IN IF n % 2 = 1 THEN Ranked(raws, (n + 1) \div 2)
     ELSE (Ranked(raws, n \div 2) + Ranked(raws, n \div 2 + 1)) \div 2

(* Mutant: the day's range is taken over from the leading source as it is. *)
DayRangeAsReported(lead, price) == [high |-> lead.dayHigh, low |-> lead.dayLow]

(* The range of the leading source, stretched to include the price. *)
DayRange(lead, price) ==
  [high |-> Max({lead.dayHigh, price}), low |-> Min({lead.dayLow, price})]

(* The rows of quotes_latest. *)
QuoteRows ==
  [price : Nat \ {0}, prevClose : Nat \ {0}, dayOpen : Int, dayHigh : Int, dayLow : Int,
   volume : Int, asOf : Int, halted : BOOLEAN, conflict : Nat, low : Int, high : Int,
   confidence : 0 .. 100]

(* The quote to store; the code returns null when no source is usable. *)
reconcileQuotes(raws, now, bars, marketOpen, lastClose) ==
  LET usable == Usable(raws)
      lead   == Lead(usable)
      price  == IF Conflicted(usable) THEN MedianPrice(usable) ELSE lead.price
      asOf   == Max({r.asOf : r \in usable})
      spread == IF Conflicted(usable) THEN Spread(usable) ELSE 0
      halted == \E r \in usable : r.halted
      range  == DayRange(lead, price)
  IN [price      |-> price,
      prevClose  |-> lead.prevClose,
      dayOpen    |-> lead.dayOpen,
      dayHigh    |-> range.high,
      dayLow     |-> range.low,
      volume     |-> Max({r.volume : r \in usable}),
      asOf       |-> asOf,
      halted     |-> halted,
      conflict   |-> spread,
      low        |-> Min(Prices(usable)),
      high       |-> Max(Prices(usable)),
      confidence |-> computeConfidence(
        classifyFreshness(asOf, now, marketOpen, lastClose), spread, halted, bars)]
=============================================================================
