------------------------------- MODULE Stats --------------------------------
(***************************************************************************)
(* domain/stats.ts: the statistics of one instrument, computed from its    *)
(* daily bars, the bars of the benchmark and those of its sector's proxy.  *)
(*                                                                         *)
(* Fixed point: prices are integers, returns and volatilities are in basis *)
(* points, betas and ratios in hundredths, each rounded towards zero.  The *)
(* logarithm of a price ratio is replaced by the relative change, which    *)
(* has its sign and its order.  EPS is zero.  A bar's `adj` is 0 where the *)
(* code has no usable adjusted close.                                      *)
(***************************************************************************)
EXTENDS Integers, Sequences, SequencesExt

CONSTANTS
  MinPairs,        \* 10: fewer pairs of returns give no beta
  MinFactorPairs,  \* 30: fewer triples give no sector factor
  Spans            \* the lookbacks, in bars (252, 30, 90, 10, 14, 20, 20, 50)

ASSUME SpansAssumption ==
  /\ Spans \in [year : Nat \ {0}, month : Nat \ {0}, vol : Nat \ {0}, short : Nat \ {0},
                atr : Nat \ {0}, volume : Nat \ {0}, fast : Nat \ {0}, slow : Nat \ {0}]
  /\ MinPairs \in Nat \ {0} /\ MinFactorPairs \in Nat \ {0}

Least(a, b) == IF a <= b THEN a ELSE b
Most(a, b) == IF a >= b THEN a ELSE b
Abs(x) == IF x >= 0 THEN x ELSE -x

(* Division of an integer by a positive one, rounded towards zero. *)
Quot(a, b) == IF a >= 0 THEN a \div b ELSE -((-a) \div b)

(* The integer square root. *)
Root(n) == CHOOSE r \in 0 .. n : r * r <= n /\ n < (r + 1) * (r + 1)

Total(s) == FoldLeft(LAMBDA a, b : a + b, 0, s)

(* The last n elements, or all of a shorter sequence. *)
Latest(s, n) == SubSeq(s, Len(s) - Least(n, Len(s)) + 1, Len(s))

Mapped(s, f(_)) == [i \in DOMAIN s |-> f(s[i])]

Highest(s) == Max(ToSet(s))
Lowest(s) == Min(ToSet(s))

-----------------------------------------------------------------------------
adjusted(bar) == IF bar.adj > 0 THEN bar.adj ELSE bar.close

mean(s) == IF s = <<>> THEN 0 ELSE Quot(Total(s), Len(s))

(* The sum of the products of deviations from the means my and mx. *)
Products(y, x, my, mx) == Total([i \in DOMAIN x |-> (x[i] - mx) * (y[i] - my)])
Covariance(y, x) == Products(y, x, mean(y), mean(x))

stdev(s) == IF Len(s) < 2 THEN 0 ELSE Root(Covariance(s, s) \div (Len(s) - 1))

median(s) ==
  LET t == SortSeq(s, <)
      n == Len(s)
  IN CASE n = 0     -> 0
       [] n % 2 = 1 -> t[(n + 1) \div 2]
       [] OTHER     -> Quot(t[n \div 2] + t[n \div 2 + 1], 2)

Return(cur, prev) == Quot(10000 * (cur - prev), prev)

(* The returns between consecutive usable closes. *)
logReturns(closes) ==
  LET usable == SelectSeq([i \in 1 .. Len(closes) - 1 |-> i],
                          LAMBDA i : closes[i] > 0 /\ closes[i + 1] > 0)
  IN Mapped(usable, LAMBDA i : Return(closes[i + 1], closes[i]))

sma(s, n) == mean(Latest(s, n))

(* A raw price of the bar in the money of its adjusted close. *)
Scaled(bar, price) ==
  IF bar.close > 0 THEN (price * adjusted(bar)) \div bar.close ELSE price

TrueRange(bar, prev) ==
  LET high == Scaled(bar, bar.high)
      low  == Scaled(bar, bar.low)
  IN Max({high - low, Abs(high - adjusted(prev)), Abs(low - adjusted(prev))})

atrPct(bars, n) ==
  LET ranges == [i \in 1 .. Len(bars) - 1 |-> TrueRange(bars[i + 1], bars[i])]
      last   == adjusted(bars[Len(bars)])
  IN IF Len(bars) < 2 THEN 0
     ELSE IF last <= 0 THEN 0
     ELSE (10000 * mean(Latest(ranges, n))) \div last

-----------------------------------------------------------------------------
(* Ordinary least squares of y on x. *)

(* The fit when nothing can be identified: everything is the market's. *)
Degenerate(y) == [beta |-> 100, alpha |-> 0, residSigma |-> stdev(y)]

(* What a line of that slope leaves of y. *)
Residuals(y, x, alpha, beta) ==
  [i \in DOMAIN y |-> y[i] - (alpha + Quot(beta * x[i], 100))]

Line(y, x, alpha, beta) ==
  [beta |-> beta, alpha |-> alpha, residSigma |-> stdev(Residuals(y, x, alpha, beta))]
Sloped(y, x, beta) == Line(y, x, mean(y) - Quot(beta * mean(x), 100), beta)

Fit(asset, y, x, variance) ==
  IF Len(y) < MinPairs THEN Degenerate(asset)
  ELSE IF variance <= 0 THEN Degenerate(y)
  ELSE Sloped(y, x, Quot(100 * Covariance(y, x), variance))

Overlap(asset, y, x) == Fit(asset, y, x, Covariance(x, x))

regress(asset, market) ==
  LET n == Least(Len(asset), Len(market))
  IN Overlap(asset, Latest(asset, n), Latest(market, n))

(* A fit with a sector loading. *)
Loaded(fit, betaSector, residSigma) ==
  [beta |-> fit.beta, betaSector |-> betaSector, residSigma |-> residSigma]

(* The sector's returns less what the market explains of them. *)
Unexplained(sector, market, fit) == Residuals(sector, market, fit.alpha, fit.beta)
Orthogonal(sector, market) == Unexplained(sector, market, regress(sector, market))

JointAlpha(y, m, orth, beta, betaSector) ==
  mean(y) - Quot(beta * mean(m), 100) - Quot(betaSector * mean(orth), 100)
Joint(y, m, orth, alpha, beta, betaSector) ==
  [i \in DOMAIN y |->
     y[i] - (alpha + Quot(beta * m[i], 100) + Quot(betaSector * orth[i], 100))]

(* Both slopes, independently: the two regressors are orthogonal. *)
TwoFactors(y, m, orth, one, betaSector) ==
  Loaded(one, betaSector,
         stdev(Joint(y, m, orth, JointAlpha(y, m, orth, one.beta, betaSector),
                     one.beta, betaSector)))

OneFactor(fit) == Loaded(fit, 0, fit.residSigma)

WithSector(y, m, orth, one) ==
  IF stdev(orth) = 0 THEN OneFactor(one)
  ELSE TwoFactors(y, m, orth, one, regress(y, orth).beta)

OnSessions(y, m, s) == WithSector(y, m, Orthogonal(s, m), regress(y, m))

regress2(asset, market, sector) ==
  LET n == Min({Len(asset), Len(market), Len(sector)})
  IN IF n < MinFactorPairs THEN OneFactor(regress(asset, market))
     ELSE OnSessions(Latest(asset, n), Latest(market, n), Latest(sector, n))

(* One day's return split into market, sector and the rest. *)
attribute(ret, market, sector, beta, betaSector, sectorBeta) ==
  LET m == Quot(beta * market, 100)
      s == IF sector.known
           THEN Quot(betaSector * (sector.ret - Quot(sectorBeta * market, 100)), 100)
           ELSE 0
  IN [market |-> m, sector |-> s, idiosyncratic |-> ret - m - s]

-----------------------------------------------------------------------------
(* Moves in units of volatility.  Horizons are in hundredths of a session. *)

MinHorizon == 25

horizonSigma(sigma, horizon) == (sigma * Root(100 * Most(horizon, MinHorizon))) \div 100

(* The number of standard deviations, in hundredths; `None` where the code *)
(* returns null is the caller's: known is false.                           *)
sigmaOfMove(change, sigma, horizon) ==
  LET expected == horizonSigma(sigma, horizon)
  IN IF sigma <= 0 \/ expected <= 0
     THEN [known |-> FALSE, value |-> 0]
     ELSE [known |-> TRUE, value |-> Quot(100 * change, expected)]

drawdownFromPeak(price, peak) ==
  IF peak <= 0 THEN 0 ELSE Most(0, Quot(10000 * (peak - price), peak))

(* |value| / scale squashed to 0 .. 100. *)
saturate(value, scale) ==
  IF scale <= 0 THEN 0 ELSE (100 * Abs(value)) \div (Abs(value) + scale)

-----------------------------------------------------------------------------
(* The bundle. *)

byTs(bars) ==
  [t \in {bars[i].ts : i \in DOMAIN bars} |->
     adjusted(bars[CHOOSE i \in DOMAIN bars : bars[i].ts = t])]

(* The places of the bars that, with the bar before, the market also has. *)
Paired(bars, market) ==
  SelectSeq([i \in 1 .. Len(bars) - 1 |-> i + 1],
            LAMBDA i : /\ {bars[i].ts, bars[i - 1].ts} \subseteq DOMAIN market
                       /\ adjusted(bars[i - 1]) > 0 /\ market[bars[i - 1].ts] > 0)

(* The returns of a series on the sessions at those places. *)
ReturnsAt(places, bars, series) ==
  Mapped(places, LAMBDA i : Return(series[bars[i].ts], series[bars[i - 1].ts]))

(* One missing session disqualifies the sector as a factor. *)
Aligned(places, bars, sector) ==
  \A i \in ToSet(places) :
    /\ {bars[i].ts, bars[i - 1].ts} \subseteq DOMAIN sector
    /\ sector[bars[i - 1].ts] > 0

(* The betas; sectorMarketBeta is that of the sector on the index. *)
Betas(fit, sectorMarketBeta) ==
  [beta |-> fit.beta, betaSector |-> fit.betaSector, residSigma |-> fit.residSigma,
   sectorMarketBeta |-> IF fit.betaSector = 0 THEN 100 ELSE sectorMarketBeta]

Factors(asset, index, factor, useSector) ==
  IF useSector THEN Betas(regress2(asset, index, factor), regress(factor, index).beta)
  ELSE Betas(OneFactor(regress(asset, index)), 100)

(* No sector proxy, or the instrument is its own: sector is empty. *)
Loadings(places, bars, market, sector) ==
  Factors(ReturnsAt(places, bars, byTs(bars)), ReturnsAt(places, bars, market),
          ReturnsAt(places, bars, sector),
          DOMAIN sector # {} /\ Aligned(places, bars, sector))

(* The extremes of the last n bars, in adjusted money. *)
HighOf(bars, n) == Highest(Mapped(Latest(bars, n), LAMBDA b : Scaled(b, b.high)))
LowOf(bars, n) == Lowest(Mapped(Latest(bars, n), LAMBDA b : Scaled(b, b.low)))

Volatility(rets, n) == stdev(Latest(rets, n))

Bundle(bars, closes, rets, betas) ==
  [bars       |-> Len(bars),
   sigmaDaily |-> Volatility(rets, Spans.vol),
   sigmaShort |-> Volatility(rets, Spans.short),
   atrPct     |-> atrPct(bars, Spans.atr),
   beta       |-> betas.beta,
   betaSector |-> betas.betaSector,
   sectorMarketBeta |-> betas.sectorMarketBeta,
   residSigma |-> IF betas.residSigma > 0 THEN betas.residSigma
                  ELSE Volatility(rets, Spans.vol),
   hi52w      |-> HighOf(bars, Spans.year),
   lo52w      |-> LowOf(bars, Spans.year),
   hi30d      |-> HighOf(bars, Spans.month),
   lo30d      |-> LowOf(bars, Spans.month),
   medVol20   |-> median(Mapped(Latest(bars, Spans.volume), LAMBDA b : b.volume)),
   sma20      |-> sma(closes, Spans.fast),
   sma50      |-> sma(closes, Spans.slow),
   peak52w    |-> Highest(Latest(closes, Spans.year))]

FromCloses(bars, closes, betas) == Bundle(bars, closes, logReturns(closes), betas)

Against(bars, market, sector) ==
  FromCloses(bars, Mapped(bars, adjusted),
             Loadings(Paired(bars, market), bars, market, sector))

computeStats(bars, marketBars, sectorBars) ==
  Against(bars, byTs(marketBars), byTs(sectorBars))
=============================================================================
