------------------------------ MODULE Scoring -------------------------------
(***************************************************************************)
(* domain/signals/scoring.ts and learning.ts: what one reader's briefing   *)
(* shows of the signals, in which order, and what it leaves out.           *)
(*                                                                         *)
(* A signal is an identity <<symbol, kind, episode key>> and a row.        *)
(* Factors are in hundredths; a product is rounded up, so that it is       *)
(* positive exactly when the code's is.  Decay is counted in whole         *)
(* half-lives.  Signals that compare equal keep the database's order,      *)
(* which is any order.  Rationales are left out.                           *)
(***************************************************************************)
EXTENDS Detectors, FiniteSets

CONSTANTS
  Prior,         \* 30: how much evidence moves a weight half its range
  HalfLife,      \* recencyHalfLifeMs, in ticks
  MaxItems, MaxPerSymbol,
  NameOrder      \* symbol -> place in localeCompare order

ASSUME BudgetAssumption ==
  /\ Prior \in Nat \ {0} /\ HalfLife \in Nat \ {0}
  /\ MaxItems \in Nat /\ MaxPerSymbol \in Nat

Kinds == DetectorKinds \cup {"corporate_action"}

KIND_WEIGHT ==
  [idio_move |-> 100, corporate_action |-> 90, sigma_move |-> 85, gap |-> 80,
   data_conflict |-> 75, stale_data |-> 70, range_break |-> 65, drawdown |-> 60,
   volume_spike |-> 50, vol_regime |-> 45, trend_flip |-> 40]

DecayMultiplier(kind) ==
  CASE kind = "trend_flip"  -> 6
    [] kind = "vol_regime"  -> 4
    [] kind = "drawdown"    -> 3
    [] kind = "range_break" -> 2
    [] OTHER -> 1

RowOf(severity, detectedAt, asOf, sigma, supersededAt) ==
  [severity |-> severity, detectedAt |-> detectedAt, asOf |-> asOf, sigma |-> sigma,
   supersededAt |-> supersededAt]

-----------------------------------------------------------------------------
(* What a user's dismissals and openings have taught.  A tally is a record *)
(* [dismissed, engaged] per kind; no row is a tally of zeros.              *)

NOT_LEARNABLE == INTEGRITY_KINDS \cup {"corporate_action"}

(* Mutant: every kind can be learned away. *)
learnedWeightAlways(kind, f) ==
  LET lean == f.engaged - f.dismissed
      n    == f.dismissed + f.engaged
  IN IF n = 0 THEN 100
     ELSE 100 + Quot((IF lean < 0 THEN 50 ELSE 15) * lean, n + Prior)

(* 50 .. 115: (1/2 - dismissed/n) * 2 * n/(n + Prior), times the range. *)
learnedWeight(kind, f) ==
  LET lean == f.engaged - f.dismissed
      n    == f.dismissed + f.engaged
  IN IF kind \in NOT_LEARNABLE \/ n = 0 THEN 100
     ELSE 100 + Quot((IF lean < 0 THEN 50 ELSE 15) * lean, n + Prior)

learnedWeights(tally) == [k \in DOMAIN tally |-> learnedWeight(k, tally[k])]

-----------------------------------------------------------------------------
(* One signal for one reader. *)

(* What is left of a hundred after so many half-lives: never nothing. *)
Left == <<100, 50, 25, 12, 6, 3, 1>>

recencyFactor(age, multiplier) ==
  IF age <= 0 THEN 100 ELSE Left[1 + Least(6, age \div (HalfLife * multiplier))]

Per100(a, factor) == (a * factor + 99) \div 100

(* Muted, or under the reader's own threshold where the signal has a sigma. *)
BelowThreshold(row, item) ==
  /\ item.minSigma # None
  /\ row.sigma # None
  /\ row.sigma < item.minSigma
Silenced(row, item) == item.muted \/ BelowThreshold(row, item)

confidenceFactor(kind, confidence) ==
  IF kind \in INTEGRITY_KINDS THEN 100 ELSE 35 + (65 * confidence) \div 100

scoreSignal(kind, row, item, confidence, weight, now) ==
  IF Silenced(row, item) THEN 0
  ELSE LET learned == Per100(row.severity * KIND_WEIGHT[kind], weight)
           recent  == Per100(learned, recencyFactor(now - row.detectedAt, DecayMultiplier(kind)))
           pinned  == Per100(recent, IF item.pinned THEN 140 ELSE 100)
       IN Per100(pinned, confidenceFactor(kind, confidence))

-----------------------------------------------------------------------------
(* The ranking of a set of identities, given their rows, their scores and  *)
(* the identities already dismissed.                                       *)

(* Unread before read, then by score, then the newest. *)
bySignalScore(rows, score, read, a, b) ==
  IF a \in read <=> b \in read
  THEN score[a] > score[b]
         \/ (score[a] = score[b] /\ rows[a].detectedAt > rows[b].detectedAt)
  ELSE b \in read

SymbolOf(id) == id[1]
KindOf(id) == id[2]

(* A set in an order, given by the pairs <<x, y>> of which x comes first;  *)
(* of what compares equal anything comes first.                            *)
Foremost(S, before) == CHOOSE x \in S : \A y \in S : <<y, x>> \notin before
Extended(q, S, before) == Append(q, Foremost(S \ ToSet(q), before))

Sorted(S, before) ==
  LET first[n \in 0 .. Cardinality(S)] ==
        IF n = 0 THEN <<>> ELSE Extended(first[n - 1], S, before)
  IN first[Cardinality(S)]

First(s, n) == SubSeq(s, 1, Least(n, Len(s)))

(* A group is led by the first of the signals it keeps, whatever the       *)
(* others score.                                                           *)
Led(sym, sorted, kept, score) ==
  [symbol |-> sym, sorted |-> sorted, signals |-> kept,
   topScore |-> IF kept = <<>> THEN 0 ELSE score[kept[1]]]
Cut(sym, sorted, score) == Led(sym, sorted, First(sorted, MaxPerSymbol), score)
Group(sym, ids, rows, score, read) ==
  Cut(sym, Sorted(ids, {p \in ids \X ids : bySignalScore(rows, score, read, p[1], p[2])}),
      score)

GroupBefore(g, h) ==
  g.topScore > h.topScore
    \/ (g.topScore = h.topScore /\ NameOrder[g.symbol] < NameOrder[h.symbol])

(* The places in a list of lists. *)
Places(lists) == UNION {{i} \X DOMAIN lists[i] : i \in DOMAIN lists}

(* Mutant: every group has the whole budget. *)
RoomForEach(groups, i) == MaxItems

(* What the groups before the i-th leave of the overall budget. *)
Room(groups, i) ==
  Most(0, MaxItems - Cardinality(Places([j \in 1 .. i - 1 |-> groups[j].signals])))

(* The groups the overall budget reaches, and how many signals the budgets *)
(* left out: of every group all but the first, those shown.                *)
Budgeted(groups, shown, filtered) ==
  [groups     |-> [i \in 1 .. Cardinality({j \in DOMAIN groups : Room(groups, j) > 0}) |->
                     [symbol |-> groups[i].symbol, signals |-> shown[i]]],
   suppressed |-> Cardinality({p \in Places([i \in DOMAIN groups |-> groups[i].sorted]) :
                                 p[2] > Len(shown[p[1]])}),
   filtered   |-> filtered]

Shared(groups, filtered) ==
  Budgeted(groups, [i \in DOMAIN groups |-> First(groups[i].signals, Room(groups, i))],
           filtered)

Ordered(groups) == Sorted(groups, {p \in groups \X groups : GroupBefore(p[1], p[2])})

Grouped(ids, rows, score, read) ==
  Ordered({Group(s, {id \in ids : SymbolOf(id) = s}, rows, score, read) :
             s \in {SymbolOf(id) : id \in ids}})

rankSignals(ids, rows, score, read) ==
  LET kept == {id \in ids : score[id] > 0}
  IN Shared(Grouped(kept, rows, score, read), Cardinality(ids \ kept))
=============================================================================
