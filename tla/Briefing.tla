------------------------------ MODULE Briefing ------------------------------
(***************************************************************************)
(* From provider answers to what one user reads: a refresh reconciles the  *)
(* answers into a quote, runs every detector and the episode machine on    *)
(* it and writes the signals; the digest and the table are computed from   *)
(* what is stored, the user's checkpoints, preferences and tallies.        *)
(* services/ingest.ts, detection.ts and view.ts over the pure modules.     *)
(*                                                                         *)
(* Here a refresh is one step and so is a request: their interleavings are *)
(* the subject of Ingest, Detection and Watermarks.  Statistics are those  *)
(* of one bar history per symbol, chosen at the start.                     *)
(***************************************************************************)
EXTENDS Scoring, Quotes, MarketClock

CONSTANTS
  Symbols,
  Setups,       \* the clock chosen by the composition root, and per symbol
                \* the bars its statistics are computed from, or None
  Scenes,       \* per clock and symbol: what the providers, the benchmark and
                \* the sector can say
  Prefs,        \* per symbol: what the user can set for it
  Lookback,     \* digest.firstVisitLookbackSessions
  MaxLookback,  \* digest.maxLookbackSessions
  PageLimit,    \* 600: the signals one query returns
  Instants,     \* bound: the instants at which anything happens
  MaxRequests   \* bound on what the user does

ASSUME BriefingAssumption ==
  /\ \A setup \in Setups : setup.market \in Clocks
  /\ {Lookback, MaxLookback, PageLimit, MaxRequests} \subseteq Nat
  /\ Instants \subseteq Nat /\ Instants # {} /\ IsFiniteSet(Symbols) /\ IsFiniteSet(Buckets)

(* Numbers where the code has numbers: thresholds, places in an order, and *)
(* what comes from outside; the price a move is measured from is positive. *)
ASSUME OrderAssumption ==
  /\ \A s \in Symbols : NameOrder[s] \in Int
  /\ \A s, t \in Symbols : NameOrder[s] = NameOrder[t] => s = t
  /\ \A k \in DetectorKinds : Enter[k] \in Nat \ {0}

Answers == [source : DOMAIN Preference, price : Int, prevClose : Int, dayOpen : Int,
            dayHigh : Int, dayLow : Int, volume : Int, asOf : Int, halted : BOOLEAN]
References == [price : Int, prevClose : Nat \ {0}]

ASSUME ScenesAssumption ==
  /\ \A p \in DOMAIN Preference : Preference[p] \in Int
  /\ \A m \in Clocks, s \in Symbols : \A scene \in Scenes[m][s] :
       /\ IsFiniteSet(scene.raws) /\ scene.raws \subseteq Answers
       /\ scene.benchmark # None => scene.benchmark \in References
       /\ scene.sector # None => scene.sector \in References

ASSUME NoneAssumption == None \notin QuoteRows

VARIABLES
  market, now,
  stats,    \* symbol -> row of instrument_stats, or None
  quote,    \* symbol -> row of quotes_latest, or None
  ran,      \* the symbols refreshed at this instant (once each, a bound)
  state,    \* symbol -> kind -> row of signal_state, or None
  signals,  \* identity -> row of signals
  mark,     \* symbol -> row of user_symbol_marks, or None
  item,     \* symbol -> the user's preferences
  tally,    \* kind -> row of user_kind_weights
  read,     \* the identities in signal_reads
  requests  \* how many requests the user has made (bounded)

pipeline == <<quote, ran, state, signals>>
reader   == <<mark, item, tally, read, requests>>
vars     == <<market, now, stats, pipeline, reader>>

NoTally == [dismissed |-> 0, engaged |-> 0]
NoPrefs == [pinned |-> FALSE, muted |-> FALSE, minSigma |-> None]

StatsOf(h) == IF h = None THEN None ELSE computeStats(h.bars, h.market, h.sector)

(* The statistics of every history given are numbers. *)
StatRows ==
  [bars : Nat, sigmaDaily : Int, sigmaShort : Int, atrPct : Int, beta : Int, betaSector : Int,
   sectorMarketBeta : Int, residSigma : Int, hi52w : Int, lo52w : Int, hi30d : Int,
   lo30d : Int, medVol20 : Int, sma20 : Int, sma50 : Int, peak52w : Int]

ASSUME StatsAssumption ==
  \A setup \in Setups, s \in Symbols :
    setup.bars[s] # None => StatsOf(setup.bars[s]) \in StatRows

Init ==
  /\ now = Min(Instants)
  /\ \E setup \in Setups :
       /\ market = setup.market
       /\ stats = [s \in Symbols |-> StatsOf(setup.bars[s])]
  /\ quote = [s \in Symbols |-> None]
  /\ ran = {}
  /\ state = [s \in Symbols |-> [k \in DetectorKinds |-> None]]
  /\ signals = <<>>
  /\ mark = [s \in Symbols |-> None]
  /\ item = [s \in Symbols |-> NoPrefs]
  /\ tally = [k \in Kinds |-> NoTally]
  /\ read = {}
  /\ requests = 0

-----------------------------------------------------------------------------
(* The ingest tier. *)

freshnessOf(q) ==
  classifyFreshness(q.asOf, now, isOpen(market, now), lastCompletedSessionAt(market, now))

(* A provider stamps a quote with the last trade it knows of. *)
Stamped(raw) ==
  LET traded == IF isOpen(market, now) THEN now ELSE lastCompletedSessionAt(market, now)
  IN [raw EXCEPT !.asOf = traded - raw.asOf]

Fetched(s, raws) ==
  reconcileQuotes({Stamped(r) : r \in raws}, now,
                  IF stats[s] = None THEN 0 ELSE stats[s].bars,
                  isOpen(market, now), lastCompletedSessionAt(market, now))

(* upsertQuote keeps the stored quote when it is newer, and so does the    *)
(* rest of the cycle.                                                      *)
Effective(s, q) ==
  IF quote[s] = None THEN q ELSE IF q.asOf >= quote[s].asOf THEN q ELSE quote[s]

Context(s, q, scene) ==
  [now |-> now, quote |-> q, stats |-> stats[s], freshness |-> freshnessOf(q),
   progress |-> sessionProgress(market, now), session |-> sessionKeyOf(market, q.asOf),
   benchmark |-> scene.benchmark, sector |-> scene.sector]

Untrusted(freshness) == freshness \in {"stale", "unknown"}

(* Mutant: only a price that cannot be dated is distrusted. *)
TrustedIfDated(o, freshness) ==
  IF o.kind \notin INTEGRITY_KINDS /\ freshness = "unknown" THEN [o EXCEPT !.value = 0] ELSE o

(* Market analysis on an untrustworthy price reads as zero. *)
Trusted(o, freshness) ==
  IF o.kind \notin INTEGRITY_KINDS /\ Untrusted(freshness) THEN [o EXCEPT !.value = 0] ELSE o

Magnitude(o) == [kind |-> o.kind, disc |-> o.disc, value |-> Abs(o.value)]

Announced(prior, k, r) ==
  r.action \in {"open", "reopen"} /\ ~(prior = None /\ k \in STATE_KINDS /\ r.action = "open")

(* The readings a cycle acts on, and what the machine makes of them; None  *)
(* for the detectors that have nothing to measure.                         *)
Readings(ctx) ==
  LET all == DETECTORS(ctx)
  IN [k \in DetectorKinds |-> IF all[k] = None THEN None ELSE Trusted(all[k], ctx.freshness)]

Outcomes(s, readings) ==
  [k \in DetectorKinds |->
     IF readings[k] = None THEN None ELSE step(Magnitude(readings[k]), state[s][k], now)]

(* A row of the kind that reading o and outcome r are of: stamped when its *)
(* episode ends, revised when it intensifies.                              *)
Revised(row, key, o, r, asOf) ==
  IF key = r.closing
  THEN [row EXCEPT !.supersededAt = IF row.supersededAt = None THEN now ELSE row.supersededAt]
  ELSE IF r.action = "intensify" /\ key = r.key
       THEN [row EXCEPT !.severity = o.severity, !.sigma = o.sigma, !.asOf = asOf]
       ELSE row

(* The identities a cycle inserts. *)
Inserted(s, outcomes) ==
  {<<s, k, outcomes[k].key>> :
     k \in {l \in DetectorKinds : IF outcomes[l] = None THEN FALSE
                                  ELSE Announced(state[s][l], l, outcomes[l])}}

(* The two tables after the loop over the detectors: each turn touches the *)
(* rows of its own kind, and one that is there already is not replaced.    *)
RowsAfter(s, outcomes) ==
  [k \in DetectorKinds |-> IF outcomes[k] = None THEN state[s][k] ELSE outcomes[k].state]

RowAfter(s, id, readings, outcomes, asOf) ==
  LET k == KindOf(id)
  IN IF id \notin DOMAIN signals
     THEN RowOf(readings[k].severity, now, asOf, readings[k].sigma, None)
     ELSE IF SymbolOf(id) # s \/ outcomes[k] = None THEN signals[id]
          ELSE Revised(signals[id], id[3], readings[k], outcomes[k], asOf)

detect(s, readings, outcomes, asOf) ==
  /\ state' = [state EXCEPT ![s] = RowsAfter(s, outcomes)]
  /\ signals' = [id \in DOMAIN signals \cup Inserted(s, outcomes) |->
                   RowAfter(s, id, readings, outcomes, asOf)]

(* One refresh: quote, detectors, episodes, signals. *)
Refresh(s, scene) ==
  /\ s \notin ran
  /\ ran' = ran \cup {s}
  /\ Usable(scene.raws) # {}
  /\ quote' = [quote EXCEPT ![s] = Effective(s, Fetched(s, scene.raws))]
  /\ \E readings \in {Readings(Context(s, quote'[s], scene))} :
       \E outcomes \in {Outcomes(s, readings)} :
         detect(s, readings, outcomes, quote'[s].asOf)
  /\ UNCHANGED <<market, now, stats, reader>>

(* No provider says anything usable: the refresh ends before it writes. *)
RefreshFails(s, scene) ==
  /\ s \notin ran
  /\ ran' = ran \cup {s}
  /\ Usable(scene.raws) = {}
  /\ UNCHANGED <<market, now, stats, quote, state, signals, reader>>

Tick ==
  /\ now' \in Instants /\ now' > now
  /\ ran' = {}
  /\ UNCHANGED <<market, stats, quote, state, signals, reader>>

-----------------------------------------------------------------------------
(* The user. *)

Request ==
  /\ requests < MaxRequests
  /\ requests' = requests + 1

Acknowledge ==
  /\ Request
  /\ mark' = [s \in Symbols |->
       [seenAt |-> now, seenPrice |-> IF quote[s] = None THEN None ELSE quote[s].price]]
  /\ UNCHANGED <<market, now, stats, pipeline, item, tally, read>>

(* POST /api/signals/read: the tally counts a signal already read again. *)
Dismiss(id) ==
  /\ Request
  /\ read' = read \cup {id}
  /\ tally' = [tally EXCEPT ![KindOf(id)].dismissed = @ + 1]
  /\ UNCHANGED <<market, now, stats, pipeline, mark, item>>

LiveKinds(s) ==
  {KindOf(id) : id \in {i \in DOMAIN signals :
                          SymbolOf(i) = s /\ signals[i].supersededAt = None}}

(* GET /api/symbols/:symbol: opening a symbol counts for its live kinds. *)
Open(s) ==
  /\ Request
  /\ tally' = [k \in Kinds |-> IF k \in LiveKinds(s)
                               THEN [tally[k] EXCEPT !.engaged = @ + 1] ELSE tally[k]]
  /\ UNCHANGED <<market, now, stats, pipeline, mark, item, read>>

(* FeedbackRepo.reset *)
Forget ==
  /\ Request
  /\ tally' = [k \in Kinds |-> NoTally]
  /\ UNCHANGED <<market, now, stats, pipeline, mark, item, read>>

SetItem(s, prefs) ==
  /\ Request
  /\ item' = [item EXCEPT ![s] = prefs]
  /\ UNCHANGED <<market, now, stats, pipeline, mark, tally, read>>

Next ==
  \/ \E s \in Symbols : \E scene \in Scenes[market][s] : Refresh(s, scene) \/ RefreshFails(s, scene)
  \/ Tick
  \/ Acknowledge
  \/ \E id \in DOMAIN signals : Dismiss(id)
  \/ \E s \in Symbols : Open(s)
  \/ Forget
  \/ \E s \in Symbols : \E p \in Prefs[s] : SetItem(s, p)

Spec == Init /\ [][Next]_vars

-----------------------------------------------------------------------------
(* What the user reads. *)

firstVisitCutoff == sessionsAgo(market, now, Lookback)
hardFloor == sessionsAgo(market, now, MaxLookback)

(* Per symbol: the checkpoint, but no further back than the floor. *)
cutoffs ==
  LET floor == hardFloor
      first == firstVisitCutoff
  IN [s \in Symbols |-> Most(floor, IF mark[s] = None THEN first ELSE mark[s].seenAt)]

Older(i, j) == signals[i].detectedAt <= signals[j].detectedAt
Since(instant) == {id \in DOMAIN signals : signals[id].detectedAt > instant}

(* What the query may return: the newest of them, as many as a page holds; *)
(* of those detected at one instant any come first.                        *)
getSignalsSince(instant) ==
  {page \in kSubset(Least(PageLimit, Cardinality(Since(instant))), Since(instant)) :
     \A i \in Since(instant) \ page, j \in page : Older(i, j)}

earliest ==
  LET from == cutoffs IN Min({now} \cup {from[s] : s \in Symbols})

(* A request asks once: these are the pages it may get. *)
candidatesForDigest == getSignalsSince(earliest)

relevant(candidates) ==
  LET from == cutoffs
  IN {id \in candidates : signals[id].detectedAt > from[SymbolOf(id)]}

confidence(s) == IF quote[s] = None THEN 50 ELSE quote[s].confidence

scoresUnder(ids, weights) ==
  [id \in ids |-> scoreSignal(KindOf(id), signals[id], item[SymbolOf(id)],
                              confidence(SymbolOf(id)), weights[KindOf(id)], now)]

rankingOf(ids) ==
  rankSignals(ids, signals, scoresUnder(ids, learnedWeights(tally)), read)

ShownOf(ranked) == UNION {ToSet(ranked.groups[i].signals) : i \in DOMAIN ranked.groups}

(* The move since the user last looked, or since the previous close. *)
sinceSeen(s) ==
  LET base   == IF mark[s] = None THEN None ELSE mark[s].seenPrice
      from   == IF base = None THEN quote[s].prevClose ELSE base
      change == Return(quote[s].price, from)
      horizon == IF mark[s] = None THEN Most(15, sessionProgress(market, now))
                 ELSE sessionsBetween(market, mark[s].seenAt, now)
  IN IF quote[s] = None \/ stats[s] = None THEN [known |-> FALSE, value |-> 0]
     ELSE IF stats[s].bars < EnoughBars THEN [known |-> FALSE, value |-> 0]
     ELSE sigmaOfMove(change, stats[s].sigmaDaily, horizon)

(* The symbols with nothing to show, the largest movers first. *)
ByMove(silent, moved) ==
  Sorted(silent, {p \in silent \X silent : moved[p[1]] > moved[p[2]]})
Silent(ranked) == Symbols \ {ranked.groups[i].symbol : i \in DOMAIN ranked.groups}
Distances(silent) == [s \in silent |-> Abs(sinceSeen(s).value)]
QuietOf(silent) == ByMove(silent, Distances(silent))

Digest(ranked) ==
  [groups     |-> ranked.groups,
   suppressed |-> ranked.suppressed,
   filtered   |-> ranked.filtered,
   quiet      |-> QuietOf(Silent(ranked))]

getDigest(candidates) == Digest(rankingOf(relevant(candidates)))

(* Mutant: the badge looks back as far as a first briefing does. *)
candidatesLately == getSignalsSince(firstVisitCutoff)

candidatesForTable == getSignalsSince(hardFloor)

(* The severity of the signal a table row shows. *)
topSignalPerSymbol(s, candidates) ==
  Max({0} \cup {signals[id].severity : id \in {i \in candidates : SymbolOf(i) = s}})

FreshnessOrder == [fresh |-> 1, closed |-> 2, delayed |-> 3, stale |-> 4, unknown |-> 5]
shownFreshness(s) == IF quote[s] = None THEN "unknown" ELSE freshnessOf(quote[s])

health ==
  [worst |-> CHOOSE f \in Freshnesses \cap ({"fresh"} \cup {shownFreshness(s) : s \in Symbols}) :
               \A s \in Symbols : FreshnessOrder[f] >= FreshnessOrder[shownFreshness(s)],
   stale |-> {s \in Symbols : shownFreshness(s) \in {"stale", "unknown"}},
   conflicted |-> {s \in Symbols : IF quote[s] = None THEN FALSE ELSE quote[s].conflict > 0}]

-----------------------------------------------------------------------------
(* Properties. *)

QuoteOK(q) ==
  /\ q.dayLow <= q.price /\ q.price <= q.dayHigh
  /\ q.low <= q.price /\ q.price <= q.high
  /\ q.confidence \in 0 .. 100
  /\ q.conflict > 0 => q.confidence < 100

(* Every stored value is of its type; a stored price lies between the      *)
(* prices the providers gave and inside its own day range, and one that    *)
(* they dispute is not fully trusted.                                      *)
TypeOK ==
  /\ market \in Clocks /\ now \in Instants
  /\ \A s \in Symbols : quote[s] # None => QuoteOK(quote[s])
  /\ \A s \in Symbols, k \in DetectorKinds :
       state[s][k] # None => state[s][k].peak \in Nat
  /\ \A id \in DOMAIN signals :
       /\ SymbolOf(id) \in Symbols /\ KindOf(id) \in Kinds
       /\ signals[id].severity \in 0 .. 100
       /\ signals[id].detectedAt \in Instants
  /\ \A k \in Kinds : learnedWeight(k, tally[k]) \in 50 .. 115
  /\ read \subseteq DOMAIN signals

Of(s, ids) == {id \in ids : SymbolOf(id) = s}
Lengths(groups) == Cardinality(Places([i \in DOMAIN groups |-> groups[i].signals]))

(* Left out by the user's own choice, but for a severity rounded to zero. *)
Declined(id) == Silenced(signals[id], item[SymbolOf(id)]) \/ signals[id].severity = 0

(* The briefing accounts for everything newer than the checkpoints, unless *)
(* the query's page is full, and then for the newest: each signal is shown *)
(* once, or counted as suppressed, or left out because its user muted the  *)
(* symbol or set a threshold above it, and for no other reason; the        *)
(* budgets are kept; nothing is suppressed while both have room; and the   *)
(* quiet list is every watched symbol of which nothing is shown.           *)
WholeAccount ==
  \A candidates \in candidatesForDigest :
    \E d \in {getDigest(candidates)}, all \in {relevant(candidates)} :
      \E shown \in {ShownOf(d)} :
        /\ \A id \in DOMAIN signals \ all :
             signals[id].detectedAt > cutoffs[SymbolOf(id)] =>
               Cardinality(candidates) = PageLimit /\ \A j \in candidates : Older(id, j)
        /\ shown \subseteq {id \in all : ~Declined(id)}
        /\ Lengths(d.groups) = Cardinality(shown)
        /\ Cardinality(shown) + d.suppressed = Cardinality({id \in all : ~Declined(id)})
        /\ Cardinality(shown) <= MaxItems
        /\ \A s \in Symbols : Cardinality(Of(s, shown)) <= MaxPerSymbol
        /\ d.suppressed > 0 => \/ Cardinality(shown) = MaxItems
                               \/ \E s \in Symbols : Cardinality(Of(s, shown)) = MaxPerSymbol
        /\ MaxPerSymbol > 0 => ToSet(d.quiet) = {s \in Symbols : Of(s, shown) = {}}

(* What a user dismisses or opens reorders the briefing and never decides  *)
(* what is in it: a score is positive with or without the learned weights, *)
(* is at worst halved, and a warning about the data is not touched at all. *)
TasteNeverHides ==
  \E ids \in {Since(earliest)} :
    \E taught \in {scoresUnder(ids, learnedWeights(tally))},
       plain \in {scoresUnder(ids, [k \in Kinds |-> 100])} :
      \A id \in ids :
        /\ taught[id] > 0 <=> plain[id] > 0
        /\ 2 * taught[id] >= plain[id]
        /\ KindOf(id) \in INTEGRITY_KINDS => taught[id] = plain[id]

(* Nothing in the briefing outranks the badge of its symbol's row: the two *)
(* views look back equally far.  The one exception is a signal at the end  *)
(* of a full page, in whose place the other query got one of that instant. *)
BadgeCoversBriefing ==
  \A candidates \in candidatesForDigest :
    \E shown \in {ShownOf(getDigest(candidates))} :
      \A listed \in candidatesForTable, id \in shown :
        \/ signals[id].severity <= topSignalPerSymbol(SymbolOf(id), listed)
        \/ \E j \in listed \ candidates : signals[j].detectedAt = signals[id].detectedAt

NewIds == DOMAIN signals' \ DOMAIN signals

(* Nothing about the market is announced from a price that is too old or   *)
(* cannot be dated at that instant, nor about a symbol that its reader     *)
(* finds listed as stale at that instant, and no outage is announced while *)
(* the market is shut and the price is its last close.                     *)
AnnouncedOnTrust ==
  [][\A id \in NewIds :
       LET f == freshnessOf(quote'[SymbolOf(id)])
       IN /\ KindOf(id) \notin INTEGRITY_KINDS =>
               ~Untrusted(f) /\ SymbolOf(id) \notin health'.stale
          /\ KindOf(id) = "stale_data" => f # "closed"]_vars
=============================================================================
