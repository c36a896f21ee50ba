---------------------------- MODULE IngestProofs ----------------------------
(***************************************************************************)
(* Theorems about Ingest, for any number of workers and of splits, any     *)
(* history and any bound, and about the session arithmetic of MarketClock, *)
(* for any hours of the exchange, any calendar and any simulated session.  *)
(***************************************************************************)
EXTENDS Ingest, MarketClock, FiniteSetTheorems, WellFoundedInduction, TLAPS

(* What a worker carries from one statement to the next. *)
Carried ==
  \A w \in Workers :
    /\ pc[w] = "store" => got[w] # None
    /\ pc[w] \in {"record", "rescale", "mark", "announce"} => todo[w] # {}
    /\ pc[w] \in {"mark", "announce"} => split(w) \notin Unit
    /\ pc[w] = "write" => fresh[w] # {} /\ fresh[w] \subseteq bars

(* Nothing is of the future. *)
OfItsTime(q) == q # None => q <= clock

NotOfTheFuture ==
  /\ clock >= 1
  /\ OfItsTime(quote)
  /\ \A w \in Workers : OfItsTime(got[w]) /\ todo[w] \subseteq SessionsUpTo(clock)
                        /\ fresh[w] \subseteq SessionsUpTo(clock) /\ now[w] <= clock
  /\ bars \subseteq SessionsUpTo(clock)
  /\ \A s \in Splits : table[s] # "unknown" \/ scaled[s] > 0 => s <= clock

(* A price of instant `at` contains a split once at most, and only if it   *)
(* is from after it or the split has been applied since.                   *)
Holds(price, at, s) ==
  price # None => price[s] <= 1 /\ (price[s] = 1 => s <= at \/ scaled[s] >= 1)

Before(m) == m.prevAt = None => m.prevPrice = None
Older(m) == m.prevAt # None => m.prevAt <= m.at

ContainedOnce ==
  /\ ack # None => \A s \in Splits : Holds(ack.price, ack.at, s)
  /\ mark # None =>
       /\ Before(mark) /\ Older(mark)
       /\ \A s \in Splits \ torn :
            Holds(mark.price, mark.at, s) /\ Holds(mark.prevPrice, mark.prevAt, s)

(* What a worker waits for was asked from a bar that was the last, and     *)
(* reaches it, or is a whole seed or backfill.                             *)
Requested(w) ==
  /\ asked[w] # None
  /\ \/ asked[w].last = 0 /\ asked[w].want = History
     \/ /\ asked[w].last \in bars /\ asked[w].last < now[w]
        /\ asked[w].want = now[w] - asked[w].last + 1 \/ asked[w].want = MaxBackfill

Waiting == \A w \in Workers : pc[w] = "history" => Requested(w)

(* Outside torn, a split is handled by one worker, from pending to applied,*)
(* and rescaleMarks has run for it exactly from "mark" on.                 *)
AtMark(s) == \E w \in Workers : pc[w] = "mark" /\ split(w) = s

OneWorker(s) == \A v, w \in Workers : Handling(v, s) /\ Handling(w, s) => v = w

Announced(w, s) == pc[w] = "announce" /\ split(w) = s

InOrder(s) ==
  /\ OneWorker(s)
  /\ \A w \in Workers :
       Handling(w, s) => table[s] = IF Announced(w, s) THEN "applied" ELSE "pending"
  /\ scaled[s] = IF s \notin Unit /\ (table[s] = "applied" \/ AtMark(s)) THEN 1 ELSE 0

Sole == \A s \in Splits \ torn : InOrder(s)

(* New bars are followed by their statistics, unless stale. *)
Following ==
  {"seeded", "sync", "record", "pending", "rescale", "mark", "announce", "stats", "write"}

StatsFollow ==
  (Cardinality(bars) >= 2 /\ ~stale) =>
    \/ stats # None /\ Highest(stats) = Highest(bars)
    \/ \E w \in Workers : pc[w] \in Following

(* What a worker is about to insert is a run of sessions without a hole    *)
(* that touches the stored ones, begins with the first session there is,   *)
(* or is as long as a whole backfill.                                      *)
Enough == Smaller(History, MaxBackfill)

Joins(F, B) ==
  \E lo, hi \in Times :
    /\ F = lo .. hi /\ 1 <= lo /\ lo <= hi
    /\ lo = 1 \/ lo - 1 \in B \/ hi - lo + 1 >= Enough

Later(s, B) == {b \in B : b > s}

Gapless(B) ==
  /\ B = {} \/ 1 \in B \/ Cardinality(B) >= Enough
  /\ \A s \in Times \ B :
       (\E a \in B : a < s) /\ (\E b \in B : b > s) => Cardinality(Later(s, B)) >= Enough

Joined ==
  ~late => /\ \A w \in Workers : pc[w] = "bars" => Joins(fresh[w], bars)
           /\ Gapless(bars)

IngestInv ==
  /\ TypeOK /\ Carried /\ NotOfTheFuture /\ ContainedOnce /\ Sole /\ Waiting
  /\ AppliedIsAnnounced /\ StatsFollow /\ Joined

-----------------------------------------------------------------------------
(* Numbers and finite sets. *)

(* A nonempty set of natural numbers has a least member. *)
LEMMA LowestIsLeast ==
  ASSUME NEW S \in SUBSET Nat, S # {}
  PROVE  Lowest(S) \in S /\ \A y \in S : Lowest(S) <= y
<1> DEFINE R == OpToRel(<, Nat)
<1>1. \E x \in S : \A y \in S : ~(<<y, x>> \in R)
  <2> HIDE DEF R
  <2>1. IsWellFoundedOn(R, Nat)
    BY NatLessThanWellFounded DEF R
  <2> QED
    BY <2>1, WFMin
<1>2. PICK x \in S : \A y \in S : ~(<<y, x>> \in R)
  BY <1>1
<1>3. \A y \in S : ~(y < x)
  BY <1>2 DEF OpToRel
<1>4. \A y \in S : x <= y
  BY <1>3
<1>5. QED
  BY <1>4 DEF Lowest

(* A nonempty set of natural numbers below a bound has a greatest member. *)
LEMMA HighestIsGreatest ==
  ASSUME NEW n \in Nat, NEW S \in SUBSET (0 .. n), S # {}
  PROVE  Highest(S) \in S /\ \A y \in S : y <= Highest(S)
<1> DEFINE T == {n - y : y \in S}
<1>0. \A y \in S : y \in Int /\ n - y \in Nat
  OBVIOUS
<1>1. T \in SUBSET Nat /\ T # {}
  BY <1>0
<1>2. PICK t \in T : \A u \in T : t <= u
  <2> HIDE DEF T
  <2> QED
    BY <1>1, LowestIsLeast
<1>3. PICK x \in S : t = n - x
  BY <1>2
<1>4. \A y \in S : n - x <= n - y
  BY <1>2, <1>3
<1>5. \A y \in S : y <= x
  BY <1>0, <1>4
<1>6. QED
  BY <1>5 DEF Highest

LEMMA SplitsFinite ==
  /\ IsFiniteSet(Splits) /\ Splits \subseteq Nat
  /\ \A T \in SUBSET Splits :
       /\ IsFiniteSet(T) /\ Cardinality(T) \in Nat /\ Cardinality(T) <= Cardinality(Splits)
  /\ Cardinality(Splits) \in Nat
<1>1. MaxNow \in Nat /\ Splits \subseteq 1 .. MaxNow
  BY SplitsAssumption, BoundsAssumption
<1>2. IsFiniteSet(1 .. MaxNow)
  BY <1>1, FS_Interval
<1>3. IsFiniteSet(Splits)
  BY <1>1, <1>2, FS_Subset
<1>4. ASSUME NEW T \in SUBSET Splits
      PROVE  IsFiniteSet(T) /\ Cardinality(T) \in Nat /\ Cardinality(T) <= Cardinality(Splits)
  BY <1>3, FS_Subset, FS_CardinalityType
<1>5. Cardinality(Splits) \in Nat
  BY <1>3, FS_CardinalityType
<1>6. QED
  BY <1>1, <1>3, <1>4, <1>5

LEMMA TimesFinite ==
  \A T \in SUBSET Times : IsFiniteSet(T) /\ Cardinality(T) \in Nat
<1>1. IsFiniteSet(Times)
  BY FS_Interval, BoundsAssumption DEF Times
<1>2. QED
  BY <1>1, FS_Subset, FS_CardinalityType

(* The n latest of the first c sessions. *)
LEMMA LatestOfClosed ==
  ASSUME NEW c \in Nat, NEW n \in Nat
  PROVE  Latest(SessionsUpTo(c), n) = {x \in 1 .. c : c - x < n}
<1>1. ASSUME NEW x \in 1 .. c
      PROVE  Cardinality({y \in 1 .. c : y > x}) = c - x
  <2>1. {y \in 1 .. c : y > x} = (x + 1) .. c
    OBVIOUS
  <2>2. Cardinality((x + 1) .. c) = IF x + 1 > c THEN 0 ELSE c - (x + 1) + 1
    BY FS_Interval
  <2>3. Cardinality((x + 1) .. c) = c - x
    BY <2>2
  <2>4. QED
    BY <2>1, <2>3
<1>2. QED
  BY <1>1 DEF Latest, SessionsUpTo

(* The greatest member of a set of instants is among its latest. *)
LEMMA HighestIsLatest ==
  ASSUME NEW S \in SUBSET Times, S # {}, NEW n \in Nat \ {0}
  PROVE  Highest(S) \in Latest(S, n)
<1> DEFINE h == Highest(S)
<1>1. h \in S /\ \A y \in S : y <= h
  BY HighestIsGreatest, BoundsAssumption DEF Times
<1>2. {y \in S : y > h} = {}
  <2>1. \A y \in S : y \in Int
    BY BoundsAssumption DEF Times
  <2>2. ASSUME NEW y \in S PROVE ~(y > h)
    <3> HIDE DEF h
    <3> QED BY <1>1, <2>1
  <2>3. QED
    BY <2>2
<1>3. Cardinality({y \in S : y > h}) < n
  BY <1>2, FS_EmptySet
<1>4. QED
  BY <1>1, <1>3 DEF Latest

-----------------------------------------------------------------------------
(* Type correctness. *)

(* What a worker handles next is among what it has to do. *)
LEMMA SplitType ==
  ASSUME TypeOK, NEW w \in Workers, todo[w] # {}
  PROVE  split(w) \in todo[w] /\ split(w) \in Splits
<1>1. todo[w] \in SUBSET Splits
  BY DEF TypeOK
<1>2. todo[w] \in SUBSET Nat
  BY <1>1, SplitsFinite
<1>3. Lowest(todo[w]) \in todo[w]
  BY <1>2, LowestIsLeast
<1>4. QED
  BY <1>1, <1>3 DEF split

LEMMA TimesType ==
  /\ Times = 0 .. MaxNow /\ MaxNow \in Nat
  /\ Start \in Times /\ 0 \in Times /\ Splits \subseteq Times
  /\ \A t \in Times : t \in Int /\ SessionsUpTo(t) \subseteq Times
  BY BoundsAssumption, SplitsAssumption DEF Times, SessionsUpTo

LEMMA InitTypeOK == Init => TypeOK
<1> SUFFICES ASSUME Init PROVE TypeOK
  OBVIOUS
<1>1. 0 \in Nat /\ 0 \in 0 .. MaxCrashes /\ 0 \in 0 .. MaxAcks
  BY BoundsAssumption
<1>2. QED
  BY <1>1, TimesType DEF Init, TypeOK, Labels, Optional

(* A price with one more split. *)
LEMMA ScaledType ==
  ASSUME NEW p \in Optional(Prices), NEW s \in Splits
  PROVE  Scaled(p, s) \in Optional(Prices)
  BY DEF Scaled, Prices, Optional

(* How many sessions a cycle asks for. *)
LEMMA WantedType ==
  ASSUME TypeOK, NotOfTheFuture, NEW w \in Workers, ~UpToDate(w)
  PROVE  /\ Wanted(w) \in 1 .. History + MaxBackfill
         /\ bars = {} => Wanted(w) = History
         /\ bars # {} => /\ Highest(bars) \in bars /\ Highest(bars) < now[w]
                        /\ \/ Wanted(w) = now[w] - Highest(bars) + 1
                           \/ Wanted(w) = MaxBackfill
<1>1. History \in Nat /\ History >= 1 /\ MaxBackfill \in Nat /\ MaxBackfill >= 1
  BY BoundsAssumption
<1>2. now[w] \in Int /\ bars \in SUBSET Times /\ \A b \in bars : b \in Int
  BY TimesType DEF TypeOK
<1>3. CASE bars = {}
  BY <1>1, <1>3 DEF Wanted
<1>4. CASE bars # {}
  <2>1. PICK h \in bars : h = Highest(bars)
    BY <1>2, <1>4, TimesType, HighestIsGreatest
  <2>2. h \in Int /\ h < now[w]
    BY <1>2, <1>4, <2>1 DEF UpToDate
  <2>3. Wanted(w) = Smaller(now[w] - h + 1, MaxBackfill)
    BY <1>4, <2>1 DEF Wanted
  <2>4. now[w] - h + 1 \in Nat /\ now[w] - h + 1 >= 1
    BY <1>2, <2>2
  <2>5. /\ Wanted(w) \in 1 .. History + MaxBackfill
        /\ Wanted(w) = now[w] - h + 1 \/ Wanted(w) = MaxBackfill
    BY <1>1, <2>3, <2>4 DEF Smaller
  <2>6. QED
    BY <1>4, <2>1, <2>2, <2>5
<1>5. QED
  BY <1>3, <1>4

LEMMA StepTypeOK == IngestInv /\ [Next]_vars => TypeOK'
<1> SUFFICES ASSUME IngestInv, [Next]_vars PROVE TypeOK'
  OBVIOUS
<1> USE DEF Goto, Finish, market, actions, user, worker, history
<1>1. TypeOK /\ Carried /\ NotOfTheFuture
  BY DEF IngestInv
<1>2. CASE UNCHANGED vars
  BY <1>1, <1>2 DEF TypeOK, vars
<1>3. CASE Tick
  <2>1. clock' \in Times
    BY <1>1, <1>3, TimesType DEF TypeOK, Tick
  <2>2. QED
    BY <1>1, <1>3, <2>1 DEF TypeOK, Tick
<1>4. CASE AckRead
  <2>1. clock \in Times
    BY <1>1 DEF TypeOK
  <2>2. (IF quote = None THEN None ELSE PriceAt(quote)) \in Optional(Prices)
    BY DEF PriceAt, Prices, Optional
  <2>3. ack' \in Acks
    BY <1>4, <2>1, <2>2 DEF AckRead, Acks
  <2>4. acks' \in 0 .. MaxAcks
    BY <1>1, <1>4, BoundsAssumption DEF TypeOK, AckRead
  <2>5. QED
    BY <1>1, <1>4, <2>3, <2>4 DEF TypeOK, AckRead, Optional
<1>5. CASE advanceMarks
  <2>1. ack \in Acks
    BY <1>1, <1>5 DEF TypeOK, advanceMarks, Optional
  <2>2. mark # None => mark \in Marks
    BY <1>1 DEF TypeOK, Optional
  <2>3. mark' \in Marks
    BY <1>5, <2>1, <2>2 DEF advanceMarks, Acks, Marks, Optional
  <2>4. QED
    BY <1>1, <1>5, <2>3 DEF TypeOK, advanceMarks, Optional
<1>5a. CASE undoMarks
  BY <1>1, <1>5a DEF TypeOK, undoMarks, Optional
<1>6. ASSUME NEW w \in Workers, Ensure(w) PROVE TypeOK'
  BY <1>1, <1>6 DEF TypeOK, Ensure, Labels
<1>7. ASSUME NEW w \in Workers, upsertInstrument(w) PROVE TypeOK'
  BY <1>1, <1>7 DEF TypeOK, upsertInstrument, Labels
<1>8. ASSUME NEW w \in Workers, Seed(w) PROVE TypeOK'
  <2>1. [last |-> 0, want |-> History] \in Optional(Requests)
    BY TimesType, BoundsAssumption DEF Requests, Optional
  <2>2. QED
    BY <1>1, <1>8, <2>1 DEF TypeOK, Seed, Labels
<1>9. ASSUME NEW w \in Workers, NoHistory(w) PROVE TypeOK'
  BY <1>1, <1>9, TimesType DEF TypeOK, NoHistory, Labels, Optional
<1>9a. ASSUME NEW w \in Workers, NoSeed(w) PROVE TypeOK'
  BY <1>1, <1>9a DEF TypeOK, NoSeed, Labels, Optional
<1>10. ASSUME NEW w \in Workers, Enqueue(w) PROVE TypeOK'
  BY <1>1, <1>10 DEF TypeOK, Enqueue, Labels
<1>11. ASSUME NEW w \in Workers, Fetch(w) PROVE TypeOK'
  BY <1>1, <1>11 DEF TypeOK, Fetch, Labels, Optional
<1>12. ASSUME NEW w \in Workers, NotFound(w) PROVE TypeOK'
  BY <1>1, <1>12 DEF TypeOK, NotFound
<1>13. ASSUME NEW w \in Workers, upsertQuote(w) PROVE TypeOK'
  BY <1>1, <1>13 DEF TypeOK, upsertQuote, Labels, Optional
<1>14. ASSUME NEW w \in Workers, Revive(w) PROVE TypeOK'
  BY <1>1, <1>14 DEF TypeOK, Revive, Labels
<1>15. ASSUME NEW w \in Workers, Backfill(w) PROVE TypeOK'
  <2>1. Wanted(w) \in 1 .. History + MaxBackfill
    BY <1>1, <1>15, WantedType DEF Backfill
  <2>2. (IF bars = {} THEN 0 ELSE Highest(bars)) \in Times
    BY <1>1, TimesType, HighestIsGreatest DEF TypeOK
  <2>3. asked' \in [Workers -> Optional(Requests)]
    BY <1>1, <1>15, <2>1, <2>2 DEF TypeOK, Backfill, Requests, Optional
  <2>4. QED
    BY <1>1, <1>15, <2>3 DEF TypeOK, Backfill, Labels
<1>15a. ASSUME NEW w \in Workers, getHistory(w) PROVE TypeOK'
  <2>1. Answer(w) \in SUBSET Times
    BY <1>1, TimesType DEF Answer, Latest, TypeOK
  <2>2. late' \in BOOLEAN
    BY <1>1, <1>15a DEF getHistory, TypeOK
  <2>3. QED
    BY <1>1, <1>15a, <2>1, <2>2, TimesType DEF TypeOK, getHistory, Labels, Optional
<1>16. ASSUME NEW w \in Workers, NoBackfill(w) PROVE TypeOK'
  BY <1>1, <1>16, TimesType DEF TypeOK, NoBackfill, Labels, Optional
<1>17. ASSUME NEW w \in Workers, upsertBars(w) PROVE TypeOK'
  BY <1>1, <1>17 DEF TypeOK, upsertBars, Labels
<1>18. ASSUME NEW w \in Workers, Sync(w) PROVE TypeOK'
  BY <1>1, <1>18 DEF TypeOK, Sync, Labels
<1>19. ASSUME NEW w \in Workers, Record(w) PROVE TypeOK'
  BY <1>1, <1>19 DEF TypeOK, Record, Recorded, Labels
<1>20. ASSUME NEW w \in Workers, pendingSplits(w) PROVE TypeOK'
  BY <1>1, <1>20 DEF TypeOK, pendingSplits, Labels
<1>21. ASSUME NEW w \in Workers, rescaleMarks(w) PROVE TypeOK'
  <2>1. split(w) \in Splits
    BY <1>1, <1>21, SplitType DEF rescaleMarks, Carried
  <2>2. scaled' \in [Splits -> Nat]
    BY <1>1, <1>21, <2>1 DEF TypeOK, rescaleMarks
  <2>3. ASSUME mark # None PROVE mark' \in Marks
    <3>1. mark \in Marks /\ mark' = Rescaled(mark, split(w))
      BY <1>1, <1>21, <2>3 DEF TypeOK, Optional, rescaleMarks
    <3>2. /\ Scaled(mark.price, split(w)) \in Optional(Prices)
          /\ Scaled(mark.prevPrice, split(w)) \in Optional(Prices)
      BY <2>1, <3>1, ScaledType DEF Marks
    <3>3. QED
      BY <3>1, <3>2 DEF Rescaled, Marks
  <2>4. mark' \in Optional(Marks)
    BY <1>21, <2>3 DEF rescaleMarks, Optional
  <2>5. QED
    BY <1>1, <1>21, <2>2, <2>4 DEF TypeOK, rescaleMarks, Labels
<1>22. ASSUME NEW w \in Workers, SkipSplit(w) PROVE TypeOK'
  BY <1>1, <1>22 DEF TypeOK, SkipSplit, NextSplit, Labels
<1>23. ASSUME NEW w \in Workers, markApplied(w) PROVE TypeOK'
  BY <1>1, <1>23 DEF TypeOK, markApplied, Labels
<1>24. ASSUME NEW w \in Workers, announce(w) PROVE TypeOK'
  <2>1. split(w) \in Splits
    BY <1>1, <1>24, SplitType DEF announce, Carried
  <2>2. QED
    BY <1>1, <1>24, <2>1 DEF TypeOK, announce, NextSplit, Labels
<1>25. ASSUME NEW w \in Workers, getBars(w) PROVE TypeOK'
  <2>1. Latest(bars, History) \in SUBSET Times
    BY <1>1 DEF Latest, TypeOK
  <2>2. CASE Cardinality(bars) < 2
    <3>1. Finish(w) /\ UNCHANGED <<clock, market, actions, user, history>>
      BY <1>25, <2>2 DEF getBars
    <3>2. QED
      BY <1>1, <3>1, TimesType DEF TypeOK, Labels, Optional
  <2>3. CASE ~(Cardinality(bars) < 2)
    BY <1>1, <1>25, <2>1, <2>3 DEF TypeOK, getBars, Labels
  <2>4. QED
    BY <2>2, <2>3
<1>26. ASSUME NEW w \in Workers, upsertStats(w) PROVE TypeOK'
  <2>1. stale' \in BOOLEAN
    BY <1>26 DEF upsertStats
  <2>2. QED
    BY <1>1, <1>26, <2>1, TimesType DEF TypeOK, upsertStats, Labels, Optional
<1>27. ASSUME NEW w \in Workers, Crash(w) PROVE TypeOK'
  <2>1. stale' \in BOOLEAN
    BY <1>27 DEF Crash
  <2>2. torn' \in SUBSET Splits
    BY <1>1, <1>27, SplitType DEF Crash, TypeOK, Carried
  <2>3. crashes' \in 0 .. MaxCrashes
    BY <1>1, <1>27, BoundsAssumption DEF Crash, TypeOK
  <2>4. QED
    BY <1>1, <1>27, <2>1, <2>2, <2>3, TimesType DEF TypeOK, Crash, Labels, Optional
<1>28. QED
  BY <1>2, <1>3, <1>4, <1>5, <1>5a, <1>6, <1>7, <1>8, <1>9, <1>9a, <1>10, <1>11, <1>12, <1>13,
     <1>14, <1>15, <1>15a, <1>16, <1>17, <1>18, <1>19, <1>20, <1>21, <1>22, <1>23, <1>24, <1>25,
     <1>26, <1>27
  DEF Next

-----------------------------------------------------------------------------
(* The parts of the invariant. *)

LEMMA StepCarried == IngestInv /\ [Next]_vars => Carried'
<1> SUFFICES ASSUME IngestInv, [Next]_vars PROVE Carried'
  OBVIOUS
<1> USE DEF Goto, Finish, market, actions, user, worker, history
<1>1. TypeOK /\ Carried
  BY DEF IngestInv
<1>2. CASE UNCHANGED vars
  BY <1>1, <1>2 DEF TypeOK, Carried, split, vars
<1>3. CASE Tick
  BY <1>1, <1>3 DEF TypeOK, Carried, split, Tick
<1>4. CASE AckRead
  BY <1>1, <1>4 DEF TypeOK, Carried, split, AckRead
<1>5. CASE advanceMarks
  BY <1>1, <1>5 DEF TypeOK, Carried, split, advanceMarks
<1>5a. CASE undoMarks
  BY <1>1, <1>5a DEF TypeOK, Carried, split, undoMarks
<1>6. ASSUME NEW w \in Workers, Ensure(w) PROVE Carried'
  BY <1>1, <1>6 DEF TypeOK, Carried, split, Ensure
<1>7. ASSUME NEW w \in Workers, upsertInstrument(w) PROVE Carried'
  BY <1>1, <1>7 DEF TypeOK, Carried, split, upsertInstrument
<1>8. ASSUME NEW w \in Workers, Seed(w) PROVE Carried'
  BY <1>1, <1>8 DEF TypeOK, Carried, split, Seed
<1>9. ASSUME NEW w \in Workers, NoHistory(w) PROVE Carried'
  BY <1>1, <1>9 DEF TypeOK, Carried, split, NoHistory
<1>9a. ASSUME NEW w \in Workers, NoSeed(w) PROVE Carried'
  BY <1>1, <1>9a DEF TypeOK, Carried, split, NoSeed
<1>10. ASSUME NEW w \in Workers, Enqueue(w) PROVE Carried'
  BY <1>1, <1>10 DEF TypeOK, Carried, split, Enqueue
<1>11. ASSUME NEW w \in Workers, Fetch(w) PROVE Carried'
  <2>1. clock # None
    BY <1>1, AbsentAssumption DEF TypeOK
  <2>2. got'[w] # None
    BY <1>1, <1>11, <2>1 DEF Fetch, TypeOK
  <2>3. QED
    BY <1>1, <1>11, <2>2 DEF TypeOK, Carried, split, Fetch
<1>12. ASSUME NEW w \in Workers, NotFound(w) PROVE Carried'
  BY <1>1, <1>12 DEF TypeOK, Carried, split, NotFound
<1>13. ASSUME NEW w \in Workers, upsertQuote(w) PROVE Carried'
  BY <1>1, <1>13 DEF TypeOK, Carried, split, upsertQuote
<1>14. ASSUME NEW w \in Workers, Revive(w) PROVE Carried'
  BY <1>1, <1>14 DEF TypeOK, Carried, split, Revive
<1>15. ASSUME NEW w \in Workers, Backfill(w) PROVE Carried'
  BY <1>1, <1>15 DEF TypeOK, Carried, split, Backfill
<1>15a. ASSUME NEW w \in Workers, getHistory(w) PROVE Carried'
  BY <1>1, <1>15a DEF TypeOK, Carried, split, getHistory
<1>16. ASSUME NEW w \in Workers, NoBackfill(w) PROVE Carried'
  BY <1>1, <1>16 DEF TypeOK, Carried, split, NoBackfill
<1>17. ASSUME NEW w \in Workers, upsertBars(w) PROVE Carried'
  BY <1>1, <1>17 DEF TypeOK, Carried, split, upsertBars
<1>18. ASSUME NEW w \in Workers, Sync(w) PROVE Carried'
  BY <1>1, <1>18 DEF TypeOK, Carried, split, Sync
<1>19. ASSUME NEW w \in Workers, Record(w) PROVE Carried'
  BY <1>1, <1>19 DEF TypeOK, Carried, split, Record
<1>20. ASSUME NEW w \in Workers, pendingSplits(w) PROVE Carried'
  BY <1>1, <1>20 DEF TypeOK, Carried, split, pendingSplits
<1>21. ASSUME NEW w \in Workers, rescaleMarks(w) PROVE Carried'
  BY <1>1, <1>21 DEF TypeOK, Carried, split, rescaleMarks
<1>22. ASSUME NEW w \in Workers, SkipSplit(w) PROVE Carried'
  BY <1>1, <1>22 DEF TypeOK, Carried, split, SkipSplit, NextSplit
<1>23. ASSUME NEW w \in Workers, markApplied(w) PROVE Carried'
  BY <1>1, <1>23 DEF TypeOK, Carried, split, markApplied
<1>24. ASSUME NEW w \in Workers, announce(w) PROVE Carried'
  BY <1>1, <1>24 DEF TypeOK, Carried, split, announce, NextSplit
<1>25. ASSUME NEW w \in Workers, getBars(w) PROVE Carried'
  <2>1. Latest(bars, History) \in SUBSET bars
    BY DEF Latest
  <2>2. ASSUME pc'[w] = "write" PROVE Latest(bars, History) # {}
    <3>1. IsFiniteSet({}) /\ Cardinality({}) = 0
      BY FS_EmptySet
    <3>2. ~(Cardinality(bars) < 2)
      BY <1>1, <1>25, <2>2 DEF getBars, TypeOK
    <3>3. bars # {}
      BY <3>1, <3>2
    <3>4. QED
      BY <1>1, <3>3, HighestIsLatest, BoundsAssumption DEF TypeOK
  <2>3. QED
    BY <1>1, <1>25, <2>1, <2>2 DEF TypeOK, Carried, split, getBars
<1>26. ASSUME NEW w \in Workers, upsertStats(w) PROVE Carried'
  BY <1>1, <1>26 DEF TypeOK, Carried, split, upsertStats
<1>27. ASSUME NEW w \in Workers, Crash(w) PROVE Carried'
  BY <1>1, <1>27 DEF TypeOK, Carried, split, Crash
<1>28. QED
  BY <1>2, <1>3, <1>4, <1>5, <1>5a, <1>6, <1>7, <1>8, <1>9, <1>9a, <1>10, <1>11, <1>12, <1>13,
     <1>14, <1>15, <1>15a, <1>16, <1>17, <1>18, <1>19, <1>20, <1>21, <1>22, <1>23, <1>24, <1>25,
     <1>26, <1>27
  DEF Next

(* A split that has come is in a session that has closed. *)
LEMMA ClosedSplits ==
  ASSUME NEW t \in Times
  PROVE  \A s \in Splits : s <= t => s \in SessionsUpTo(t)
<1>1. ASSUME NEW s \in Splits, s <= t PROVE s \in 1 .. t
  <2>1. MaxNow \in Nat /\ s \in 1 .. MaxNow /\ t \in Int
    BY SplitsAssumption, BoundsAssumption, TimesType
  <2>2. QED
    BY <1>1, <2>1
<1>2. QED
  BY <1>1 DEF SessionsUpTo

LEMMA StepDates == IngestInv /\ [Next]_vars => NotOfTheFuture'
<1> SUFFICES ASSUME IngestInv, [Next]_vars PROVE NotOfTheFuture'
  OBVIOUS
<1> USE DEF Goto, Finish, market, actions, user, worker, history
<1>1. TypeOK /\ Carried /\ NotOfTheFuture
  BY DEF IngestInv
<1>2. CASE UNCHANGED vars
  BY <1>1, <1>2 DEF TypeOK, NotOfTheFuture, OfItsTime, vars
<1>3. CASE Tick
  <2>1. clock \in Int /\ clock' = clock + 1 /\ SessionsUpTo(clock) \subseteq SessionsUpTo(clock')
    BY <1>1, <1>3, TimesType DEF TypeOK, Tick, SessionsUpTo
  <2>2. \A n \in Int : n <= clock => n <= clock'
    BY <2>1
  <2>3. ASSUME NEW q \in Optional(Times), OfItsTime(q)
        PROVE  q # None => q <= clock'
    BY <2>2, <2>3, TimesType DEF OfItsTime, Optional
  <2>4. (OfItsTime(quote) /\ \A w \in Workers : OfItsTime(got[w]))'
    BY <1>1, <1>3, <2>3 DEF TypeOK, Tick, NotOfTheFuture, OfItsTime
  <2>7. \A w \in Workers : now[w] <= clock'
    BY <1>1, <2>2, TimesType DEF TypeOK, NotOfTheFuture
  <2>8. \A s \in Splits : table[s] # "unknown" \/ scaled[s] > 0 => s <= clock'
    BY <1>1, <2>2, SplitsFinite DEF NotOfTheFuture
  <2>9. clock' >= 1
    BY <1>1, <2>1 DEF NotOfTheFuture
  <2>10. QED
    BY <1>1, <1>3, <2>1, <2>4, <2>7, <2>8, <2>9 DEF NotOfTheFuture, Tick
<1>4. CASE AckRead
  BY <1>1, <1>4 DEF TypeOK, NotOfTheFuture, OfItsTime, AckRead
<1>5. CASE advanceMarks
  BY <1>1, <1>5 DEF TypeOK, NotOfTheFuture, OfItsTime, advanceMarks
<1>5a. CASE undoMarks
  BY <1>1, <1>5a DEF TypeOK, NotOfTheFuture, OfItsTime, undoMarks
<1>6. ASSUME NEW w \in Workers, Ensure(w) PROVE NotOfTheFuture'
  BY <1>1, <1>6 DEF TypeOK, NotOfTheFuture, OfItsTime, Ensure
<1>7. ASSUME NEW w \in Workers, upsertInstrument(w) PROVE NotOfTheFuture'
  BY <1>1, <1>7 DEF TypeOK, NotOfTheFuture, OfItsTime, upsertInstrument
<1>8. ASSUME NEW w \in Workers, Seed(w) PROVE NotOfTheFuture'
  BY <1>1, <1>8 DEF TypeOK, NotOfTheFuture, OfItsTime, Seed
<1>9. ASSUME NEW w \in Workers, NoHistory(w) PROVE NotOfTheFuture'
  <2>1. now'[w] <= clock
    BY <1>1, <1>9, TimesType DEF TypeOK, NotOfTheFuture, NoHistory
  <2>2. QED
    BY <1>1, <1>9, <2>1 DEF TypeOK, NotOfTheFuture, OfItsTime, NoHistory
<1>9a. ASSUME NEW w \in Workers, NoSeed(w) PROVE NotOfTheFuture'
  BY <1>1, <1>9a DEF TypeOK, NotOfTheFuture, OfItsTime, NoSeed
<1>10. ASSUME NEW w \in Workers, Enqueue(w) PROVE NotOfTheFuture'
  BY <1>1, <1>10 DEF TypeOK, NotOfTheFuture, OfItsTime, Enqueue
<1>11. ASSUME NEW w \in Workers, Fetch(w) PROVE NotOfTheFuture'
  <2>1. OfItsTime(got'[w]) /\ clock \in Int
    BY <1>1, <1>11, TimesType DEF TypeOK, Fetch, OfItsTime
  <2>2. now'[w] <= clock
    BY <1>1, <1>11, <2>1 DEF TypeOK, Fetch
  <2>3. QED
    BY <1>1, <1>11, <2>1, <2>2 DEF TypeOK, NotOfTheFuture, OfItsTime, Fetch
<1>12. ASSUME NEW w \in Workers, NotFound(w) PROVE NotOfTheFuture'
  BY <1>1, <1>12 DEF TypeOK, NotOfTheFuture, OfItsTime, NotFound
<1>13. ASSUME NEW w \in Workers, upsertQuote(w) PROVE NotOfTheFuture'
  BY <1>1, <1>13 DEF TypeOK, NotOfTheFuture, OfItsTime, upsertQuote
<1>14. ASSUME NEW w \in Workers, Revive(w) PROVE NotOfTheFuture'
  BY <1>1, <1>14 DEF TypeOK, NotOfTheFuture, OfItsTime, Revive
<1>15. ASSUME NEW w \in Workers, Backfill(w) PROVE NotOfTheFuture'
  BY <1>1, <1>15 DEF TypeOK, NotOfTheFuture, OfItsTime, Backfill
<1>15a. ASSUME NEW w \in Workers, getHistory(w) PROVE NotOfTheFuture'
  <2>1. Answer(w) \in SUBSET SessionsUpTo(clock)
    BY DEF Latest, Answer
  <2>2. now'[w] <= clock
    BY <1>1, <1>15a, TimesType DEF TypeOK, getHistory, NotOfTheFuture
  <2>3. QED
    BY <1>1, <1>15a, <2>1, <2>2 DEF TypeOK, NotOfTheFuture, OfItsTime, getHistory
<1>16. ASSUME NEW w \in Workers, NoBackfill(w) PROVE NotOfTheFuture'
  <2>1. now'[w] <= clock
    BY <1>1, <1>16, TimesType DEF TypeOK, NotOfTheFuture, NoBackfill
  <2>2. QED
    BY <1>1, <1>16, <2>1 DEF TypeOK, NotOfTheFuture, OfItsTime, NoBackfill
<1>17. ASSUME NEW w \in Workers, upsertBars(w) PROVE NotOfTheFuture'
  BY <1>1, <1>17 DEF TypeOK, NotOfTheFuture, OfItsTime, upsertBars
<1>18. ASSUME NEW w \in Workers, Sync(w) PROVE NotOfTheFuture'
  <2>1. {s \in Splits : s <= clock} \subseteq SessionsUpTo(clock)
    BY <1>1, ClosedSplits DEF TypeOK
  <2>2. QED
    BY <1>1, <1>18, <2>1 DEF TypeOK, NotOfTheFuture, OfItsTime, Sync
<1>19. ASSUME NEW w \in Workers, Record(w) PROVE NotOfTheFuture'
  <2>1. PICK s \in todo[w] : table' = [table EXCEPT ![s] = Recorded(s)]
                           /\ todo' = [todo EXCEPT ![w] = todo[w] \ {s}]
    BY <1>19 DEF Record
  <2>2. s <= clock
    BY <1>1, <2>1, TimesType DEF TypeOK, NotOfTheFuture, SessionsUpTo
  <2>3. QED
    BY <1>1, <1>19, <2>1, <2>2 DEF TypeOK, NotOfTheFuture, OfItsTime, Record
<1>20. ASSUME NEW w \in Workers, pendingSplits(w) PROVE NotOfTheFuture'
  <2>1. {s \in Splits : table[s] = "pending"} \subseteq SessionsUpTo(clock)
    BY <1>1, ClosedSplits DEF TypeOK, NotOfTheFuture
  <2>2. QED
    BY <1>1, <1>20, <2>1 DEF TypeOK, NotOfTheFuture, OfItsTime, pendingSplits
<1>21. ASSUME NEW w \in Workers, rescaleMarks(w) PROVE NotOfTheFuture'
  <2>1. split(w) \in todo[w]
    BY <1>1, <1>21, SplitType DEF Carried, rescaleMarks
  <2>2. split(w) <= clock
    BY <1>1, <2>1, TimesType DEF TypeOK, NotOfTheFuture, SessionsUpTo
  <2>4. \A s \in Splits : table[s] # "unknown" \/ scaled'[s] > 0 => s <= clock
    BY <1>1, <1>21, <2>2 DEF TypeOK, NotOfTheFuture, rescaleMarks
  <2>5. QED
    BY <1>1, <1>21, <2>4 DEF TypeOK, NotOfTheFuture, OfItsTime, rescaleMarks
<1>22. ASSUME NEW w \in Workers, SkipSplit(w) PROVE NotOfTheFuture'
  <2>1. split(w) \in todo[w]
    BY <1>1, <1>22, SplitType DEF Carried, SkipSplit
  <2>2. split(w) <= clock
    BY <1>1, <2>1, TimesType DEF TypeOK, NotOfTheFuture, SessionsUpTo
  <2>3. QED
    BY <1>1, <1>22, <2>2 DEF TypeOK, NotOfTheFuture, OfItsTime, SkipSplit, NextSplit
<1>23. ASSUME NEW w \in Workers, markApplied(w) PROVE NotOfTheFuture'
  <2>1. split(w) \in todo[w]
    BY <1>1, <1>23, SplitType DEF Carried, markApplied
  <2>2. split(w) <= clock
    BY <1>1, <2>1, TimesType DEF TypeOK, NotOfTheFuture, SessionsUpTo
  <2>3. QED
    BY <1>1, <1>23, <2>2 DEF TypeOK, NotOfTheFuture, OfItsTime, markApplied
<1>24. ASSUME NEW w \in Workers, announce(w) PROVE NotOfTheFuture'
  BY <1>1, <1>24 DEF TypeOK, NotOfTheFuture, OfItsTime, announce, NextSplit
<1>25. ASSUME NEW w \in Workers, getBars(w) PROVE NotOfTheFuture'
  <2>1. Latest(bars, History) \in SUBSET bars
    BY DEF Latest
  <2>2. now'[w] <= clock
    BY <1>1, <1>25, TimesType DEF TypeOK, getBars, NotOfTheFuture
  <2>3. QED
    BY <1>1, <1>25, <2>1, <2>2 DEF TypeOK, NotOfTheFuture, OfItsTime, getBars
<1>26. ASSUME NEW w \in Workers, upsertStats(w) PROVE NotOfTheFuture'
  <2>1. now'[w] <= clock
    BY <1>1, <1>26, TimesType DEF TypeOK, NotOfTheFuture, upsertStats
  <2>2. QED
    BY <1>1, <1>26, <2>1 DEF TypeOK, NotOfTheFuture, OfItsTime, upsertStats
<1>27. ASSUME NEW w \in Workers, Crash(w) PROVE NotOfTheFuture'
  <2>1. now'[w] <= clock
    BY <1>1, <1>27, TimesType DEF TypeOK, NotOfTheFuture, Crash
  <2>2. QED
    BY <1>1, <1>27, <2>1 DEF TypeOK, NotOfTheFuture, OfItsTime, Crash
<1>28. QED
  BY <1>2, <1>3, <1>4, <1>5, <1>5a, <1>6, <1>7, <1>8, <1>9, <1>9a, <1>10, <1>11, <1>12, <1>13,
     <1>14, <1>15, <1>15a, <1>16, <1>17, <1>18, <1>19, <1>20, <1>21, <1>22, <1>23, <1>24, <1>25,
     <1>26, <1>27
  DEF Next

(* A worker that marks or announces a split is handling it. *)
LEMMA AtMarkHandles ==
  ASSUME TypeOK, Carried, NEW v \in Workers, pc[v] \in {"mark", "announce"}
  PROVE  Handling(v, split(v)) /\ split(v) \in Splits \ Unit
  BY SplitType DEF Carried, Handling

(* What a step that leaves a split alone leaves of its record. *)
SameFor(s) ==
  /\ table'[s] = table[s] /\ scaled'[s] = scaled[s]
  /\ \A v \in Workers :
       /\ Handling(v, s)' => Handling(v, s)
       /\ pc'[v] = "mark" /\ split(v)' = s <=> pc[v] = "mark" /\ split(v) = s
       /\ Handling(v, s)' => (Announced(v, s)' <=> Announced(v, s))

LEMMA SameKept ==
  ASSUME Sole, NEW s \in Splits \ torn, SameFor(s)
  PROVE  InOrder(s)'
<1>1. AtMark(s)' <=> AtMark(s)
  BY DEF AtMark, SameFor
<1>2. OneWorker(s)'
  BY DEF InOrder, OneWorker, SameFor, Sole
<1>3. ASSUME NEW w \in Workers, Handling(w, s)'
      PROVE  table'[s] = IF Announced(w, s)' THEN "applied" ELSE "pending"
  BY <1>3 DEF SameFor, Sole, InOrder
<1>4. QED
  BY <1>1, <1>2, <1>3 DEF SameFor, Sole, InOrder

(* A step away from rescaling leaves every split alone. *)
LEMMA QuietSole ==
  ASSUME Sole, torn \subseteq torn', table' = table, scaled' = scaled,
         \A v \in Workers :
           \/ pc'[v] = pc[v] /\ todo'[v] = todo[v]
           \/ pc[v] # "mark" /\ pc'[v] \notin {"rescale", "mark", "announce"}
  PROVE  Sole'
<1>1. ASSUME NEW s \in Splits \ torn PROVE SameFor(s)
  BY DEF SameFor, Handling, Announced, split
<1>2. QED
  BY <1>1, SameKept DEF Sole

LEMMA StepSole == IngestInv /\ [Next]_vars => Sole'
<1> SUFFICES ASSUME IngestInv, [Next]_vars PROVE Sole'
  OBVIOUS
<1> USE DEF Goto, Finish, market, actions, user, worker, history
<1>1. TypeOK /\ Carried /\ Sole
  BY DEF IngestInv
<1>2. CASE UNCHANGED vars
  BY <1>1, <1>2, QuietSole DEF TypeOK, vars
<1>3. CASE Tick
  BY <1>1, <1>3, QuietSole DEF TypeOK, Tick
<1>4. CASE AckRead
  BY <1>1, <1>4, QuietSole DEF TypeOK, AckRead
<1>5. CASE advanceMarks
  BY <1>1, <1>5, QuietSole DEF TypeOK, advanceMarks
<1>5a. CASE undoMarks
  BY <1>1, <1>5a, QuietSole DEF TypeOK, undoMarks
<1>6. ASSUME NEW w \in Workers, Ensure(w) PROVE Sole'
  BY <1>1, <1>6, QuietSole DEF TypeOK, Ensure
<1>7. ASSUME NEW w \in Workers, upsertInstrument(w) PROVE Sole'
  BY <1>1, <1>7, QuietSole DEF TypeOK, upsertInstrument
<1>8. ASSUME NEW w \in Workers, Seed(w) PROVE Sole'
  BY <1>1, <1>8, QuietSole DEF TypeOK, Seed
<1>9. ASSUME NEW w \in Workers, NoHistory(w) PROVE Sole'
  BY <1>1, <1>9, QuietSole DEF TypeOK, NoHistory
<1>9a. ASSUME NEW w \in Workers, NoSeed(w) PROVE Sole'
  BY <1>1, <1>9a, QuietSole DEF TypeOK, NoSeed
<1>10. ASSUME NEW w \in Workers, Enqueue(w) PROVE Sole'
  BY <1>1, <1>10, QuietSole DEF TypeOK, Enqueue
<1>11. ASSUME NEW w \in Workers, Fetch(w) PROVE Sole'
  BY <1>1, <1>11, QuietSole DEF TypeOK, Fetch
<1>12. ASSUME NEW w \in Workers, NotFound(w) PROVE Sole'
  BY <1>1, <1>12, QuietSole DEF TypeOK, NotFound
<1>13. ASSUME NEW w \in Workers, upsertQuote(w) PROVE Sole'
  BY <1>1, <1>13, QuietSole DEF TypeOK, upsertQuote
<1>14. ASSUME NEW w \in Workers, Revive(w) PROVE Sole'
  BY <1>1, <1>14, QuietSole DEF TypeOK, Revive
<1>15. ASSUME NEW w \in Workers, Backfill(w) PROVE Sole'
  BY <1>1, <1>15, QuietSole DEF TypeOK, Backfill
<1>15a. ASSUME NEW w \in Workers, getHistory(w) PROVE Sole'
  BY <1>1, <1>15a, QuietSole DEF TypeOK, getHistory
<1>16. ASSUME NEW w \in Workers, NoBackfill(w) PROVE Sole'
  BY <1>1, <1>16, QuietSole DEF TypeOK, NoBackfill
<1>17. ASSUME NEW w \in Workers, upsertBars(w) PROVE Sole'
  BY <1>1, <1>17, QuietSole DEF TypeOK, upsertBars
<1>18. ASSUME NEW w \in Workers, Sync(w) PROVE Sole'
  BY <1>1, <1>18, QuietSole DEF TypeOK, Sync
<1>19. ASSUME NEW w \in Workers, Record(w) PROVE Sole'
  <2>1. PICK x \in todo[w] : table' = [table EXCEPT ![x] = Recorded(x)]
                            /\ todo' = [todo EXCEPT ![w] = todo[w] \ {x}]
    BY <1>19 DEF Record
  <2>2. x \in Splits
    BY <1>1 DEF TypeOK
  <2>3. ASSUME NEW s \in Splits \ torn, s = x, table[s] = "unknown"
        PROVE  InOrder(s)'
    <3>1. \A v \in Workers : ~Handling(v, s)
      BY <1>1, <2>3 DEF Sole, InOrder
    <3>2. \A v \in Workers : ~Handling(v, s)'
      BY <1>1, <1>19, <3>1 DEF TypeOK, Record, Handling
    <3>3. ~AtMark(s)
      BY <1>1, <3>1, AtMarkHandles DEF AtMark
    <3>4. ~AtMark(s)'
      BY <1>1, <1>19, <3>3 DEF TypeOK, Record, AtMark, split
    <3>5. table'[s] = "pending" /\ scaled'[s] = scaled[s]
      BY <1>1, <1>19, <2>1, <2>3 DEF TypeOK, Record, Recorded
    <3>6. scaled[s] = 0
      BY <1>1, <2>3, <3>3 DEF Sole, InOrder
    <3>7. QED
      BY <3>2, <3>4, <3>5, <3>6 DEF InOrder, OneWorker
  <2>4. ASSUME NEW s \in Splits \ torn, ~(s = x /\ table[s] = "unknown")
        PROVE  SameFor(s)
    <3>1. table'[s] = table[s]
      BY <1>1, <2>1, <2>2, <2>4 DEF TypeOK, Recorded
    <3>2. QED
      BY <1>1, <1>19, <3>1 DEF TypeOK, Record, SameFor, Handling, Announced, split
  <2>5. torn' = torn
    BY <1>19 DEF Record
  <2>6. QED
    BY <1>1, <2>3, <2>4, <2>5, SameKept DEF Sole
<1>20. ASSUME NEW w \in Workers, pendingSplits(w) PROVE Sole'
  <2> DEFINE pending == {s \in Splits : table[s] = "pending"}
  <2>1. /\ todo' = [todo EXCEPT ![w] = pending] /\ table' = table /\ scaled' = scaled
        /\ torn' = torn \cup {s \in pending : \E v \in Workers \ {w} : Handling(v, s)}
        /\ pc[w] = "pending" /\ pc' = [pc EXCEPT ![w] = IF pending = {} THEN "stats" ELSE "rescale"]
    BY <1>20 DEF pendingSplits
  <2>2. ASSUME NEW s \in Splits \ torn', s \in pending
        PROVE  InOrder(s)'
    <3>1. \A v \in Workers \ {w} : ~Handling(v, s)
      BY <2>1, <2>2
    <3>2. \A v \in Workers \ {w} : ~Handling(v, s)'
      BY <1>1, <2>1, <3>1 DEF TypeOK, Handling
    <3>3. table'[s] = "pending" /\ pc'[w] # "announce" /\ pc'[w] # "mark"
      BY <1>1, <2>1, <2>2 DEF TypeOK
    <3>4. ~AtMark(s)
      BY <1>1, <2>1, <3>1, AtMarkHandles DEF AtMark
    <3>5. ~AtMark(s)'
      BY <1>1, <2>1, <3>3, <3>4 DEF TypeOK, AtMark, split
    <3>6. scaled[s] = 0
      BY <1>1, <2>1, <2>2, <3>4 DEF Sole, InOrder
    <3>7. QED
      BY <2>1, <3>2, <3>3, <3>5, <3>6 DEF InOrder, OneWorker, Announced
  <2>3. ASSUME NEW s \in Splits \ torn', s \notin pending
        PROVE  SameFor(s)
    BY <1>1, <2>1, <2>3 DEF TypeOK, SameFor, Handling, Announced, split
  <2>4. torn \subseteq torn'
    BY <2>1
  <2>5. QED
    BY <1>1, <2>2, <2>3, <2>4, SameKept DEF Sole
<1>21. ASSUME NEW w \in Workers, rescaleMarks(w) PROVE Sole'
  <2>1. split(w) \in todo[w] /\ split(w) \in Splits /\ Handling(w, split(w))
    BY <1>1, <1>21, SplitType DEF Carried, rescaleMarks, Handling
  <2>2. ASSUME NEW s \in Splits \ torn, s = split(w)
        PROVE  InOrder(s)'
    <3>1. \A v \in Workers \ {w} : ~Handling(v, s)
      BY <1>1, <2>1, <2>2 DEF Sole, InOrder, OneWorker
    <3>2. \A v \in Workers \ {w} : ~Handling(v, s)'
      BY <1>1, <1>21, <3>1 DEF TypeOK, rescaleMarks, Handling
    <3>3. ~AtMark(s)
      BY <1>1, <1>21, <3>1, AtMarkHandles DEF AtMark, rescaleMarks
    <3>4. pc'[w] = "mark" /\ split(w)' = s /\ table'[s] = table[s] /\ s \notin Unit
          /\ scaled'[s] = scaled[s] + 1
      BY <1>1, <1>21, <2>1, <2>2 DEF TypeOK, rescaleMarks, split
    <3>5. table[s] = "pending"
      BY <1>1, <1>21, <2>1, <2>2 DEF Sole, InOrder, Announced, rescaleMarks
    <3>6. scaled[s] = 0
      BY <1>1, <2>2, <3>3, <3>5 DEF Sole, InOrder
    <3>7. AtMark(s)'
      BY <3>4 DEF AtMark
    <3>8. QED
      BY <3>2, <3>4, <3>5, <3>6, <3>7 DEF InOrder, OneWorker, Announced
  <2>3. ASSUME NEW s \in Splits \ torn, s # split(w)
        PROVE  SameFor(s)
    <3>1. table'[s] = table[s] /\ scaled'[s] = scaled[s]
      BY <1>1, <1>21, <2>1, <2>3 DEF TypeOK, rescaleMarks
    <3>2. \A v \in Workers \ {w} : pc'[v] = pc[v] /\ todo'[v] = todo[v]
      BY <1>1, <1>21 DEF TypeOK, rescaleMarks
    <3>3. Handling(w, s)' => Handling(w, s)
      BY <1>1, <1>21 DEF TypeOK, rescaleMarks, Handling
    <3>4. split(w)' = split(w) /\ pc'[w] = "mark" /\ pc[w] = "rescale"
      BY <1>1, <1>21 DEF TypeOK, rescaleMarks, split
    <3>5. QED
      BY <2>3, <3>1, <3>2, <3>3, <3>4 DEF SameFor, Handling, Announced, split
  <2>4. torn \subseteq torn'
    BY <1>21 DEF rescaleMarks
  <2>5. QED
    BY <1>1, <2>2, <2>3, <2>4, SameKept DEF Sole
<1>22. ASSUME NEW w \in Workers, SkipSplit(w) PROVE Sole'
  <2>1. split(w) \in todo[w] /\ split(w) \in Splits /\ Handling(w, split(w))
    BY <1>1, <1>22, SplitType DEF Carried, SkipSplit, Handling
  <2>2. ASSUME NEW s \in Splits \ torn, s = split(w)
        PROVE  InOrder(s)'
    <3>1. \A v \in Workers \ {w} : ~Handling(v, s)
      BY <1>1, <2>1, <2>2 DEF Sole, InOrder, OneWorker
    <3>2. \A v \in Workers \ {w} : ~Handling(v, s)'
      BY <1>1, <1>22, <3>1 DEF TypeOK, SkipSplit, NextSplit, Handling
    <3>3. ~Handling(w, s)' /\ s \in Unit /\ scaled'[s] = scaled[s]
      BY <1>1, <1>22, <2>2 DEF TypeOK, SkipSplit, NextSplit, Handling
    <3>4. scaled[s] = 0
      BY <1>1, <2>2, <3>3 DEF Sole, InOrder
    <3>5. QED
      BY <3>2, <3>3, <3>4 DEF InOrder, OneWorker
  <2>3. ASSUME NEW s \in Splits \ torn, s # split(w)
        PROVE  SameFor(s)
    <3>1. table'[s] = table[s] /\ scaled'[s] = scaled[s]
      BY <1>1, <1>22, <2>1, <2>3 DEF TypeOK, SkipSplit, NextSplit
    <3>2. \A v \in Workers \ {w} : pc'[v] = pc[v] /\ todo'[v] = todo[v]
      BY <1>1, <1>22 DEF TypeOK, SkipSplit, NextSplit
    <3>3. Handling(w, s)' => Handling(w, s)
      BY <1>1, <1>22 DEF TypeOK, SkipSplit, NextSplit, Handling
    <3>4. pc'[w] \in {"rescale", "stats"} /\ pc[w] # "mark" /\ (pc[w] = "announce" => split(w) # s)
      BY <1>1, <1>22, <2>3 DEF TypeOK, SkipSplit, NextSplit
    <3>5. QED
      BY <2>3, <3>1, <3>2, <3>3, <3>4 DEF SameFor, Handling, Announced, split
  <2>4. torn \subseteq torn'
    BY <1>22 DEF SkipSplit
  <2>5. QED
    BY <1>1, <2>2, <2>3, <2>4, SameKept DEF Sole
<1>23. ASSUME NEW w \in Workers, markApplied(w) PROVE Sole'
  <2>1. split(w) \in todo[w] /\ split(w) \in Splits /\ Handling(w, split(w))
    BY <1>1, <1>23, SplitType DEF Carried, markApplied, Handling
  <2>2. ASSUME NEW s \in Splits \ torn, s = split(w)
        PROVE  InOrder(s)'
    <3>1. \A v \in Workers \ {w} : ~Handling(v, s)
      BY <1>1, <2>1, <2>2 DEF Sole, InOrder, OneWorker
    <3>2. \A v \in Workers \ {w} : ~Handling(v, s)'
      BY <1>1, <1>23, <3>1 DEF TypeOK, markApplied, Handling
    <3>3. pc'[w] = "announce" /\ split(w)' = s /\ table'[s] = "applied" /\ s \notin Unit
          /\ scaled'[s] = scaled[s]
      BY <1>1, <1>23, <2>1, <2>2 DEF TypeOK, markApplied, split, Carried
    <3>4. AtMark(s)
      BY <1>23, <2>2 DEF AtMark, markApplied
    <3>5. scaled[s] = 1
      BY <1>1, <2>2, <3>3, <3>4 DEF Sole, InOrder
    <3>6. QED
      BY <3>2, <3>3, <3>5 DEF InOrder, OneWorker, Announced
  <2>3. ASSUME NEW s \in Splits \ torn, s # split(w)
        PROVE  SameFor(s)
    <3>1. table'[s] = table[s] /\ scaled'[s] = scaled[s]
      BY <1>1, <1>23, <2>1, <2>3 DEF TypeOK, markApplied
    <3>2. \A v \in Workers \ {w} : pc'[v] = pc[v] /\ todo'[v] = todo[v]
      BY <1>1, <1>23 DEF TypeOK, markApplied
    <3>3. Handling(w, s)' => Handling(w, s)
      BY <1>1, <1>23 DEF TypeOK, markApplied, Handling
    <3>4. split(w)' = split(w) /\ pc'[w] = "announce" /\ pc[w] = "mark"
      BY <1>1, <1>23 DEF TypeOK, markApplied, split
    <3>5. QED
      BY <2>3, <3>1, <3>2, <3>3, <3>4 DEF SameFor, Handling, Announced, split
  <2>4. torn \subseteq torn'
    BY <1>23 DEF markApplied
  <2>5. QED
    BY <1>1, <2>2, <2>3, <2>4, SameKept DEF Sole
<1>24. ASSUME NEW w \in Workers, announce(w) PROVE Sole'
  <2>1. split(w) \in todo[w] /\ split(w) \in Splits /\ Handling(w, split(w))
    BY <1>1, <1>24, SplitType DEF Carried, announce, Handling
  <2>2. ASSUME NEW s \in Splits \ torn, s = split(w)
        PROVE  InOrder(s)'
    <3>1. \A v \in Workers \ {w} : ~Handling(v, s)
      BY <1>1, <2>1, <2>2 DEF Sole, InOrder, OneWorker
    <3>2. \A v \in Workers \ {w} : ~Handling(v, s)'
      BY <1>1, <1>24, <3>1 DEF TypeOK, announce, NextSplit, Handling
    <3>3. ~Handling(w, s)' /\ table'[s] = table[s] /\ scaled'[s] = scaled[s]
      BY <1>1, <1>24, <2>2 DEF TypeOK, announce, NextSplit, Handling
    <3>4. table[s] = "applied"
      BY <1>1, <1>24, <2>1, <2>2 DEF Sole, InOrder, Announced, announce
    <3>5. scaled[s] = IF s \notin Unit THEN 1 ELSE 0
      BY <1>1, <2>2, <3>4 DEF Sole, InOrder
    <3>6. QED
      BY <3>2, <3>3, <3>4, <3>5 DEF InOrder, OneWorker
  <2>3. ASSUME NEW s \in Splits \ torn, s # split(w)
        PROVE  SameFor(s)
    <3>1. table'[s] = table[s] /\ scaled'[s] = scaled[s]
      BY <1>1, <1>24, <2>1, <2>3 DEF TypeOK, announce, NextSplit
    <3>2. \A v \in Workers \ {w} : pc'[v] = pc[v] /\ todo'[v] = todo[v]
      BY <1>1, <1>24 DEF TypeOK, announce, NextSplit
    <3>3. Handling(w, s)' => Handling(w, s)
      BY <1>1, <1>24 DEF TypeOK, announce, NextSplit, Handling
    <3>4. pc'[w] \in {"rescale", "stats"} /\ pc[w] # "mark" /\ (pc[w] = "announce" => split(w) # s)
      BY <1>1, <1>24, <2>3 DEF TypeOK, announce, NextSplit
    <3>5. QED
      BY <2>3, <3>1, <3>2, <3>3, <3>4 DEF SameFor, Handling, Announced, split
  <2>4. torn \subseteq torn'
    BY <1>24 DEF announce
  <2>5. QED
    BY <1>1, <2>2, <2>3, <2>4, SameKept DEF Sole
<1>25. ASSUME NEW w \in Workers, getBars(w) PROVE Sole'
  BY <1>1, <1>25, QuietSole DEF TypeOK, getBars
<1>26. ASSUME NEW w \in Workers, upsertStats(w) PROVE Sole'
  BY <1>1, <1>26, QuietSole DEF TypeOK, upsertStats
<1>27. ASSUME NEW w \in Workers, Crash(w) PROVE Sole'
  <2>1. /\ table' = table /\ scaled' = scaled /\ torn \subseteq torn' /\ pc'[w] = "idle"
        /\ \A v \in Workers \ {w} : pc'[v] = pc[v] /\ todo'[v] = todo[v]
    BY <1>1, <1>27 DEF TypeOK, Crash
  <2>2. ASSUME NEW s \in Splits \ torn' PROVE SameFor(s)
    <3>1. pc[w] = "mark" => split(w) # s
      BY <1>27, <2>2 DEF Crash
    <3>2. QED
      BY <2>1, <3>1 DEF SameFor, Handling, Announced, split
  <2>3. QED
    BY <1>1, <2>1, <2>2, SameKept DEF Sole
<1>28. QED
  BY <1>2, <1>3, <1>4, <1>5, <1>5a, <1>6, <1>7, <1>8, <1>9, <1>9a, <1>10, <1>11, <1>12, <1>13,
     <1>14, <1>15, <1>15a, <1>16, <1>17, <1>18, <1>19, <1>20, <1>21, <1>22, <1>23, <1>24, <1>25,
     <1>26, <1>27
  DEF Next

(* A step that leaves the checkpoints and what was applied to them. *)
LEMMA QuietContained ==
  ASSUME ContainedOnce, mark' = mark, ack' = ack, scaled' = scaled, torn \subseteq torn'
  PROVE  ContainedOnce'
  BY DEF ContainedOnce, Holds, Before, Older

LEMMA StepContained == IngestInv /\ [Next]_vars => ContainedOnce'
<1> SUFFICES ASSUME IngestInv, [Next]_vars PROVE ContainedOnce'
  OBVIOUS
<1> USE DEF Goto, Finish, market, actions, user, worker, history
<1>1. TypeOK /\ Carried /\ NotOfTheFuture /\ ContainedOnce /\ Sole
  BY DEF IngestInv
<1>2. CASE UNCHANGED vars
  BY <1>1, <1>2, QuietContained DEF vars
<1>3. CASE Tick
  BY <1>1, <1>3, QuietContained DEF Tick
<1>4. CASE AckRead
  <2>1. quote # None => quote \in Int /\ quote <= clock /\ clock \in Int
    BY <1>1, TimesType DEF TypeOK, Optional, NotOfTheFuture, OfItsTime
  <2>2. \A s \in Splits : Holds(ack'.price, ack'.at, s)
    BY <1>4, <2>1, SplitsFinite DEF AckRead, Holds, PriceAt
  <2>3. mark' = mark /\ scaled' = scaled /\ torn' = torn
    BY <1>4 DEF AckRead
  <2>4. \A s, price, at : Holds(price, at, s)' <=> Holds(price', at', s)
    BY <2>3 DEF Holds
  <2>5. QED
    BY <1>1, <2>2, <2>3 DEF ContainedOnce, Holds, Before, Older
<1>5. CASE advanceMarks
  <2>1. ack \in Acks /\ \A s \in Splits : Holds(ack.price, ack.at, s)
    BY <1>1, <1>5 DEF TypeOK, advanceMarks, Optional, ContainedOnce
  <2>2. scaled' = scaled /\ torn' = torn /\ ack' = None
    BY <1>5 DEF advanceMarks
  <2>3. CASE mark = None
    <3>1. mark' = [at |-> ack.at, price |-> ack.price, prevAt |-> None, prevPrice |-> None]
      BY <1>5, <2>3 DEF advanceMarks
    <3>2. QED
      BY <2>1, <2>2, <3>1 DEF ContainedOnce, Holds, Before, Older
  <2>4. CASE mark # None /\ ack.at >= mark.at
    <3>1. mark' = [at |-> ack.at, price |-> ack.price, prevAt |-> mark.at,
                   prevPrice |-> mark.price]
      BY <1>5, <2>4 DEF advanceMarks
    <3>2. mark \in Marks
      BY <1>1, <2>4 DEF TypeOK, Optional
    <3>3. mark.at \in Int /\ ack.at \in Int /\ mark.at # None
      BY <2>1, <3>2, TimesType, AbsentAssumption DEF Acks, Marks
    <3>4. mark.at <= ack.at
      BY <2>4, <3>3
    <3>5. \A s \in Splits \ torn : Holds(mark.price, mark.at, s)
      BY <1>1, <2>4 DEF ContainedOnce
    <3>6. QED
      BY <2>1, <2>2, <3>1, <3>3, <3>4, <3>5 DEF ContainedOnce, Holds, Before, Older
  <2>5. CASE mark # None /\ ~(ack.at >= mark.at)
    <3>1. mark' = mark
      BY <1>5, <2>5 DEF advanceMarks
    <3>2. QED
      BY <1>1, <2>2, <3>1 DEF ContainedOnce, Holds, Before, Older
  <2>6. QED
    BY <2>3, <2>4, <2>5
<1>5a. CASE undoMarks
  <2>1. scaled' = scaled /\ torn' = torn /\ ack' = ack /\ mark' = None
    BY <1>5a DEF undoMarks
  <2>2. QED
    BY <1>1, <2>1 DEF ContainedOnce, Holds
<1>6. ASSUME NEW w \in Workers, Ensure(w) PROVE ContainedOnce'
  BY <1>1, <1>6, QuietContained DEF Ensure
<1>7. ASSUME NEW w \in Workers, upsertInstrument(w) PROVE ContainedOnce'
  BY <1>1, <1>7, QuietContained DEF upsertInstrument
<1>8. ASSUME NEW w \in Workers, Seed(w) PROVE ContainedOnce'
  BY <1>1, <1>8, QuietContained DEF Seed
<1>9. ASSUME NEW w \in Workers, NoHistory(w) PROVE ContainedOnce'
  BY <1>1, <1>9, QuietContained DEF NoHistory
<1>9a. ASSUME NEW w \in Workers, NoSeed(w) PROVE ContainedOnce'
  BY <1>1, <1>9a, QuietContained DEF NoSeed
<1>10. ASSUME NEW w \in Workers, Enqueue(w) PROVE ContainedOnce'
  BY <1>1, <1>10, QuietContained DEF Enqueue
<1>11. ASSUME NEW w \in Workers, Fetch(w) PROVE ContainedOnce'
  BY <1>1, <1>11, QuietContained DEF Fetch
<1>12. ASSUME NEW w \in Workers, NotFound(w) PROVE ContainedOnce'
  BY <1>1, <1>12, QuietContained DEF NotFound
<1>13. ASSUME NEW w \in Workers, upsertQuote(w) PROVE ContainedOnce'
  BY <1>1, <1>13, QuietContained DEF upsertQuote
<1>14. ASSUME NEW w \in Workers, Revive(w) PROVE ContainedOnce'
  BY <1>1, <1>14, QuietContained DEF Revive
<1>15. ASSUME NEW w \in Workers, Backfill(w) PROVE ContainedOnce'
  BY <1>1, <1>15, QuietContained DEF Backfill
<1>15a. ASSUME NEW w \in Workers, getHistory(w) PROVE ContainedOnce'
  BY <1>1, <1>15a, QuietContained DEF getHistory
<1>16. ASSUME NEW w \in Workers, NoBackfill(w) PROVE ContainedOnce'
  BY <1>1, <1>16, QuietContained DEF NoBackfill
<1>17. ASSUME NEW w \in Workers, upsertBars(w) PROVE ContainedOnce'
  BY <1>1, <1>17, QuietContained DEF upsertBars
<1>18. ASSUME NEW w \in Workers, Sync(w) PROVE ContainedOnce'
  BY <1>1, <1>18, QuietContained DEF Sync
<1>19. ASSUME NEW w \in Workers, Record(w) PROVE ContainedOnce'
  BY <1>1, <1>19, QuietContained DEF Record
<1>20. ASSUME NEW w \in Workers, pendingSplits(w) PROVE ContainedOnce'
  BY <1>1, <1>20, QuietContained DEF pendingSplits
<1>21. ASSUME NEW w \in Workers, rescaleMarks(w) PROVE ContainedOnce'
  <2>1. split(w) \in todo[w] /\ split(w) \in Splits /\ Handling(w, split(w))
    BY <1>1, <1>21, SplitType DEF Carried, rescaleMarks, Handling
  <2>2. PICK x \in Splits : x = split(w)
    BY <2>1
  <2>3. /\ scaled' = [scaled EXCEPT ![x] = scaled[x] + 1] /\ torn' = torn /\ ack' = ack
        /\ mark' = IF mark = None THEN None ELSE Rescaled(mark, x)
    BY <1>21, <2>2 DEF rescaleMarks
  <2>4. \A s \in Splits : scaled[s] \in Nat /\ s \in Int
    BY <1>1, SplitsFinite DEF TypeOK
  <2>5. \A s \in Splits : scaled[s] >= 1 => scaled'[s] >= 1
    BY <1>1, <2>3, <2>4 DEF TypeOK
  <2>6. ASSUME ack # None PROVE \A s \in Splits : Holds(ack.price, ack.at, s)'
    <3>1. \A s \in Splits : Holds(ack.price, ack.at, s)
      BY <1>1, <2>6 DEF ContainedOnce
    <3>2. QED
      BY <2>3, <2>5, <3>1 DEF Holds
  <2>7. ASSUME mark # None
        PROVE  /\ Before(mark') /\ Older(mark')
               /\ \A s \in Splits \ torn :
                    /\ Holds(mark.price, mark.at, s)'
                    /\ Holds(mark.prevPrice, mark.prevAt, s)'
    <3>1. mark \in Marks /\ mark' = Rescaled(mark, x)
      BY <1>1, <2>3, <2>7 DEF TypeOK, Optional
    <3>2. /\ mark.at \in Int /\ mark.price \in Optional(Prices)
          /\ mark.prevPrice \in Optional(Prices) /\ mark.prevAt \in Optional(Times)
      BY <3>1, TimesType DEF Marks
    <3>3. /\ Before(mark) /\ Older(mark)
          /\ \A s \in Splits \ torn : /\ Holds(mark.price, mark.at, s)
                                     /\ Holds(mark.prevPrice, mark.prevAt, s)
      BY <1>1, <2>7 DEF ContainedOnce
    <3>4. CASE ~(mark.at < x /\ mark.price # None)
      <4>1. mark' = mark
        BY <3>1, <3>4 DEF Rescaled
      <4>2. QED
        BY <2>5, <3>3, <4>1 DEF Holds
    <3>5. CASE mark.at < x /\ mark.price # None
      <4>1. /\ mark'.at = mark.at /\ mark'.prevAt = mark.prevAt
            /\ mark'.price = Scaled(mark.price, x)
            /\ mark'.prevPrice = Scaled(mark.prevPrice, x)
        BY <3>1, <3>5 DEF Rescaled, Marks
      <4>2. x \notin torn => scaled[x] = 0
        <5>1. SUFFICES ASSUME x \notin torn PROVE scaled[x] = 0
          OBVIOUS
        <5>2. InOrder(x) /\ pc[w] = "rescale"
          BY <1>1, <1>21, <5>1 DEF Sole, rescaleMarks
        <5>3. table[x] = "pending" /\ \A v \in Workers : Handling(v, x) => v = w
          BY <5>2, <2>1, <2>2 DEF InOrder, OneWorker, Announced
        <5>4. ~AtMark(x)
          BY <1>1, <5>2, <5>3, AtMarkHandles DEF AtMark
        <5>5. QED
          BY <5>2, <5>3, <5>4 DEF InOrder
      <4>3. ASSUME NEW p \in Optional(Prices), NEW at, NEW s \in Splits \ torn, Holds(p, at, s),
                   s = x => ~(s <= at)
            PROVE  Scaled(p, x) # None => /\ Scaled(p, x)[s] <= 1
                                         /\ (Scaled(p, x)[s] = 1 => s <= at \/ scaled'[s] >= 1)
        <5>1. SUFFICES ASSUME Scaled(p, x) # None
                       PROVE  /\ Scaled(p, x)[s] <= 1
                              /\ (Scaled(p, x)[s] = 1 => s <= at \/ scaled'[s] >= 1)
          OBVIOUS
        <5>2. p # None /\ p \in [Splits -> Nat] /\ Scaled(p, x) = [p EXCEPT ![x] = p[x] + 1]
          BY <5>1 DEF Scaled, Optional, Prices
        <5>3. p[s] \in Nat /\ p[s] <= 1 /\ (p[s] = 1 => s <= at \/ scaled[s] >= 1)
          BY <4>3, <5>2 DEF Holds
        <5>4. CASE s = x
          <6>1. scaled[s] = 0 /\ p[s] = 0
            BY <4>2, <4>3, <5>3, <5>4
          <6>2. Scaled(p, x)[s] = 1
            BY <5>2, <5>4, <6>1
          <6>3. scaled'[s] >= 1
            BY <1>1, <2>3, <5>4, <6>1 DEF TypeOK
          <6>4. QED
            BY <6>2, <6>3
        <5>5. CASE s # x
          <6>1. Scaled(p, x)[s] = p[s]
            BY <5>2, <5>5
          <6>2. QED
            BY <2>5, <5>3, <6>1
        <5>6. QED
          BY <5>4, <5>5
      <4>4. ASSUME NEW s \in Splits \ torn PROVE Holds(mark.price, mark.at, s)'
        <5>1. s = x => ~(s <= mark.at)
          BY <2>4, <3>2, <3>5
        <5>2. Scaled(mark.price, x) # None =>
                /\ Scaled(mark.price, x)[s] <= 1
                /\ (Scaled(mark.price, x)[s] = 1 => s <= mark.at \/ scaled'[s] >= 1)
          BY <3>2, <3>3, <4>3, <5>1
        <5>3. QED
          BY <4>1, <5>2 DEF Holds
      <4>5. ASSUME NEW s \in Splits \ torn PROVE Holds(mark.prevPrice, mark.prevAt, s)'
        <5>1. CASE mark.prevAt = None
          <6>1. Scaled(mark.prevPrice, x) = None
            BY <3>3, <5>1 DEF Before, Scaled
          <6>2. QED
            BY <4>1, <6>1 DEF Holds
        <5>2. CASE mark.prevAt # None
          <6>1. mark.prevAt <= mark.at /\ mark.prevAt \in Int
            BY <3>2, <3>3, <5>2, TimesType DEF Older, Optional
          <6>2. s = x => ~(s <= mark.prevAt)
            BY <2>4, <3>2, <3>5, <6>1
          <6>3. Scaled(mark.prevPrice, x) # None =>
                  /\ Scaled(mark.prevPrice, x)[s] <= 1
                  /\ (Scaled(mark.prevPrice, x)[s] = 1 => s <= mark.prevAt \/ scaled'[s] >= 1)
            BY <3>2, <3>3, <4>3, <6>2
          <6>4. QED
            BY <4>1, <6>3 DEF Holds
        <5>3. QED
          BY <5>1, <5>2
      <4>6. Before(mark') /\ Older(mark')
        BY <3>3, <4>1 DEF Before, Older, Scaled
      <4>7. QED
        BY <4>4, <4>5, <4>6
    <3>6. QED
      BY <3>4, <3>5
  <2>8. (mark # None)' => mark # None
    BY <2>3
  <2>9. (ack # None)' => ack # None
    BY <2>3
  <2>10. QED
    BY <2>3, <2>6, <2>7, <2>8, <2>9 DEF ContainedOnce, Before, Older
<1>22. ASSUME NEW w \in Workers, SkipSplit(w) PROVE ContainedOnce'
  BY <1>1, <1>22, QuietContained DEF SkipSplit, NextSplit
<1>23. ASSUME NEW w \in Workers, markApplied(w) PROVE ContainedOnce'
  BY <1>1, <1>23, QuietContained DEF markApplied
<1>24. ASSUME NEW w \in Workers, announce(w) PROVE ContainedOnce'
  BY <1>1, <1>24, QuietContained DEF announce, NextSplit
<1>25. ASSUME NEW w \in Workers, getBars(w) PROVE ContainedOnce'
  BY <1>1, <1>25, QuietContained DEF getBars
<1>26. ASSUME NEW w \in Workers, upsertStats(w) PROVE ContainedOnce'
  BY <1>1, <1>26, QuietContained DEF upsertStats
<1>27. ASSUME NEW w \in Workers, Crash(w) PROVE ContainedOnce'
  BY <1>1, <1>27, QuietContained DEF Crash
<1>28. QED
  BY <1>2, <1>3, <1>4, <1>5, <1>5a, <1>6, <1>7, <1>8, <1>9, <1>9a, <1>10, <1>11, <1>12, <1>13,
     <1>14, <1>15, <1>15a, <1>16, <1>17, <1>18, <1>19, <1>20, <1>21, <1>22, <1>23, <1>24, <1>25,
     <1>26, <1>27
  DEF Next

(* A step that asks for nothing and withdraws nothing that was asked for. *)
LEMMA QuietWaiting ==
  ASSUME Waiting, bars \subseteq bars',
         \A v \in Workers : pc'[v] = "history" =>
                             pc[v] = "history" /\ asked'[v] = asked[v] /\ now'[v] = now[v]
  PROVE  Waiting'
<1>1. ASSUME NEW v \in Workers, pc'[v] = "history"
      PROVE  /\ asked'[v] # None
             /\ \/ asked'[v].last = 0 /\ asked'[v].want = History
                \/ /\ asked'[v].last \in bars' /\ asked'[v].last < now'[v]
                   /\ \/ asked'[v].want = now'[v] - asked'[v].last + 1
                      \/ asked'[v].want = MaxBackfill
  BY <1>1 DEF Waiting, Requested
<1>2. QED
  BY <1>1 DEF Waiting, Requested

LEMMA StepWaiting == IngestInv /\ [Next]_vars => Waiting'
<1> SUFFICES ASSUME IngestInv, [Next]_vars PROVE Waiting'
  OBVIOUS
<1> USE DEF Goto, Finish, market, actions, user, worker, history
<1>1. TypeOK /\ NotOfTheFuture /\ Waiting
  BY DEF IngestInv
<1>2. CASE UNCHANGED vars
  BY <1>1, <1>2, QuietWaiting DEF TypeOK, vars
<1>3. CASE Tick
  BY <1>1, <1>3, QuietWaiting DEF TypeOK, Tick
<1>4. CASE AckRead
  BY <1>1, <1>4, QuietWaiting DEF TypeOK, AckRead
<1>5. CASE advanceMarks
  BY <1>1, <1>5, QuietWaiting DEF TypeOK, advanceMarks
<1>5a. CASE undoMarks
  BY <1>1, <1>5a, QuietWaiting DEF TypeOK, undoMarks
<1>6. ASSUME NEW w \in Workers, Ensure(w) PROVE Waiting'
  BY <1>1, <1>6, QuietWaiting DEF TypeOK, Ensure
<1>7. ASSUME NEW w \in Workers, upsertInstrument(w) PROVE Waiting'
  BY <1>1, <1>7, QuietWaiting DEF TypeOK, upsertInstrument
<1>8. ASSUME NEW w \in Workers, Seed(w) PROVE Waiting'
  <2>1. CASE Cardinality(bars) >= History
    BY <1>1, <1>8, <2>1, QuietWaiting DEF TypeOK, Seed
  <2>2. CASE ~(Cardinality(bars) >= History)
    <3>1. /\ asked' = [asked EXCEPT ![w] = [last |-> 0, want |-> History]]
          /\ pc' = [pc EXCEPT ![w] = "history"] /\ bars' = bars /\ now' = now
      BY <1>8, <2>2 DEF Seed
    <3>2. [last |-> 0, want |-> History] # None
      BY TimesType, BoundsAssumption, AbsentAssumption DEF Requests
    <3>3. asked'[w] = [last |-> 0, want |-> History]
      BY <1>1, <3>1 DEF TypeOK
    <3>4. QED
      BY <1>1, <3>1, <3>2, <3>3 DEF TypeOK, Waiting, Requested
  <2>3. QED
    BY <2>1, <2>2
<1>9. ASSUME NEW w \in Workers, NoHistory(w) PROVE Waiting'
  BY <1>1, <1>9, QuietWaiting DEF TypeOK, NoHistory
<1>9a. ASSUME NEW w \in Workers, NoSeed(w) PROVE Waiting'
  BY <1>1, <1>9a, QuietWaiting DEF TypeOK, NoSeed
<1>10. ASSUME NEW w \in Workers, Enqueue(w) PROVE Waiting'
  BY <1>1, <1>10, QuietWaiting DEF TypeOK, Enqueue
<1>11. ASSUME NEW w \in Workers, Fetch(w) PROVE Waiting'
  BY <1>1, <1>11, QuietWaiting DEF TypeOK, Fetch
<1>12. ASSUME NEW w \in Workers, NotFound(w) PROVE Waiting'
  BY <1>1, <1>12, QuietWaiting DEF TypeOK, NotFound
<1>13. ASSUME NEW w \in Workers, upsertQuote(w) PROVE Waiting'
  BY <1>1, <1>13, QuietWaiting DEF TypeOK, upsertQuote
<1>14. ASSUME NEW w \in Workers, Revive(w) PROVE Waiting'
  BY <1>1, <1>14, QuietWaiting DEF TypeOK, Revive
<1>15. ASSUME NEW w \in Workers, Backfill(w) PROVE Waiting'
  <2> DEFINE req == [last |-> IF bars = {} THEN 0 ELSE Highest(bars), want |-> Wanted(w)]
  <2>1. /\ asked' = [asked EXCEPT ![w] = req] /\ ~UpToDate(w)
        /\ pc' = [pc EXCEPT ![w] = "history"] /\ bars' = bars /\ now' = now
    BY <1>15 DEF Backfill
  <2>2. /\ Wanted(w) \in 1 .. History + MaxBackfill
        /\ bars = {} => Wanted(w) = History
        /\ bars # {} => /\ Highest(bars) \in bars /\ Highest(bars) < now[w]
                       /\ \/ Wanted(w) = now[w] - Highest(bars) + 1
                          \/ Wanted(w) = MaxBackfill
    BY <1>1, <2>1, WantedType
  <2>3. req \in Requests
    BY <1>1, <2>2, TimesType DEF Requests, TypeOK
  <2>4. req # None
    BY <2>3, AbsentAssumption
  <2>5. asked'[w] = req
    BY <1>1, <2>1 DEF TypeOK
  <2>6. Requested(w)'
    BY <2>1, <2>2, <2>4, <2>5 DEF Requested
  <2>7. ASSUME NEW v \in Workers, v # w, pc'[v] = "history" PROVE Requested(v)'
    BY <1>1, <2>1, <2>7 DEF TypeOK, Waiting, Requested
  <2>8. QED
    BY <2>6, <2>7 DEF Waiting
<1>15a. ASSUME NEW w \in Workers, getHistory(w) PROVE Waiting'
  BY <1>1, <1>15a, QuietWaiting DEF TypeOK, getHistory
<1>16. ASSUME NEW w \in Workers, NoBackfill(w) PROVE Waiting'
  BY <1>1, <1>16, QuietWaiting DEF TypeOK, NoBackfill
<1>17. ASSUME NEW w \in Workers, upsertBars(w) PROVE Waiting'
  BY <1>1, <1>17, QuietWaiting DEF TypeOK, upsertBars
<1>18. ASSUME NEW w \in Workers, Sync(w) PROVE Waiting'
  BY <1>1, <1>18, QuietWaiting DEF TypeOK, Sync
<1>19. ASSUME NEW w \in Workers, Record(w) PROVE Waiting'
  BY <1>1, <1>19, QuietWaiting DEF TypeOK, Record
<1>20. ASSUME NEW w \in Workers, pendingSplits(w) PROVE Waiting'
  BY <1>1, <1>20, QuietWaiting DEF TypeOK, pendingSplits
<1>21. ASSUME NEW w \in Workers, rescaleMarks(w) PROVE Waiting'
  BY <1>1, <1>21, QuietWaiting DEF TypeOK, rescaleMarks
<1>22. ASSUME NEW w \in Workers, SkipSplit(w) PROVE Waiting'
  BY <1>1, <1>22, QuietWaiting DEF TypeOK, SkipSplit, NextSplit
<1>23. ASSUME NEW w \in Workers, markApplied(w) PROVE Waiting'
  BY <1>1, <1>23, QuietWaiting DEF TypeOK, markApplied
<1>24. ASSUME NEW w \in Workers, announce(w) PROVE Waiting'
  BY <1>1, <1>24, QuietWaiting DEF TypeOK, announce, NextSplit
<1>25. ASSUME NEW w \in Workers, getBars(w) PROVE Waiting'
  BY <1>1, <1>25, QuietWaiting DEF TypeOK, getBars
<1>26. ASSUME NEW w \in Workers, upsertStats(w) PROVE Waiting'
  BY <1>1, <1>26, QuietWaiting DEF TypeOK, upsertStats
<1>27. ASSUME NEW w \in Workers, Crash(w) PROVE Waiting'
  BY <1>1, <1>27, QuietWaiting DEF TypeOK, Crash
<1>28. QED
  BY <1>2, <1>3, <1>4, <1>5, <1>5a, <1>6, <1>7, <1>8, <1>9, <1>9a, <1>10, <1>11, <1>12, <1>13,
     <1>14, <1>15, <1>15a, <1>16, <1>17, <1>18, <1>19, <1>20, <1>21, <1>22, <1>23, <1>24, <1>25,
     <1>26, <1>27
  DEF Next

LEMMA QuietAnnounced ==
  ASSUME AppliedIsAnnounced, torn \subseteq torn', announced' = announced,
         \A s \in Splits : table'[s] = "applied" => table[s] = "applied",
         \A v \in Workers : \/ pc'[v] = pc[v] /\ todo'[v] = todo[v]
                            \/ pc[v] # "announce"
  PROVE  AppliedIsAnnounced'
  BY DEF AppliedIsAnnounced, split

LEMMA StepAnnounced == IngestInv /\ [Next]_vars => AppliedIsAnnounced'
<1> SUFFICES ASSUME IngestInv, [Next]_vars PROVE AppliedIsAnnounced'
  OBVIOUS
<1> USE DEF Goto, Finish, market, actions, user, worker, history
<1>1. TypeOK /\ AppliedIsAnnounced
  BY DEF IngestInv
<1>2. CASE UNCHANGED vars
  BY <1>1, <1>2, QuietAnnounced DEF TypeOK, vars
<1>3. CASE Tick
  BY <1>1, <1>3, QuietAnnounced DEF TypeOK, Tick
<1>4. CASE AckRead
  BY <1>1, <1>4, QuietAnnounced DEF TypeOK, AckRead
<1>5. CASE advanceMarks
  BY <1>1, <1>5, QuietAnnounced DEF TypeOK, advanceMarks
<1>5a. CASE undoMarks
  BY <1>1, <1>5a, QuietAnnounced DEF TypeOK, undoMarks
<1>6. ASSUME NEW w \in Workers, Ensure(w) PROVE AppliedIsAnnounced'
  BY <1>1, <1>6, QuietAnnounced DEF TypeOK, Ensure
<1>7. ASSUME NEW w \in Workers, upsertInstrument(w) PROVE AppliedIsAnnounced'
  BY <1>1, <1>7, QuietAnnounced DEF TypeOK, upsertInstrument
<1>8. ASSUME NEW w \in Workers, Seed(w) PROVE AppliedIsAnnounced'
  BY <1>1, <1>8, QuietAnnounced DEF TypeOK, Seed
<1>9. ASSUME NEW w \in Workers, NoHistory(w) PROVE AppliedIsAnnounced'
  BY <1>1, <1>9, QuietAnnounced DEF TypeOK, NoHistory
<1>9a. ASSUME NEW w \in Workers, NoSeed(w) PROVE AppliedIsAnnounced'
  BY <1>1, <1>9a, QuietAnnounced DEF TypeOK, NoSeed
<1>10. ASSUME NEW w \in Workers, Enqueue(w) PROVE AppliedIsAnnounced'
  BY <1>1, <1>10, QuietAnnounced DEF TypeOK, Enqueue
<1>11. ASSUME NEW w \in Workers, Fetch(w) PROVE AppliedIsAnnounced'
  BY <1>1, <1>11, QuietAnnounced DEF TypeOK, Fetch
<1>12. ASSUME NEW w \in Workers, NotFound(w) PROVE AppliedIsAnnounced'
  BY <1>1, <1>12, QuietAnnounced DEF TypeOK, NotFound
<1>13. ASSUME NEW w \in Workers, upsertQuote(w) PROVE AppliedIsAnnounced'
  BY <1>1, <1>13, QuietAnnounced DEF TypeOK, upsertQuote
<1>14. ASSUME NEW w \in Workers, Revive(w) PROVE AppliedIsAnnounced'
  BY <1>1, <1>14, QuietAnnounced DEF TypeOK, Revive
<1>15. ASSUME NEW w \in Workers, Backfill(w) PROVE AppliedIsAnnounced'
  BY <1>1, <1>15, QuietAnnounced DEF TypeOK, Backfill
<1>15a. ASSUME NEW w \in Workers, getHistory(w) PROVE AppliedIsAnnounced'
  BY <1>1, <1>15a, QuietAnnounced DEF TypeOK, getHistory
<1>16. ASSUME NEW w \in Workers, NoBackfill(w) PROVE AppliedIsAnnounced'
  BY <1>1, <1>16, QuietAnnounced DEF TypeOK, NoBackfill
<1>17. ASSUME NEW w \in Workers, upsertBars(w) PROVE AppliedIsAnnounced'
  BY <1>1, <1>17, QuietAnnounced DEF TypeOK, upsertBars
<1>18. ASSUME NEW w \in Workers, Sync(w) PROVE AppliedIsAnnounced'
  BY <1>1, <1>18, QuietAnnounced DEF TypeOK, Sync
<1>19. ASSUME NEW w \in Workers, Record(w) PROVE AppliedIsAnnounced'
  <2>1. \A s \in Splits : table'[s] = "applied" => table[s] = "applied"
    BY <1>1, <1>19 DEF TypeOK, Record, Recorded
  <2>2. QED
    BY <1>1, <1>19, <2>1, QuietAnnounced DEF TypeOK, Record
<1>20. ASSUME NEW w \in Workers, pendingSplits(w) PROVE AppliedIsAnnounced'
  BY <1>1, <1>20, QuietAnnounced DEF TypeOK, pendingSplits
<1>21. ASSUME NEW w \in Workers, rescaleMarks(w) PROVE AppliedIsAnnounced'
  BY <1>1, <1>21, QuietAnnounced DEF TypeOK, rescaleMarks
<1>22. ASSUME NEW w \in Workers, SkipSplit(w) PROVE AppliedIsAnnounced'
  <2>1. split(w) \in Unit /\ \A v \in Workers \ {w} : pc'[v] = pc[v] /\ todo'[v] = todo[v]
    BY <1>1, <1>22 DEF TypeOK, SkipSplit, NextSplit
  <2>2. \A s \in Splits \ Unit : table'[s] = table[s]
    BY <1>1, <1>22, <2>1 DEF TypeOK, SkipSplit
  <2>3. pc[w] # "announce" /\ announced' = announced /\ torn' = torn
    BY <1>22 DEF SkipSplit
  <2>4. QED
    BY <1>1, <2>1, <2>2, <2>3 DEF AppliedIsAnnounced, split
<1>23. ASSUME NEW w \in Workers, markApplied(w) PROVE AppliedIsAnnounced'
  <2>1. \A v \in Workers \ {w} : pc'[v] = pc[v] /\ todo'[v] = todo[v]
    BY <1>1, <1>23 DEF TypeOK, markApplied
  <2>2. \A s \in Splits : s # split(w) => table'[s] = table[s]
    BY <1>1, <1>23 DEF TypeOK, markApplied
  <2>3. pc[w] # "announce" /\ announced' = announced /\ torn' = torn
    BY <1>23 DEF markApplied
  <2>4. pc'[w] = "announce" /\ split(w)' = split(w)
    BY <1>1, <1>23 DEF TypeOK, markApplied, split
  <2>5. ASSUME NEW s \in Splits \ (torn \cup Unit), table'[s] = "applied", s # split(w)
        PROVE  s \in announced \/ \E v \in Workers : pc'[v] = "announce" /\ split(v)' = s
    BY <1>1, <2>1, <2>2, <2>3, <2>5 DEF AppliedIsAnnounced, split
  <2>6. QED
    BY <2>3, <2>4, <2>5 DEF AppliedIsAnnounced
<1>24. ASSUME NEW w \in Workers, announce(w) PROVE AppliedIsAnnounced'
  <2>1. \A v \in Workers \ {w} : pc'[v] = pc[v] /\ todo'[v] = todo[v]
    BY <1>1, <1>24 DEF TypeOK, announce, NextSplit
  <2>2. announced' = announced \cup {split(w)} /\ table' = table /\ torn' = torn
    BY <1>24 DEF announce
  <2>3. QED
    BY <1>1, <2>1, <2>2 DEF AppliedIsAnnounced, split
<1>25. ASSUME NEW w \in Workers, getBars(w) PROVE AppliedIsAnnounced'
  BY <1>1, <1>25, QuietAnnounced DEF TypeOK, getBars
<1>26. ASSUME NEW w \in Workers, upsertStats(w) PROVE AppliedIsAnnounced'
  BY <1>1, <1>26, QuietAnnounced DEF TypeOK, upsertStats
<1>27. ASSUME NEW w \in Workers, Crash(w) PROVE AppliedIsAnnounced'
  <2>1. \A v \in Workers \ {w} : pc'[v] = pc[v] /\ todo'[v] = todo[v]
    BY <1>1, <1>27 DEF TypeOK, Crash
  <2>2. announced' = announced /\ table' = table /\ torn \subseteq torn'
        /\ (pc[w] = "announce" => split(w) \in torn')
    BY <1>27 DEF Crash
  <2>3. QED
    BY <1>1, <2>1, <2>2 DEF AppliedIsAnnounced, split
<1>28. QED
  BY <1>2, <1>3, <1>4, <1>5, <1>5a, <1>6, <1>7, <1>8, <1>9, <1>9a, <1>10, <1>11, <1>12, <1>13,
     <1>14, <1>15, <1>15a, <1>16, <1>17, <1>18, <1>19, <1>20, <1>21, <1>22, <1>23, <1>24, <1>25,
     <1>26, <1>27
  DEF Next

LEMMA QuietStats ==
  ASSUME StatsFollow, bars' = bars, stats' = stats, stale => stale',
         \A v \in Workers : pc'[v] = pc[v] \/ pc[v] \notin Following \/ pc'[v] \in Following
  PROVE  StatsFollow'
<1> DEFINE Covered == stats # None /\ Highest(stats) = Highest(bars)
<1>1. Covered' <=> Covered
  OBVIOUS
<1>2. (\E v \in Workers : pc[v] \in Following) => \E v \in Workers : pc'[v] \in Following
  OBVIOUS
<1>3. Cardinality(bars)' = Cardinality(bars)
  OBVIOUS
<1> HIDE DEF Covered
<1>4. StatsFollow <=>
        ((Cardinality(bars) >= 2 /\ ~stale) => Covered \/ \E v \in Workers : pc[v] \in Following)
  BY DEF StatsFollow, Covered
<1>5. StatsFollow' <=>
        ((Cardinality(bars)' >= 2 /\ ~stale') =>
           Covered' \/ \E v \in Workers : pc'[v] \in Following)
  BY DEF StatsFollow, Covered
<1>6. QED
  BY <1>1, <1>2, <1>3, <1>4, <1>5

LEMMA StepStats == IngestInv /\ [Next]_vars => StatsFollow'
<1> SUFFICES ASSUME IngestInv, [Next]_vars PROVE StatsFollow'
  OBVIOUS
<1> USE DEF Goto, Finish, market, actions, user, worker, history
<1>1. TypeOK /\ Carried /\ StatsFollow
  BY DEF IngestInv
<1>2. CASE UNCHANGED vars
  BY <1>1, <1>2, QuietStats DEF TypeOK, Following, vars
<1>3. CASE Tick
  BY <1>1, <1>3, QuietStats DEF TypeOK, Following, Tick
<1>4. CASE AckRead
  BY <1>1, <1>4, QuietStats DEF TypeOK, Following, AckRead
<1>5. CASE advanceMarks
  BY <1>1, <1>5, QuietStats DEF TypeOK, Following, advanceMarks
<1>5a. CASE undoMarks
  BY <1>1, <1>5a, QuietStats DEF TypeOK, Following, undoMarks
<1>6. ASSUME NEW w \in Workers, Ensure(w) PROVE StatsFollow'
  BY <1>1, <1>6, QuietStats DEF TypeOK, Following, Ensure
<1>7. ASSUME NEW w \in Workers, upsertInstrument(w) PROVE StatsFollow'
  BY <1>1, <1>7, QuietStats DEF TypeOK, Following, upsertInstrument
<1>8. ASSUME NEW w \in Workers, Seed(w) PROVE StatsFollow'
  BY <1>1, <1>8, QuietStats DEF TypeOK, Following, Seed
<1>9. ASSUME NEW w \in Workers, NoHistory(w) PROVE StatsFollow'
  BY <1>1, <1>9, QuietStats DEF TypeOK, Following, NoHistory
<1>9a. ASSUME NEW w \in Workers, NoSeed(w) PROVE StatsFollow'
  BY <1>1, <1>9a, QuietStats DEF TypeOK, Following, NoSeed
<1>10. ASSUME NEW w \in Workers, Enqueue(w) PROVE StatsFollow'
  BY <1>1, <1>10, QuietStats DEF TypeOK, Following, Enqueue
<1>11. ASSUME NEW w \in Workers, Fetch(w) PROVE StatsFollow'
  BY <1>1, <1>11, QuietStats DEF TypeOK, Following, Fetch
<1>12. ASSUME NEW w \in Workers, NotFound(w) PROVE StatsFollow'
  BY <1>1, <1>12, QuietStats DEF TypeOK, Following, NotFound
<1>13. ASSUME NEW w \in Workers, upsertQuote(w) PROVE StatsFollow'
  BY <1>1, <1>13, QuietStats DEF TypeOK, Following, upsertQuote
<1>14. ASSUME NEW w \in Workers, Revive(w) PROVE StatsFollow'
  BY <1>1, <1>14, QuietStats DEF TypeOK, Following, Revive
<1>15. ASSUME NEW w \in Workers, Backfill(w) PROVE StatsFollow'
  BY <1>1, <1>15, QuietStats DEF TypeOK, Following, Backfill
<1>15a. ASSUME NEW w \in Workers, getHistory(w) PROVE StatsFollow'
  BY <1>1, <1>15a, QuietStats DEF TypeOK, Following, getHistory
<1>16. ASSUME NEW w \in Workers, NoBackfill(w) PROVE StatsFollow'
  BY <1>1, <1>16, QuietStats DEF TypeOK, Following, NoBackfill
<1>17. ASSUME NEW w \in Workers, upsertBars(w) PROVE StatsFollow'
  <2>1. pc'[w] \in Following
    BY <1>1, <1>17 DEF TypeOK, upsertBars, Following
  <2>2. QED
    BY <2>1 DEF StatsFollow
<1>18. ASSUME NEW w \in Workers, Sync(w) PROVE StatsFollow'
  BY <1>1, <1>18, QuietStats DEF TypeOK, Following, Sync
<1>19. ASSUME NEW w \in Workers, Record(w) PROVE StatsFollow'
  BY <1>1, <1>19, QuietStats DEF TypeOK, Following, Record
<1>20. ASSUME NEW w \in Workers, pendingSplits(w) PROVE StatsFollow'
  BY <1>1, <1>20, QuietStats DEF TypeOK, Following, pendingSplits
<1>21. ASSUME NEW w \in Workers, rescaleMarks(w) PROVE StatsFollow'
  BY <1>1, <1>21, QuietStats DEF TypeOK, Following, rescaleMarks
<1>22. ASSUME NEW w \in Workers, SkipSplit(w) PROVE StatsFollow'
  BY <1>1, <1>22, QuietStats DEF TypeOK, Following, SkipSplit, NextSplit
<1>23. ASSUME NEW w \in Workers, markApplied(w) PROVE StatsFollow'
  BY <1>1, <1>23, QuietStats DEF TypeOK, Following, markApplied
<1>24. ASSUME NEW w \in Workers, announce(w) PROVE StatsFollow'
  BY <1>1, <1>24, QuietStats DEF TypeOK, Following, announce, NextSplit
<1>25. ASSUME NEW w \in Workers, getBars(w) PROVE StatsFollow'
  <2>1. CASE Cardinality(bars) < 2
    <3>1. bars' = bars /\ Cardinality(bars) \in Nat
      BY <1>1, <1>25, TimesFinite, FS_CardinalityType DEF getBars, TypeOK
    <3>2. ~(Cardinality(bars)' >= 2)
      BY <2>1, <3>1
    <3>3. QED
      BY <3>2 DEF StatsFollow
  <2>2. CASE ~(Cardinality(bars) < 2)
    <3>1. pc'[w] \in Following
      BY <1>1, <1>25, <2>2 DEF TypeOK, getBars, Following
    <3>2. QED
      BY <3>1 DEF StatsFollow
  <2>3. QED
    BY <2>1, <2>2
<1>26. ASSUME NEW w \in Workers, upsertStats(w) PROVE StatsFollow'
  <2>1. /\ fresh[w] # {} /\ fresh[w] \subseteq bars /\ bars \in SUBSET (0 .. MaxNow) /\ bars' = bars
        /\ stats' = fresh[w] /\ stale' = (Highest(fresh[w]) < Highest(bars)) /\ MaxNow \in Nat
    BY <1>1, <1>26, TimesType DEF TypeOK, Carried, upsertStats
  <2> DEFINE F == fresh[w]
  <2>2. F \in SUBSET (0 .. MaxNow) /\ F # {} /\ bars # {}
    BY <2>1
  <2>3. Highest(F) \in F
    <3> HIDE DEF F
    <3> QED
      BY <2>1, <2>2, HighestIsGreatest
  <2>4. Highest(bars) \in bars /\ \A y \in bars : y <= Highest(bars)
    BY <2>1, <2>2, HighestIsGreatest
  <2>5. Highest(F) <= Highest(bars) /\ Highest(F) \in Int /\ Highest(bars) \in Int
    <3>1. \A y \in bars : y \in Int
      BY <2>1
    <3>2. Highest(F) \in bars
      BY <2>1, <2>3
    <3>3. QED
      BY <2>4, <3>1, <3>2
  <2>6. stats' # None
    <3>1. F \in SUBSET Times
      BY <2>2, TimesType
    <3>2. QED
      BY <2>1, <3>1, AbsentAssumption
  <2>7. ~stale' => Highest(F) = Highest(bars)
    <3>1. ~stale' => ~(Highest(F) < Highest(bars))
      BY <2>1
    <3>2. QED
      BY <2>5, <3>1
  <2>8. QED
    BY <2>1, <2>6, <2>7 DEF StatsFollow
<1>27. ASSUME NEW w \in Workers, Crash(w) PROVE StatsFollow'
  <2>1. CASE pc[w] \in Following
    <3>1. stale'
      BY <1>27, <2>1 DEF Crash, Following
    <3>2. QED
      BY <3>1 DEF StatsFollow
  <2>2. CASE pc[w] \notin Following
    <3>1. stale => stale'
      BY <1>27 DEF Crash
    <3>2. QED
      BY <1>1, <1>27, <2>2, <3>1, QuietStats DEF TypeOK, Crash
  <2>3. QED
    BY <2>1, <2>2
<1>28. QED
  BY <1>2, <1>3, <1>4, <1>5, <1>5a, <1>6, <1>7, <1>8, <1>9, <1>9a, <1>10, <1>11, <1>12, <1>13,
     <1>14, <1>15, <1>15a, <1>16, <1>17, <1>18, <1>19, <1>20, <1>21, <1>22, <1>23, <1>24, <1>25,
     <1>26, <1>27
  DEF Next

LEMMA EnoughType ==
  /\ Enough \in Nat /\ Enough <= History /\ Enough <= MaxBackfill
  /\ History \in Nat /\ MaxBackfill \in Nat /\ History >= 1
  BY BoundsAssumption DEF Enough, Smaller

LEMMA JoinsMore ==
  ASSUME NEW F, NEW B, Joins(F, B), NEW C, B \subseteq C
  PROVE  Joins(F, C)
  BY DEF Joins

(* What is stored stays without a hole but behind a whole backfill. *)
LEMMA InsertKeepsGapless ==
  ASSUME NEW B \in SUBSET Times, 0 \notin B, Gapless(B), NEW F, Joins(F, B)
  PROVE  Gapless(B \cup F)
<1>1. PICK lo \in Times, hi \in Times :
         /\ F = lo .. hi /\ 1 <= lo /\ lo <= hi
         /\ lo = 1 \/ lo - 1 \in B \/ hi - lo + 1 >= Enough
  BY DEF Joins
<1>2. lo \in Int /\ hi \in Int /\ MaxNow \in Int /\ hi <= MaxNow
  BY TimesType
<1>3. F \in SUBSET Times /\ F # {}
  <2>1. lo .. hi \subseteq 0 .. MaxNow /\ lo \in lo .. hi
    BY <1>1, <1>2
  <2>2. QED
    BY <1>1, <2>1, TimesType
<1>4. B \cup F \in SUBSET Times
  BY <1>3
<1>5. \A x \in B \cup F : x \in Int
  BY <1>4, TimesType
<1>6. ASSUME NEW S \in SUBSET Times, NEW R \in SUBSET S, Cardinality(R) >= Enough
      PROVE  Cardinality(S) >= Enough
  <2>1. Cardinality(R) <= Cardinality(S) /\ Cardinality(R) \in Int /\ Cardinality(S) \in Int
    BY TimesFinite, FS_Subset
  <2>2. QED
    BY <1>6, <2>1, EnoughType
<1>7. hi - lo + 1 >= Enough => Cardinality(F) >= Enough
  <2>1. Cardinality(lo .. hi) = hi - lo + 1
    <3>1. Cardinality(lo .. hi) = IF lo > hi THEN 0 ELSE hi - lo + 1
      BY <1>2, FS_Interval
    <3>2. QED
      BY <3>1, <1>1, <1>2
  <2>2. QED
    BY <2>1, <1>1
<1>8. B \cup F = {} \/ 1 \in B \cup F \/ Cardinality(B \cup F) >= Enough
  <2>1. CASE B = {}
    <3>1. lo = 1 \/ hi - lo + 1 >= Enough
      BY <2>1, <1>1
    <3>2. lo \in F
      BY <1>1, <1>2
    <3>3. QED
      BY <2>1, <3>1, <3>2, <1>7
  <2>2. CASE B # {}
    <3>1. 1 \in B \/ Cardinality(B) >= Enough
      BY <2>2 DEF Gapless
    <3>2. B \in SUBSET (B \cup F)
      OBVIOUS
    <3>3. Cardinality(B) >= Enough => Cardinality(B \cup F) >= Enough
      BY <1>4, <1>6, <3>2
    <3>4. QED
      BY <3>1, <3>3
  <2>3. QED
    BY <2>1, <2>2
<1>9. ASSUME NEW s \in Times \ (B \cup F), NEW a \in B \cup F, a < s, NEW b \in B \cup F, b > s
      PROVE  Cardinality(Later(s, B \cup F)) >= Enough
  <2>1. s \in Int /\ a \in Int /\ b \in Int
    BY <1>5, TimesType, <1>9
  <2>2. Later(s, B \cup F) \in SUBSET Times
    BY <1>4 DEF Later
  <2>3. CASE \E y \in B : y > s
    <3>1. CASE \E x \in B : x < s
      <4>1. Cardinality(Later(s, B)) >= Enough
        BY <2>3, <3>1 DEF Gapless
      <4>2. Later(s, B) \in SUBSET Later(s, B \cup F)
        BY DEF Later
      <4>3. QED
        BY <1>6, <2>2, <4>1, <4>2
    <3>2. CASE ~ \E x \in B : x < s
      <4>1. s \in Int /\ \A x \in B : x > s
        BY <3>2, <1>5, <1>9, TimesType
      <4>2. a \in F /\ s >= 1
        BY <3>2, <1>9, <1>1, <1>2, <4>1
      <4>3. 1 \notin B
        BY <4>1, <4>2
      <4>4. Cardinality(B) >= Enough
        BY <2>3, <4>3 DEF Gapless
      <4>5. B \in SUBSET Later(s, B \cup F)
        BY <4>1 DEF Later
      <4>6. QED
        BY <1>6, <2>2, <4>4, <4>5
    <3>3. QED
      BY <3>1, <3>2
  <2>4. CASE ~ \E y \in B : y > s
    <3>1. b \in lo .. hi /\ s \notin lo .. hi /\ s \in Int
      BY <2>4, <1>1, <1>9, TimesType
    <3>2. s < lo
      BY <3>1, <1>2, <1>9
    <3>3. lo # 1
      <4>1. s >= 0 /\ (s = 0 => FALSE)
        <5>1. s \in 0 .. MaxNow /\ a \in 0 .. MaxNow
          BY <1>4, <1>9, TimesType
        <5>2. QED
          BY <5>1, <1>9
      <4>2. QED
        BY <4>1, <3>1, <3>2
    <3>4. lo - 1 \notin B
      <4>1. lo - 1 >= s
        BY <3>1, <3>2, <1>2
      <4>2. lo - 1 \in B => lo - 1 > s
        BY <4>1, <3>1, <1>2, <1>9
      <4>3. QED
        BY <4>2, <2>4
    <3>5. Cardinality(F) >= Enough
      BY <1>1, <1>7, <3>3, <3>4
    <3>6. F \in SUBSET Later(s, B \cup F)
      <4>1. \A x \in lo .. hi : x > s
        BY <3>1, <3>2, <1>2
      <4>2. QED
        BY <4>1, <1>1 DEF Later
    <3>7. QED
      BY <1>6, <2>2, <3>5, <3>6
  <2>5. QED
    BY <2>3, <2>4
<1>10. QED
  BY <1>8, <1>9 DEF Gapless

(* A seed is the whole of history there is, or as long as a seed may be. *)
LEMMA SeedJoins ==
  ASSUME NEW c \in Times, c >= 1, NEW B
  PROVE  Joins(Latest(SessionsUpTo(c), History), B)
<1>1. c \in Nat /\ History \in Nat /\ History >= 1 /\ MaxNow \in Nat /\ c <= MaxNow
  BY TimesType, EnoughType
<1>2. Latest(SessionsUpTo(c), History) = {x \in 1 .. c : c - x < History}
  BY <1>1, LatestOfClosed
<1>3. CASE c <= History
  <2>1. {x \in 1 .. c : c - x < History} = 1 .. c
    BY <1>1, <1>3
  <2>2. 1 \in Times
    BY <1>1, TimesType
  <2>3. QED
    BY <1>2, <2>1, <2>2 DEF Joins
<1>4. CASE c > History
  <2> DEFINE lo == c - History + 1
  <2>1. lo \in Int /\ 1 <= lo /\ lo <= c /\ c - lo + 1 = History
    BY <1>1, <1>4
  <2>2. lo \in Times
    BY <1>1, <2>1, TimesType
  <2>3. {x \in 1 .. c : c - x < History} = lo .. c
    BY <1>1, <1>4
  <2>4. c - lo + 1 >= Enough
    BY <2>1, EnoughType
  <2> HIDE DEF lo
  <2>5. QED
    BY <1>2, <2>1, <2>2, <2>3, <2>4 DEF Joins
<1>5. QED
  BY <1>1, <1>3, <1>4

(* What is answered joins on to the bar it was asked from, or is a whole   *)
(* seed or backfill.                                                       *)
LEMMA AnswerJoins ==
  ASSUME TypeOK, NotOfTheFuture, NEW w \in Workers, Requested(w), Answer(w) # {},
         asked[w].last # 0 => ~(clock > now[w] + 1)
  PROVE  Joins(Answer(w), bars)
<1>1. clock \in Times /\ clock \in Nat /\ clock >= 1 /\ now[w] \in Int /\ bars \in SUBSET Times
  BY TimesType DEF TypeOK, NotOfTheFuture
<1>2. CASE asked[w].last = 0 /\ asked[w].want = History
  <2>1. \A b \in SessionsUpTo(clock) : b > 0
    BY <1>1 DEF SessionsUpTo
  <2>2. Answer(w) = Latest(SessionsUpTo(clock), History)
    BY <1>2, <2>1 DEF Answer, Latest
  <2>3. QED
    BY <1>1, <2>2, SeedJoins
<1>3. CASE ~(asked[w].last = 0 /\ asked[w].want = History)
  <2>1. PICK h \in bars : h = asked[w].last
    BY <1>3 DEF Requested
  <2>2. h \in Int /\ h >= 1 /\ h <= clock /\ h < now[w]
    <3>1. h \in 1 .. clock /\ h \in Int
      BY <1>1, <2>1, TimesType DEF NotOfTheFuture, SessionsUpTo
    <3>2. h < now[w]
      BY <1>3, <2>1 DEF Requested
    <3>3. QED
      BY <1>1, <3>1, <3>2
  <2>3. PICK n \in Nat : /\ n = asked[w].want
                         /\ n = now[w] - h + 1 \/ (n = MaxBackfill /\ n >= Enough)
    <3>1. asked[w].want = now[w] - h + 1 \/ asked[w].want = MaxBackfill
      BY <1>3, <2>1 DEF Requested
    <3>2. now[w] - h + 1 \in Nat /\ MaxBackfill \in Nat /\ MaxBackfill >= Enough
      BY <1>1, <2>2, EnoughType
    <3>3. QED
      BY <3>1, <3>2
  <2>4. Answer(w) = {x \in 1 .. clock : clock - x < n /\ x > h}
    <3>1. Latest(SessionsUpTo(clock), n) = {x \in 1 .. clock : clock - x < n}
      BY <1>1, LatestOfClosed
    <3>2. Answer(w) = {x \in Latest(SessionsUpTo(clock), n) : x > h}
      BY <2>1, <2>3 DEF Answer
    <3>3. QED
      BY <3>1, <3>2
  <2>5. PICK x \in 1 .. clock : clock - x < n /\ x > h
    BY <2>4
  <2>5a. clock <= now[w] + 1
    BY <1>1, <2>1, <2>2
  <2>6. CASE clock - n <= h
    <3>1. {y \in 1 .. clock : clock - y < n /\ y > h} = h + 1 .. clock
      BY <1>1, <2>2, <2>3, <2>6
    <3>2. h + 1 \in Int /\ 1 <= h + 1 /\ h + 1 <= clock /\ (h + 1) - 1 = h
      BY <1>1, <2>2, <2>5
    <3>3. h + 1 \in Times
      BY <1>1, <3>2, TimesType
    <3>4. QED
      BY <1>1, <2>1, <2>4, <3>1, <3>2, <3>3 DEF Joins
  <2>7. CASE clock - n > h
    <3>1. n >= Enough
      BY <1>1, <2>2, <2>3, <2>5a, <2>7
    <3> DEFINE lo == clock - n + 1
    <3>2. {y \in 1 .. clock : clock - y < n /\ y > h} = lo .. clock
      BY <1>1, <2>2, <2>3, <2>7
    <3>3. lo \in Int /\ 1 <= lo /\ lo <= clock /\ clock - lo + 1 = n
      BY <1>1, <2>2, <2>3, <2>5, <2>7
    <3>4. lo \in Times
      BY <1>1, <3>3, TimesType
    <3>5. clock - lo + 1 >= Enough
      BY <3>1, <3>3
    <3> HIDE DEF lo
    <3>6. QED
      BY <1>1, <2>4, <3>2, <3>3, <3>4, <3>5 DEF Joins
  <2>8. QED
    BY <1>1, <2>2, <2>3, <2>6, <2>7
<1>4. QED
  BY <1>2, <1>3

LEMMA QuietJoined ==
  ASSUME Joined, bars' = bars, late => late',
         \A v \in Workers : pc'[v] = "bars" => \/ pc[v] = "bars" /\ fresh'[v] = fresh[v]
                                               \/ late' \/ Joins(fresh'[v], bars)
  PROVE  Joined'
<1>1. CASE late'
  BY <1>1 DEF Joined
<1>2. CASE ~late'
  <2>1. ~late
    BY <1>2
  <2>2. \A v \in Workers : pc'[v] = "bars" => Joins(fresh'[v], bars)
    BY <1>2, <2>1 DEF Joined
  <2>3. Gapless(bars) /\ Gapless(bars)' = Gapless(bars)
    BY <2>1 DEF Joined, Gapless, Later
  <2>4. QED
    BY <2>2, <2>3 DEF Joined
<1>3. QED
  BY <1>1, <1>2

LEMMA StepJoined == IngestInv /\ [Next]_vars => Joined'
<1> SUFFICES ASSUME IngestInv, [Next]_vars PROVE Joined'
  OBVIOUS
<1> USE DEF Goto, Finish, market, actions, user, worker, history
<1>1. TypeOK /\ NotOfTheFuture /\ Joined
  BY DEF IngestInv
<1>2. CASE UNCHANGED vars
  BY <1>1, <1>2, QuietJoined DEF TypeOK, vars
<1>3. CASE Tick
  BY <1>1, <1>3, QuietJoined DEF TypeOK, Tick
<1>4. CASE AckRead
  BY <1>1, <1>4, QuietJoined DEF TypeOK, AckRead
<1>5. CASE advanceMarks
  BY <1>1, <1>5, QuietJoined DEF TypeOK, advanceMarks
<1>5a. CASE undoMarks
  BY <1>1, <1>5a, QuietJoined DEF TypeOK, undoMarks
<1>6. ASSUME NEW w \in Workers, Ensure(w) PROVE Joined'
  BY <1>1, <1>6, QuietJoined DEF TypeOK, Ensure
<1>7. ASSUME NEW w \in Workers, upsertInstrument(w) PROVE Joined'
  BY <1>1, <1>7, QuietJoined DEF TypeOK, upsertInstrument
<1>8. ASSUME NEW w \in Workers, Seed(w) PROVE Joined'
  BY <1>1, <1>8, QuietJoined DEF TypeOK, Seed
<1>9. ASSUME NEW w \in Workers, NoHistory(w) PROVE Joined'
  BY <1>1, <1>9, QuietJoined DEF TypeOK, NoHistory
<1>9a. ASSUME NEW w \in Workers, NoSeed(w) PROVE Joined'
  BY <1>1, <1>9a, QuietJoined DEF TypeOK, NoSeed
<1>10. ASSUME NEW w \in Workers, Enqueue(w) PROVE Joined'
  BY <1>1, <1>10, QuietJoined DEF TypeOK, Enqueue
<1>11. ASSUME NEW w \in Workers, Fetch(w) PROVE Joined'
  BY <1>1, <1>11, QuietJoined DEF TypeOK, Fetch
<1>12. ASSUME NEW w \in Workers, NotFound(w) PROVE Joined'
  BY <1>1, <1>12, QuietJoined DEF TypeOK, NotFound
<1>13. ASSUME NEW w \in Workers, upsertQuote(w) PROVE Joined'
  BY <1>1, <1>13, QuietJoined DEF TypeOK, upsertQuote
<1>14. ASSUME NEW w \in Workers, Revive(w) PROVE Joined'
  BY <1>1, <1>14, QuietJoined DEF TypeOK, Revive
<1>15. ASSUME NEW w \in Workers, Backfill(w) PROVE Joined'
  BY <1>1, <1>15, QuietJoined DEF TypeOK, Backfill
<1>15a. ASSUME NEW w \in Workers, getHistory(w) PROVE Joined'
  <2>1. late' \/ Joins(Answer(w), bars)
    <3>1. Requested(w) /\ Answer(w) # {}
      BY <1>15a DEF IngestInv, Waiting, getHistory
    <3>2. late' \/ (asked[w].last # 0 => ~(clock > now[w] + 1))
      BY <1>15a DEF getHistory
    <3>3. QED
      BY <1>1, <3>1, <3>2, AnswerJoins
  <2>2. late => late'
    BY <1>15a DEF getHistory
  <2>3. \A v \in Workers : pc'[v] = "bars" => \/ pc[v] = "bars" /\ fresh'[v] = fresh[v]
                                             \/ late' \/ Joins(fresh'[v], bars)
    BY <1>1, <1>15a, <2>1 DEF TypeOK, getHistory
  <2>4. bars' = bars
    BY <1>15a DEF getHistory
  <2>5. QED
    BY <1>1, <2>2, <2>3, <2>4, QuietJoined
<1>16. ASSUME NEW w \in Workers, NoBackfill(w) PROVE Joined'
  BY <1>1, <1>16, QuietJoined DEF TypeOK, NoBackfill
<1>17. ASSUME NEW w \in Workers, upsertBars(w) PROVE Joined'
  <2>1. /\ bars' = bars \cup fresh[w] /\ late' = late /\ pc[w] = "bars"
        /\ pc'[w] # "bars" /\ \A v \in Workers \ {w} : pc'[v] = pc[v] /\ fresh'[v] = fresh[v]
    BY <1>1, <1>17 DEF TypeOK, upsertBars
  <2>2. bars \in SUBSET Times /\ 0 \notin bars
    BY <1>1, TimesType DEF TypeOK, NotOfTheFuture, SessionsUpTo
  <2>3. SUFFICES ASSUME ~late PROVE Joined'
    BY <2>1 DEF Joined
  <2>4. Gapless(bars \cup fresh[w])
    BY <1>1, <2>1, <2>2, <2>3, InsertKeepsGapless DEF Joined
  <2>5. ASSUME NEW v \in Workers, pc'[v] = "bars" PROVE Joins(fresh'[v], bars \cup fresh[w])
    <3>1. pc[v] = "bars" /\ fresh'[v] = fresh[v] /\ Joins(fresh[v], bars)
      BY <1>1, <2>1, <2>3, <2>5 DEF Joined
    <3>2. QED
      BY <3>1, JoinsMore
  <2>6. QED
    BY <2>1, <2>4, <2>5 DEF Joined
<1>18. ASSUME NEW w \in Workers, Sync(w) PROVE Joined'
  BY <1>1, <1>18, QuietJoined DEF TypeOK, Sync
<1>19. ASSUME NEW w \in Workers, Record(w) PROVE Joined'
  BY <1>1, <1>19, QuietJoined DEF TypeOK, Record
<1>20. ASSUME NEW w \in Workers, pendingSplits(w) PROVE Joined'
  BY <1>1, <1>20, QuietJoined DEF TypeOK, pendingSplits
<1>21. ASSUME NEW w \in Workers, rescaleMarks(w) PROVE Joined'
  BY <1>1, <1>21, QuietJoined DEF TypeOK, rescaleMarks
<1>22. ASSUME NEW w \in Workers, SkipSplit(w) PROVE Joined'
  BY <1>1, <1>22, QuietJoined DEF TypeOK, SkipSplit, NextSplit
<1>23. ASSUME NEW w \in Workers, markApplied(w) PROVE Joined'
  BY <1>1, <1>23, QuietJoined DEF TypeOK, markApplied
<1>24. ASSUME NEW w \in Workers, announce(w) PROVE Joined'
  BY <1>1, <1>24, QuietJoined DEF TypeOK, announce, NextSplit
<1>25. ASSUME NEW w \in Workers, getBars(w) PROVE Joined'
  BY <1>1, <1>25, QuietJoined DEF TypeOK, getBars
<1>26. ASSUME NEW w \in Workers, upsertStats(w) PROVE Joined'
  BY <1>1, <1>26, QuietJoined DEF TypeOK, upsertStats
<1>27. ASSUME NEW w \in Workers, Crash(w) PROVE Joined'
  BY <1>1, <1>27, QuietJoined DEF TypeOK, Crash
<1>28. QED
  BY <1>2, <1>3, <1>4, <1>5, <1>5a, <1>6, <1>7, <1>8, <1>9, <1>9a, <1>10, <1>11, <1>12, <1>13,
     <1>14, <1>15, <1>15a, <1>16, <1>17, <1>18, <1>19, <1>20, <1>21, <1>22, <1>23, <1>24, <1>25,
     <1>26, <1>27
  DEF Next

-----------------------------------------------------------------------------
(* The invariant holds. *)

LEMMA InitIngestInv == Init => IngestInv
<1> SUFFICES ASSUME Init PROVE IngestInv
  OBVIOUS
<1>1. TypeOK
  BY InitTypeOK
<1>2. Carried
  BY DEF Init, Carried
<1>3. NotOfTheFuture
  <2>1. Start >= 1
    BY BoundsAssumption
  <2>2. \A s \in Splits : table[s] = "unknown" /\ scaled[s] = 0
    BY DEF Init
  <2>3. 0 <= Start
    BY <2>1, BoundsAssumption
  <2>4. QED
    BY <2>1, <2>2, <2>3 DEF Init, NotOfTheFuture, OfItsTime
<1>4. ContainedOnce /\ Waiting
  BY DEF Init, ContainedOnce, Waiting
<1>5. Sole
  BY DEF Init, Sole, InOrder, OneWorker, Handling, AtMark
<1>6. AppliedIsAnnounced
  BY DEF Init, AppliedIsAnnounced
<1>7. StatsFollow
  <2>1. Cardinality(bars) = 0
    BY FS_EmptySet DEF Init
  <2>2. ~(Cardinality(bars) >= 2)
    BY <2>1
  <2>3. QED
    BY <2>2 DEF StatsFollow
<1>8. Joined
  BY DEF Init, Joined, Gapless
<1>9. QED
  BY <1>1, <1>2, <1>3, <1>4, <1>5, <1>6, <1>7, <1>8 DEF IngestInv

LEMMA StepIngestInv == IngestInv /\ [Next]_vars => IngestInv'
<1> SUFFICES ASSUME IngestInv, [Next]_vars PROVE IngestInv'
  OBVIOUS
<1>1. QED
  BY StepTypeOK, StepCarried, StepDates, StepContained, StepWaiting, StepSole, StepAnnounced,
     StepStats, StepJoined
  DEF IngestInv

LEMMA IngestInvariant == Spec => []IngestInv
  BY InitIngestInv, StepIngestInv, PTL DEF Spec

-----------------------------------------------------------------------------
(* The theorems. *)

(* Every variable of the pipeline keeps to its type: no statement writes   *)
(* what the next one could not read, whatever died in between.             *)
THEOREM IngestTypeCorrect == Spec => []TypeOK
<1>1. IngestInv => TypeOK
  BY DEF IngestInv
<1>2. QED
  BY <1>1, IngestInvariant, PTL

(* A split is applied to the checkpoints once, however many workers fetch  *)
(* it and however often (services/corporateActions.ts, sync): the row's    *)
(* status and what rescaleMarks has done agree unless two workers had the  *)
(* split pending at once or one died in between.                           *)
THEOREM SplitsApplyOnce == Spec => []AppliedOnce
<1>1. IngestInv => AppliedOnce
  <2> SUFFICES ASSUME IngestInv, NEW s \in Splits \ torn
               PROVE  /\ scaled[s] <= 1
                      /\ (table[s] = "applied" => scaled[s] = IF s \in Unit THEN 0 ELSE 1)
    BY DEF AppliedOnce
  <2>1. scaled[s] = IF s \notin Unit /\ (table[s] = "applied" \/ AtMark(s)) THEN 1 ELSE 0
    BY DEF IngestInv, Sole, InOrder
  <2>2. QED
    BY <2>1
<1>2. QED
  BY <1>1, IngestInvariant, PTL

(* No checkpoint, current or replaced, contains a split twice:             *)
(* rescaleMarks (db/actionsRepo.ts) is never run again for a price it has  *)
(* changed, nor for one from after the split, for any number of splits,    *)
(* acknowledgements, undos and cycles, but for the splits two workers had  *)
(* pending at once or one died with.                                       *)
THEOREM NoSplitCountsTwice == Spec => []NoSplitTwice
<1>1. IngestInv => NoSplitTwice
  BY DEF IngestInv, ContainedOnce, Holds, NoSplitTwice, AtMostOnce
<1>2. QED
  BY <1>1, IngestInvariant, PTL

(* Nobody is left with a rescaled price and no signal that says why        *)
(* (services/corporateActions.ts, sync: markApplied, then announce).       *)
THEOREM RescalesAreAnnounced == Spec => []AppliedIsAnnounced
<1>1. IngestInv => AppliedIsAnnounced
  BY DEF IngestInv
<1>2. QED
  BY <1>1, IngestInvariant, PTL

(* Once the workers are done the statistics reach the newest bar, however  *)
(* their cycles interleaved (services/ingest.ts, refresh: recomputeStats   *)
(* after upsertBars), but for the two orders `stale` names.                *)
THEOREM StatsReachNewestBar == Spec => []StatsCoverBars
<1>1. IngestInv => StatsCoverBars
  BY DEF IngestInv, StatsFollow, StatsCoverBars, Following
<1>2. QED
  BY <1>1, IngestInvariant, PTL

(* History has no hole but behind a whole seed or backfill, for any length *)
(* of either, any number of workers and any outage (services/ingest.ts,    *)
(* ensureInstrument and backfillIfNeeded), while no request is sized two   *)
(* closes too early.                                                       *)
THEOREM HistoryWithoutHoles == Spec => []NoHoles
<1>1. IngestInv => NoHoles
  <2> SUFFICES ASSUME IngestInv, ~late, NEW s \in SessionsUpTo(clock) \ bars,
                      NEW a \in bars, a < s, NEW c \in bars, ~(c < s)
               PROVE  Cardinality({b \in bars : b > s}) >= Smaller(History, MaxBackfill)
    BY DEF NoHoles
  <2>1. TypeOK /\ Joined
    BY DEF IngestInv
  <2>2. s \in Times /\ s \in Int /\ c \in Int
    BY <2>1, TimesType DEF TypeOK
  <2>3. c > s
    BY <2>2
  <2>4. Cardinality(Later(s, bars)) >= Enough
    BY <2>1, <2>2, <2>3 DEF Joined, Gapless
  <2>5. QED
    BY <2>4 DEF Later, Enough
<1>2. QED
  BY <1>1, IngestInvariant, PTL

(* The displayed price never goes back in time, whoever stores it and      *)
(* however late (db/marketRepo.ts, upsertQuote).                           *)
THEOREM DisplayedPriceOnlyNewer == Spec => QuoteNeverOlder
<1>1. IngestInv /\ [Next]_vars => ((quote # None /\ quote' # quote) => quote' >= quote)
  <2> SUFFICES ASSUME IngestInv, [Next]_vars, quote # None, quote' # quote
               PROVE  quote' >= quote
    OBVIOUS
  <2>1. PICK w \in Workers : upsertQuote(w)
    BY DEF Next, vars, market, Tick, AckRead, advanceMarks, undoMarks, Ensure, upsertInstrument,
           Seed, Enqueue, Fetch, NotFound, Revive, Backfill, NoBackfill, getHistory, NoSeed,
           NoHistory, upsertBars, Sync, Record, pendingSplits, rescaleMarks, SkipSplit, markApplied, announce,
           getBars, upsertStats, Crash
  <2>2. quote' = got[w] /\ quote <= got[w] /\ got[w] # None
    BY <2>1 DEF upsertQuote, Accepts, IngestInv, Carried
  <2>3. quote \in Int /\ got[w] \in Int
    BY <2>2, TimesType DEF IngestInv, TypeOK, Optional
  <2>4. QED
    BY <2>2, <2>3
<1>2. QED
  BY <1>1, IngestInvariant, PTL DEF Spec, QuoteNeverOlder

-----------------------------------------------------------------------------
(* MarketClock: the close that stands for a session. *)

(* Whole days and a rest: which day it is. *)
LEMMA Division ==
  ASSUME NEW q \in Int, NEW d \in Nat \ {0}, NEW r \in 0 .. d - 1
  PROVE  (q * d + r) \div d = q
<1> DEFINE t == q * d + r
           k == t \div d
<1>1. t \in Int /\ k \in Int /\ q * d \in Int /\ k * d \in Int
  OBVIOUS
<1>2. t = d * k + (t % d) /\ t % d \in 0 .. d - 1
  BY <1>1
<1>3. (k - q) * d = k * d - q * d
  BY <1>1
<1>4. (k - q) * d < d /\ (k - q) * d > 0 - d
  BY <1>1, <1>2, <1>3
<1>5. \A n \in Int : (n * d < d /\ n * d > 0 - d) => n = 0
  OBVIOUS
<1>6. QED
  BY <1>1, <1>4, <1>5

LEMMA OffsetType ==
  /\ \A ts : Offset(ts) \in Int
  /\ \A a, b : CloseAt + (Offset(a) - Offset(b)) \in 0 .. DayLen - 1
<1>1. \A ts : Offset(ts) = Zone \/ Offset(ts) = Zone + Shift
  BY DEF Offset
<1>2. /\ DayLen \in Nat \ {0} /\ CloseAt \in Nat /\ CloseAt < DayLen
      /\ Zone \in Int /\ Shift \in Nat /\ Shift <= CloseAt /\ CloseAt + Shift < DayLen
  BY DayAssumption, ZoneAssumption
<1>3. QED
  BY <1>1, <1>2

(* The bell of a day is on that day, even when the offset of ts is not the *)
(* offset of the bell: it is then an hour off.                             *)
LEMMA CloseOnItsDay ==
  ASSUME NEW ts \in Int
  PROVE  DayOf(sessionCloseTs(ts)) = DayOf(ts) /\ sessionCloseTs(ts) \in Int
<1> DEFINE q == DayOf(ts)
           c == sessionCloseTs(ts)
           r == CloseAt + (Offset(c) - Offset(ts))
<1>1. DayLen \in Nat \ {0} /\ CloseAt \in Nat
  BY DayAssumption
<1>2. Offset(ts) \in Int /\ Offset(c) \in Int /\ r \in 0 .. DayLen - 1
  BY OffsetType
<1>3. q \in Int
  BY <1>1, <1>2 DEF DayOf
<1>4. c = (q * DayLen + CloseAt) - Offset(ts)
  BY DEF sessionCloseTs
<1>5. DayOf(c) = (c + Offset(c)) \div DayLen
  BY DEF DayOf
<1> HIDE DEF q, c
<1>6. q * DayLen \in Int
  BY <1>1, <1>3
<1>7. c \in Int /\ c + Offset(c) = q * DayLen + r
  BY <1>1, <1>2, <1>4, <1>6
<1>8. (q * DayLen + r) \div DayLen = q
  BY <1>1, <1>2, <1>3, Division
<1>9. QED
  BY <1>5, <1>7, <1>8 DEF q, c

(* A simulated session begins in itself. *)
LEMMA StartInItsSession ==
  ASSUME NEW n \in Int
  PROVE  sessionIndexOf(sessionStartAt(n)) = n /\ sessionStartAt(n) \in Int
<1>1. SimSession \in Nat \ {0} /\ SimEpoch \in Int /\ SimHistory \in Nat
  BY SimulatedAssumption
<1> DEFINE q == n - SimHistory
<1>2. q \in Int /\ q * SimSession \in Int
  BY <1>1
<1>3. sessionStartAt(n) - SimEpoch = q * SimSession + 0 /\ sessionStartAt(n) \in Int
  BY <1>1, <1>2 DEF sessionStartAt
<1>4. (q * SimSession + 0) \div SimSession = q
  BY <1>1, <1>2, Division
<1>5. QED
  BY <1>1, <1>2, <1>3, <1>4 DEF sessionIndexOf

(* The exchange derives the offset of the bell at the instant it is given  *)
(* (calendar.ts, sessionCloseTs), so an instant before the switch on a day *)
(* on which the clock changes has a bell an hour off.                      *)
SameOffset(m, a, b) == Simulated(m) \/ Offset(a) = Offset(b)

(* The close that stands for a session has the session's key, whatever the *)
(* clock does that day; and it is its own close (marketClock.ts,           *)
(* sessionCloseOf: "must be idempotent") exactly when the clock did not    *)
(* change between the instant and the bell.                                *)
THEOREM CloseIsIdempotent ==
  ASSUME NEW m \in Clocks, NEW ts \in Int
  PROVE  LET close == sessionCloseOf(m, ts)
         IN /\ sessionKeyOf(m, close) = sessionKeyOf(m, ts)
            /\ (sessionCloseOf(m, close) = close) <=> SameOffset(m, ts, close)
<1>1. CASE Simulated(m)
  <2>1. sessionIndexOf(ts) \in Int
    BY SimulatedAssumption DEF sessionIndexOf
  <2>2. QED
    BY <1>1, <2>1, StartInItsSession DEF sessionCloseOf, sessionKeyOf, SimulatedCloseOf, SameOffset
<1>2. CASE ~Simulated(m)
  <2> DEFINE c == sessionCloseTs(ts)
  <2>1. DayOf(c) = DayOf(ts)
    BY CloseOnItsDay
  <2>2. /\ sessionCloseTs(c) = (DayOf(c) * DayLen + CloseAt) - Offset(c)
        /\ c = (DayOf(ts) * DayLen + CloseAt) - Offset(ts)
    BY DEF sessionCloseTs
  <2>3. sessionCloseOf(m, ts) = c /\ sessionCloseOf(m, c) = sessionCloseTs(c)
    BY <1>2 DEF sessionCloseOf
  <2>4. sessionKeyOf(m, c) = DayOf(c) /\ sessionKeyOf(m, ts) = DayOf(ts)
    BY <1>2 DEF sessionKeyOf, sessionKey
  <2>5. SameOffset(m, ts, c) <=> Offset(ts) = Offset(c)
    BY <1>2 DEF SameOffset
  <2>6. DayOf(ts) * DayLen + CloseAt \in Int
    BY DayAssumption, OffsetType DEF DayOf
  <2> HIDE DEF c
  <2>7. (sessionCloseTs(c) = c) <=> Offset(ts) = Offset(c)
    <3> DEFINE k == DayOf(ts) * DayLen + CloseAt
    <3>1. \A j \in Int, x \in Int, y \in Int : j - x = j - y => x = y
      OBVIOUS
    <3>2. k \in Int /\ Offset(ts) \in Int /\ Offset(c) \in Int
      BY <2>6, OffsetType
    <3>3. sessionCloseTs(c) = k - Offset(c) /\ c = k - Offset(ts)
      BY <2>1, <2>2
    <3> HIDE DEF k
    <3>4. QED
      BY <3>1, <3>2, <3>3, Zenon
  <2>8. QED
    BY <2>1, <2>3, <2>4, <2>5, <2>7
<1>3. QED
  BY <1>1, <1>2

(* No session overwrites another's bar: instants of two sessions never     *)
(* have one close, not even on a day the clock changes.  Two instants of   *)
(* one session have one close unless the clock changed between them: then  *)
(* the day has two, which is what sessionCloseTs concedes.                 *)
THEOREM CloseIdentifiesSession ==
  ASSUME NEW m \in Clocks, NEW a \in Int, NEW b \in Int
  PROVE  (sessionCloseOf(m, a) = sessionCloseOf(m, b)) <=>
           (sessionKeyOf(m, a) = sessionKeyOf(m, b) /\ SameOffset(m, a, b))
<1>1. sessionCloseOf(m, a) = sessionCloseOf(m, b) => sessionKeyOf(m, a) = sessionKeyOf(m, b)
  <2>1. /\ sessionKeyOf(m, sessionCloseOf(m, a)) = sessionKeyOf(m, a)
        /\ sessionKeyOf(m, sessionCloseOf(m, b)) = sessionKeyOf(m, b)
    BY CloseIsIdempotent
  <2>2. QED
    BY <2>1
<1>2. CASE Simulated(m)
  BY <1>1, <1>2 DEF sessionKeyOf, sessionCloseOf, SimulatedCloseOf, SameOffset
<1>3. CASE ~Simulated(m)
  <2>1. sessionCloseOf(m, a) = sessionCloseTs(a) /\ sessionCloseOf(m, b) = sessionCloseTs(b)
    BY <1>3 DEF sessionCloseOf
  <2>2. sessionKeyOf(m, a) = DayOf(a) /\ sessionKeyOf(m, b) = DayOf(b)
    BY <1>3 DEF sessionKeyOf, sessionKey
  <2>3. /\ sessionCloseTs(a) = (DayOf(a) * DayLen + CloseAt) - Offset(a)
        /\ sessionCloseTs(b) = (DayOf(b) * DayLen + CloseAt) - Offset(b)
    BY DEF sessionCloseTs
  <2>4. DayOf(a) * DayLen + CloseAt \in Int
    BY DayAssumption, OffsetType DEF DayOf
  <2>5. DayOf(a) = DayOf(b) => (sessionCloseTs(a) = sessionCloseTs(b) <=> Offset(a) = Offset(b))
    <3> DEFINE k == DayOf(a) * DayLen + CloseAt
    <3>1. \A j \in Int, x \in Int, y \in Int : j - x = j - y => x = y
      OBVIOUS
    <3>2. k \in Int /\ Offset(a) \in Int /\ Offset(b) \in Int
      BY <2>4, OffsetType
    <3>3. sessionCloseTs(a) = k - Offset(a)
      BY <2>3
    <3>4. DayOf(a) = DayOf(b) => sessionCloseTs(b) = k - Offset(b)
      BY <2>3
    <3> HIDE DEF k
    <3>5. QED
      BY <3>1, <3>2, <3>3, <3>4, Zenon
  <2>6. QED
    BY <1>1, <1>3, <2>1, <2>2, <2>5 DEF SameOffset
<1>4. QED
  BY <1>2, <1>3
=============================================================================
