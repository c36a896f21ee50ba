------------------------------- MODULE Ingest -------------------------------
(***************************************************************************)
(* The ingest pipeline for one symbol: services/ingest.ts (ensureInstrument*)
(* and refresh), the statements of db/marketRepo.ts and db/actionsRepo.ts  *)
(* it issues, the splits of services/corporateActions.ts, and the user's   *)
(* checkpoint that a split rewrites.  Workers run statement by statement,  *)
(* interleave, and may die anywhere.                                       *)
(*                                                                         *)
(* Time is counted in sessions: at instant t the sessions 1 .. t have      *)
(* closed.  A price is known by how often it contains each split: two      *)
(* prices compare only when they contain the same ones.  Signals, change   *)
(* events and the queue have modules of their own (Detection, Stream,      *)
(* Queue).                                                                 *)
(***************************************************************************)
EXTENDS Integers, FiniteSets

CONSTANTS
  Workers,
  Splits,       \* instants at which the symbol splits
  Unit,         \* those whose ratio is 1: nothing to rescale
  History,      \* historySessions: what a new symbol is seeded with
  MaxBackfill,  \* maxBackfillSessions: what a known symbol is caught up with
  Start,        \* the clock when the model begins
  MaxNow,       \* bound on the clock
  MaxCrashes,   \* bound on the number of workers that die
  MaxAcks,      \* bound on the number of acknowledgements
  None

Times == 0 .. MaxNow
SessionsUpTo(t) == 1 .. t
Optional(S) == S \cup {None}
Prices == [Splits -> Nat]
Acks == [at : Times, price : Optional(Prices)]
Marks == [at : Times, price : Optional(Prices), prevAt : Optional(Times),
          prevPrice : Optional(Prices)]
Requests == [last : Times, want : 1 .. History + MaxBackfill]
Labels == {"idle", "resolved", "count", "store", "revive", "backfill", "history", "bars", "seeded",
           "enqueue", "sync", "record", "pending", "rescale", "mark", "announce", "stats", "write"}

ASSUME SplitsAssumption == Splits \subseteq 1 .. MaxNow /\ Unit \subseteq Splits
ASSUME BoundsAssumption ==
  /\ MaxNow \in Nat /\ Start \in 1 .. MaxNow
  /\ History \in Nat \ {0} /\ MaxBackfill \in Nat \ {0}
  /\ MaxCrashes \in Nat /\ MaxAcks \in Nat
ASSUME AbsentAssumption ==
  /\ None \notin Times /\ (\A S \in SUBSET Times : S # None) /\ None \notin Prices
  /\ None \notin Acks /\ None \notin Marks /\ None \notin Requests

VARIABLES
  clock,
  status,     \* instruments.status, or "absent" when there is no row
  job,        \* whether ingest_jobs has a row for the symbol
  quote,      \* the instant of the price in quotes_latest
  bars,       \* sessions with a row in bars
  stats,      \* sessions instrument_stats was computed from, or None
  table,      \* corporate_actions: split -> "unknown", "pending" or "applied"
  announced,  \* splits with a corporate_action signal
  mark,       \* user_symbol_marks: a checkpoint, and the one it replaced
  ack,        \* the acknowledgement in flight
  pc, mode, now, got, asked, fresh, todo,   \* per worker
  \* history
  scaled,     \* split -> how often rescaleMarks ran for it
  torn,       \* splits two workers had pending at once, or one died with
  stale,      \* a worker died between new bars and their statistics, or
              \* older statistics were written over newer ones
  late,       \* a backfill was sized more than one close before it was answered
  crashes, acks

market == <<status, job, quote, bars, stats>>
actions == <<table, announced>>
user == <<mark, ack>>
worker == <<pc, mode, now, got, asked, fresh, todo>>
history == <<scaled, torn, stale, late, crashes, acks>>
vars == <<clock, market, actions, user, worker, history>>

Highest(S) == CHOOSE x \in S : \A y \in S : y <= x
Lowest(S) == CHOOSE x \in S : \A y \in S : x <= y
Smaller(a, b) == IF a < b THEN a ELSE b
Latest(S, n) == {x \in S : Cardinality({y \in S : y > x}) < n}

(* What the market's price at instant t contains. *)
PriceAt(t) == [s \in Splits |-> IF s \in Unit \/ s > t THEN 0 ELSE 1]

Init ==
  /\ clock = Start
  /\ status = "absent" /\ job = FALSE /\ quote = None /\ bars = {} /\ stats = None
  /\ table = [s \in Splits |-> "unknown"] /\ announced = {}
  /\ mark = None /\ ack = None
  /\ pc = [w \in Workers |-> "idle"] /\ mode = [w \in Workers |-> "refresh"]
  /\ now = [w \in Workers |-> 0] /\ got = [w \in Workers |-> None]
  /\ asked = [w \in Workers |-> None]
  /\ fresh = [w \in Workers |-> {}] /\ todo = [w \in Workers |-> {}]
  /\ scaled = [s \in Splits |-> 0] /\ torn = {} /\ stale = FALSE
  /\ late = FALSE /\ crashes = 0 /\ acks = 0

Goto(w, l) == pc' = [pc EXCEPT ![w] = l]

(* The end of a request: what it had read is forgotten. *)
Finish(w) ==
  /\ Goto(w, "idle")
  /\ mode' = [mode EXCEPT ![w] = "refresh"]
  /\ now' = [now EXCEPT ![w] = 0]
  /\ got' = [got EXCEPT ![w] = None]
  /\ asked' = [asked EXCEPT ![w] = None]
  /\ fresh' = [fresh EXCEPT ![w] = {}]
  /\ todo' = [todo EXCEPT ![w] = {}]

-----------------------------------------------------------------------------
(* ensureInstrument: a symbol is put on a list. *)

(* A symbol nobody knows throws; one without a row is resolved first. *)
Ensure(w) ==
  /\ pc[w] = "idle"
  /\ Goto(w, IF status = "absent" THEN "resolved" ELSE "count")
  /\ mode' = [mode EXCEPT ![w] = "ensure"]
  /\ UNCHANGED <<clock, market, actions, user, now, got, asked, fresh, todo, history>>

upsertInstrument(w) ==
  /\ pc[w] = "resolved"
  /\ status' = "active"
  /\ Goto(w, "count")
  /\ UNCHANGED <<clock, job, quote, bars, stats, actions, user, mode, now, got, asked, fresh, todo,
                 history>>

(* countBars: a symbol with too little history asks for the whole seed. *)
Seed(w) ==
  /\ pc[w] = "count"
  /\ IF Cardinality(bars) >= History
     THEN Goto(w, "enqueue") /\ UNCHANGED asked
     ELSE /\ asked' = [asked EXCEPT ![w] = [last |-> 0, want |-> History]]
          /\ Goto(w, "history")
  /\ UNCHANGED <<clock, market, actions, user, mode, now, got, fresh, todo, history>>

(* ensureJob, before the statistics, which are only computed if there are  *)
(* new bars or there were none.                                            *)
Enqueue(w) ==
  /\ pc[w] \in {"enqueue", "seeded"}
  /\ job' = TRUE
  /\ Goto(w, IF pc[w] = "seeded" THEN "sync" ELSE IF stats = None THEN "stats" ELSE "idle")
  /\ mode' = [mode EXCEPT ![w] = "refresh"]
  /\ UNCHANGED <<clock, status, quote, bars, stats, actions, user, now, got, asked, fresh, todo,
                 history>>

-----------------------------------------------------------------------------
(* refresh *)

(* A failed or throttled getQuote changes nothing. *)
Fetch(w) ==
  /\ pc[w] = "idle" /\ job
  /\ got' = [got EXCEPT ![w] = clock]
  /\ now' = [now EXCEPT ![w] = clock]
  /\ Goto(w, "store")
  /\ UNCHANGED <<clock, market, actions, user, mode, asked, fresh, todo, history>>

NotFound(w) ==
  /\ pc[w] = "idle" /\ job
  /\ status' = "delisted"
  /\ UNCHANGED <<clock, job, quote, bars, stats, actions, user, worker, history>>

(* Mutant: the upsert has no guard. *)
AcceptsAny(q) == TRUE

Accepts(q) == IF quote = None THEN TRUE ELSE quote <= q

upsertQuote(w) ==
  /\ pc[w] = "store"
  /\ IF Accepts(got[w]) THEN quote' = got[w] /\ Goto(w, "revive")
                        ELSE UNCHANGED quote /\ Goto(w, "backfill")
  /\ got' = [got EXCEPT ![w] = None]
  /\ UNCHANGED <<clock, status, job, bars, stats, actions, user, mode, now, asked, fresh, todo,
                 history>>

(* A symbol that resolves again is marked active again. *)
Revive(w) ==
  /\ pc[w] = "revive"
  /\ status' = IF status = "delisted" THEN "active" ELSE status
  /\ Goto(w, "backfill")
  /\ UNCHANGED <<clock, job, quote, bars, stats, actions, user, mode, now, got, asked, fresh, todo,
                 history>>

(* Mutant: only the sessions that were missing when the cycle began. *)
WantedExactly(w) ==
  IF bars = {} THEN History ELSE Smaller(now[w] - Highest(bars), MaxBackfill)

(* How many sessions backfillIfNeeded asks for: one more than are missing. *)
Wanted(w) ==
  IF bars = {} THEN History ELSE Smaller(now[w] - Highest(bars) + 1, MaxBackfill)

UpToDate(w) == bars # {} /\ Highest(bars) >= now[w]

(* backfillIfNeeded reads the last bar and asks ... *)
Backfill(w) ==
  /\ pc[w] = "backfill" /\ ~UpToDate(w)
  /\ asked' = [asked EXCEPT ![w] = [last |-> IF bars = {} THEN 0 ELSE Highest(bars),
                                   want |-> Wanted(w)]]
  /\ Goto(w, "history")
  /\ UNCHANGED <<clock, market, actions, user, mode, now, got, fresh, todo, history>>

NoBackfill(w) ==
  /\ pc[w] = "backfill" /\ UpToDate(w)
  /\ Finish(w)
  /\ UNCHANGED <<clock, market, actions, user, history>>

(* ... and the answer, of the sessions closed by then, is cut at the bar   *)
(* read before it was asked for.                                           *)
Answer(w) == {b \in Latest(SessionsUpTo(clock), asked[w].want) : b > asked[w].last}

getHistory(w) ==
  /\ pc[w] = "history" /\ Answer(w) # {}
  /\ fresh' = [fresh EXCEPT ![w] = Answer(w)]
  /\ asked' = [asked EXCEPT ![w] = None]
  /\ now' = [now EXCEPT ![w] = 0]
  /\ late' = (late \/ (asked[w].last # 0 /\ clock > now[w] + 1))
  /\ Goto(w, "bars")
  /\ UNCHANGED <<clock, market, actions, user, mode, got, todo, scaled, torn, stale, crashes, acks>>

(* A seed of no bars at all: the symbol is polled all the same. *)
NoSeed(w) ==
  /\ pc[w] = "history" /\ mode[w] = "ensure"
  /\ asked' = [asked EXCEPT ![w] = None]
  /\ Goto(w, "enqueue")
  /\ UNCHANGED <<clock, market, actions, user, mode, now, got, fresh, todo, history>>

(* It throws, or has nothing new: a seed fails with the instrument known,  *)
(* a cycle goes on to detection.                                           *)
NoHistory(w) ==
  /\ pc[w] = "history"
  /\ Finish(w)
  /\ UNCHANGED <<clock, market, actions, user, history>>

(* One transaction; a session that is there already is merged into. *)
upsertBars(w) ==
  /\ pc[w] = "bars"
  /\ bars' = bars \cup fresh[w]
  /\ mode' = [mode EXCEPT ![w] = "refresh"]
  /\ fresh' = [fresh EXCEPT ![w] = {}]
  /\ Goto(w, IF mode[w] = "ensure" THEN "seeded" ELSE "sync")
  /\ UNCHANGED <<clock, status, job, quote, stats, actions, user, now, got, asked, todo, history>>

-----------------------------------------------------------------------------
(* recomputeStats *)

(* Mutant: two bars are not enough. *)
getBarsOfThree(w) ==
  /\ pc[w] = "stats"
  /\ IF Cardinality(bars) <= 2
     THEN Finish(w)
     ELSE /\ fresh' = [fresh EXCEPT ![w] = Latest(bars, History)]
          /\ Goto(w, "write")
          /\ UNCHANGED <<mode, now, got, asked, todo>>
  /\ UNCHANGED <<clock, market, actions, user, history>>

getBars(w) ==
  /\ pc[w] = "stats"
  /\ IF Cardinality(bars) < 2
     THEN Finish(w)
     ELSE /\ fresh' = [fresh EXCEPT ![w] = Latest(bars, History)]
          /\ Goto(w, "write")
          /\ UNCHANGED <<mode, now, got, asked, todo>>
  /\ UNCHANGED <<clock, market, actions, user, history>>

upsertStats(w) ==
  /\ pc[w] = "write"
  /\ stats' = fresh[w]
  /\ stale' = (Highest(fresh[w]) < Highest(bars))
  /\ Finish(w)
  /\ UNCHANGED <<clock, status, job, quote, bars, actions, user, scaled, torn, late, crashes,
                 acks>>

-----------------------------------------------------------------------------
(* CorporateActionService.sync, after new bars only. *)

Sync(w) ==
  /\ pc[w] = "sync"
  /\ \E known \in {{}, {s \in Splits : s <= clock}} :   \* {}: none, or a failure
       /\ todo' = [todo EXCEPT ![w] = known]
       /\ Goto(w, IF known = {} THEN "stats" ELSE "record")
  /\ UNCHANGED <<clock, market, actions, user, mode, now, got, asked, fresh, history>>

(* Mutant: on conflict the row is written anew. *)
RecordedAnew(s) == "pending"

Recorded(s) == IF table[s] = "unknown" THEN "pending" ELSE table[s]

(* record: one INSERT ... ON CONFLICT DO NOTHING for each action. *)
Record(w) ==
  /\ pc[w] = "record"
  /\ \E s \in todo[w] :
       /\ table' = [table EXCEPT ![s] = Recorded(s)]
       /\ todo' = [todo EXCEPT ![w] = @ \ {s}]
       /\ Goto(w, IF todo[w] = {s} THEN "pending" ELSE "record")
  /\ UNCHANGED <<clock, market, announced, user, mode, now, got, asked, fresh, history>>

Handling(w, s) == pc[w] \in {"rescale", "mark", "announce"} /\ s \in todo[w]

pendingSplits(w) ==
  /\ pc[w] = "pending"
  /\ LET pending == {s \in Splits : table[s] = "pending"}
     IN /\ todo' = [todo EXCEPT ![w] = pending]
        /\ torn' = torn \cup {s \in pending : \E v \in Workers \ {w} : Handling(v, s)}
        /\ Goto(w, IF pending = {} THEN "stats" ELSE "rescale")
  /\ UNCHANGED <<clock, market, actions, user, mode, now, got, asked, fresh, scaled, stale, late,
                 crashes, acks>>

split(w) == Lowest(todo[w])

Scaled(p, s) == IF p = None THEN None ELSE [p EXCEPT ![s] = @ + 1]

(* Mutant: every checkpoint of the symbol is rescaled. *)
RescaledAll(m, s) == [m EXCEPT !.price = Scaled(@, s), !.prevPrice = Scaled(@, s)]

(* Mutant: the factor is numerator / denominator. *)
RescaledBack(m, s) ==
  IF m.at < s /\ m.price # None THEN [m EXCEPT !.price = [@ EXCEPT ![s] = @ - 1]] ELSE m

(* Only checkpoints from before the split; the replaced one goes with it. *)
Rescaled(m, s) ==
  IF m.at < s /\ m.price # None
  THEN [m EXCEPT !.price = Scaled(@, s), !.prevPrice = Scaled(@, s)]
  ELSE m

rescaleMarks(w) ==
  /\ pc[w] = "rescale" /\ split(w) \notin Unit
  /\ mark' = IF mark = None THEN None ELSE Rescaled(mark, split(w))
  /\ scaled' = [scaled EXCEPT ![split(w)] = @ + 1]
  /\ Goto(w, "mark")
  /\ UNCHANGED <<clock, market, actions, ack, mode, now, got, asked, fresh, todo, torn, stale,
                 late, crashes, acks>>

NextSplit(w) ==
  /\ todo' = [todo EXCEPT ![w] = @ \ {split(w)}]
  /\ Goto(w, IF todo[w] = {split(w)} THEN "stats" ELSE "rescale")

(* A ratio of 1 is marked as applied and not announced. *)
SkipSplit(w) ==
  /\ pc[w] = "rescale" /\ split(w) \in Unit
  /\ table' = [table EXCEPT ![split(w)] = "applied"]
  /\ NextSplit(w)
  /\ UNCHANGED <<clock, market, announced, user, mode, now, got, asked, fresh, history>>

markApplied(w) ==
  /\ pc[w] = "mark"
  /\ table' = [table EXCEPT ![split(w)] = "applied"]
  /\ Goto(w, "announce")
  /\ UNCHANGED <<clock, market, announced, user, mode, now, got, asked, fresh, todo, history>>

(* Mutant: a split is only announced if it moved a checkpoint. *)
announceIfRescaled(w) ==
  /\ pc[w] = "announce"
  /\ announced' = IF mark = None THEN announced ELSE announced \cup {split(w)}
  /\ NextSplit(w)
  /\ UNCHANGED <<clock, market, table, user, mode, now, got, asked, fresh, history>>

(* The signal that explains the jump of the price. *)
announce(w) ==
  /\ pc[w] = "announce"
  /\ announced' = announced \cup {split(w)}
  /\ NextSplit(w)
  /\ UNCHANGED <<clock, market, table, user, mode, now, got, asked, fresh, history>>

-----------------------------------------------------------------------------
(* ViewService.acknowledge: the instant and the stored quote are read      *)
(* first, the checkpoint is written afterwards, by a monotonic upsert.     *)
AckRead ==
  /\ ack = None /\ acks < MaxAcks
  /\ ack' = [at |-> clock, price |-> IF quote = None THEN None ELSE PriceAt(quote)]
  /\ acks' = acks + 1
  /\ UNCHANGED <<clock, market, actions, mark, worker, scaled, torn, stale, late, crashes>>

advanceMarks ==
  /\ ack # None
  /\ mark' = IF mark = None
             THEN [at |-> ack.at, price |-> ack.price, prevAt |-> None, prevPrice |-> None]
             ELSE IF ack.at >= mark.at
             THEN [at |-> ack.at, price |-> ack.price, prevAt |-> mark.at,
                   prevPrice |-> mark.price]
             ELSE mark
  /\ ack' = None
  /\ UNCHANGED <<clock, market, actions, worker, history>>

(* Undo: the second statement deletes the row that the first restored.     *)
undoMarks ==
  /\ mark # None
  /\ mark' = None
  /\ UNCHANGED <<clock, market, actions, ack, worker, history>>

(* The process dies: its transaction is rolled back, what it held is lost. *)
Crash(w) ==
  /\ pc[w] # "idle" /\ crashes < MaxCrashes
  /\ crashes' = crashes + 1
  /\ torn' = IF pc[w] \in {"mark", "announce"} THEN torn \cup {split(w)} ELSE torn
  /\ stale' = (stale \/ pc[w] \in {"seeded", "sync", "record", "pending", "rescale", "mark",
                                   "announce", "stats", "write"})
  /\ Finish(w)
  /\ UNCHANGED <<clock, market, actions, user, scaled, late, acks>>

Tick ==
  /\ clock < MaxNow
  /\ clock' = clock + 1
  /\ UNCHANGED <<market, actions, user, worker, history>>

Next ==
  \/ Tick \/ AckRead \/ advanceMarks \/ undoMarks
  \/ \E w \in Workers :
       \/ Ensure(w) \/ upsertInstrument(w) \/ Seed(w) \/ Enqueue(w)
       \/ Fetch(w) \/ NotFound(w) \/ upsertQuote(w) \/ Revive(w)
       \/ Backfill(w) \/ NoBackfill(w) \/ getHistory(w) \/ NoSeed(w) \/ NoHistory(w)
       \/ upsertBars(w)
       \/ Sync(w) \/ Record(w) \/ pendingSplits(w) \/ rescaleMarks(w) \/ SkipSplit(w)
       \/ markApplied(w) \/ announce(w) \/ getBars(w) \/ upsertStats(w)
       \/ Crash(w)

Spec == Init /\ [][Next]_vars
-----------------------------------------------------------------------------
TypeOK ==
  /\ clock \in Times /\ status \in {"absent", "active", "delisted"} /\ job \in BOOLEAN
  /\ quote \in Optional(Times)
  /\ bars \subseteq Times /\ stats \in Optional(SUBSET Times)
  /\ table \in [Splits -> {"unknown", "pending", "applied"}] /\ announced \subseteq Splits
  /\ mark \in Optional(Marks) /\ ack \in Optional(Acks)
  /\ pc \in [Workers -> Labels] /\ mode \in [Workers -> {"refresh", "ensure"}]
  /\ now \in [Workers -> Times] /\ got \in [Workers -> Optional(Times)]
  /\ asked \in [Workers -> Optional(Requests)]
  /\ fresh \in [Workers -> SUBSET Times] /\ todo \in [Workers -> SUBSET Splits]
  /\ scaled \in [Splits -> Nat] /\ torn \subseteq Splits
  /\ stale \in BOOLEAN /\ late \in BOOLEAN /\ crashes \in 0 .. MaxCrashes
  /\ acks \in 0 .. MaxAcks

(* A split is applied to the checkpoints once, however often it is fetched *)
(* and whoever fetches it, unless two workers had it pending at once or    *)
(* one died before it could say so.                                        *)
AppliedOnce ==
  \A s \in Splits \ torn :
    scaled[s] <= 1 /\ (table[s] = "applied" => scaled[s] = IF s \in Unit THEN 0 ELSE 1)

AtMostOnce(price) == price # None => \A s \in Splits \ torn : price[s] <= 1

(* No checkpoint contains a split twice, nor does the one it replaced: a   *)
(* split is not applied to a price that contains it already, whatever      *)
(* acknowledgements, undos and cycles overlap, but for the splits in torn. *)
NoSplitTwice == mark # None => AtMostOnce(mark.price) /\ AtMostOnce(mark.prevPrice)

(* Once every split of the past is applied, a checkpoint contains them     *)
(* all: what the split service is for, and what the code does not always   *)
(* do (README, section 6).  No run checks it.                              *)
Comparable ==
  (mark # None /\ mark.price # None /\ \A s \in Splits : s <= clock => table[s] = "applied") =>
    \A s \in Splits \ (torn \cup Unit) : s <= clock => mark.price[s] = 1

(* A split that changed a checkpoint is explained: nobody is left with a   *)
(* rescaled price and no signal that says why.                             *)
AppliedIsAnnounced ==
  \A s \in Splits \ (torn \cup Unit) :
    table[s] = "applied" =>
      s \in announced \/ \E w \in Workers : pc[w] = "announce" /\ split(w) = s

(* The displayed price never goes back in time, whichever fetch is stored  *)
(* last.                                                                   *)
QuoteNeverOlder ==
  [][(quote # None /\ quote' # quote) => quote' >= quote]_vars

(* When nobody is at work the statistics cover the newest bar, unless a    *)
(* worker died on the way or an older computation was written last.        *)
StatsCoverBars ==
  ((\A w \in Workers : pc[w] = "idle") /\ Cardinality(bars) >= 2 /\ ~stale) =>
    stats # None /\ Highest(stats) = Highest(bars)

(* A session is missing between stored ones only behind a full backfill:   *)
(* an outage longer than MaxBackfill (or than the seed), unless a cycle    *)
(* was so slow that two sessions closed between its instant and its        *)
(* request, which then asked for too few.                                  *)
NoHoles ==
  ~late => \A s \in SessionsUpTo(clock) \ bars :
    (\E a \in bars : a < s) =>
      \/ \A b \in bars : b < s
      \/ Cardinality({b \in bars : b > s}) >= Smaller(History, MaxBackfill)
=============================================================================
