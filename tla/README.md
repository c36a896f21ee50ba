# sigma-watchlist: specifications and proofs

TLA+ specifications of sigma-watchlist, its server and the browser client that
follows it, the TLC runs that check them on small instances, and TLAPS proofs
of what matters most. `PROJECT.json` maps every definition to the code it
stands for. Unless a path starts with `web/` (for `src/web/src/`), paths below
are relative to `src/server/src/`.

## 1. The system

A watchlist that tells its user what changed since they last looked. A
scheduler polls quotes, detectors turn each quote into readings, an episode
machine with two thresholds decides which readings are news, and a briefing
shows each user the news after their own checkpoint.

| Component | State it keeps | Operations | Correct when |
|---|---|---|---|
| Episode machine (`domain/signals/hysteresis.ts`) | none (pure) | `step` | one announcement per episode, no chatter between two thresholds |
| Detection engine, signal store (`services/detection.ts`, `db/signalRepo.ts`) | tables `signals`, `signal_state` | `detect`, `apply`, `insertIfAbsent`, `intensify`, `supersede`, `putStates`, `pruneBefore` | no episode silenced, none announced twice, what was shown only matures, the two tables agree |
| History replay (`services/replay.ts`) | the same tables | `replayMissing` on boot | a restart announces nothing again |
| Statistics, detectors (`domain/stats.ts`, `domain/signals/detectors.ts`) | none (pure) | `computeStats`, ten detectors | a reading reflects the bars and the quote, and nothing is read from an unusable price |
| Scoring and taste (`domain/signals/scoring.ts`, `learning.ts`, `db/feedbackRepo.ts`) | `user_kind_weights`, `signal_reads` | `rankSignals`, `learnedWeight`, feedback | budgets account for what they hide, taste reorders and never hides |
| Briefing and table (`services/view.ts`) | none of its own | `getDigest`, rows, badges, health | every new signal is shown, counted or filtered; the two views agree |
| Watermarks (`db/userRepo.ts`, `services/view.ts`) | table `user_symbol_marks` | acknowledge, undo, rewind | checkpoints settle on the latest, nothing is shown twice |
| Watchlists (`db/userRepo.ts`, `web/App.tsx`) | `watchlists`, `watchlist_items`, versions; the browser's copy | add, remove, update, reorder, delete | limits hold, no edit lands unseen on another |
| Idempotent requests (`api/server.ts`, `db/userRepo.ts`) | `idempotency_keys` | `withIdempotency` | what was answered does not run again |
| Ingest queue, scheduler (`db/ingestRepo.ts`, `ingest/scheduler.ts`) | table `ingest_jobs`, activity | claim, complete, back off, sweep, expedite | one fetcher per symbol, nobody starves, orphans leave |
| Ingest pipeline (`services/ingest.ts`, `db/marketRepo.ts`) | `instruments`, quotes, bars, statistics | `ensureInstrument`, `refresh`, backfill | quotes never regress, history has no holes, statistics follow it |
| Corporate actions (`services/corporateActions.ts`, `db/actionsRepo.ts`) | `corporate_actions`; rescales marks | `sync` | every split applied once and explained |
| Provider registry, resilience (`providers/registry.ts`, `infra/resilience.ts`) | breaker, token bucket, flights per provider | `call`, `canAttempt`, `recordSuccess`, `recordFailure` | an outage is contained and ends, every caller is answered |
| Reconciliation, freshness (`providers/reconcile.ts`) | none (pure) | `reconcile`, `classifyFreshness` | conflicts and stale prices are recognised |
| Market clock (`domain/marketClock.ts`, `calendar.ts`) | none (pure) | phase, session, close, distance in sessions | a session has one close |
| Change bus, stream (`services/events.ts`, `api/routes/stream.ts`, `web/lib/stream.ts`, `web/App.tsx`) | sequence, replay buffer, connections; the client's position and page | publish, flush, since, connect, load | a client never misses a change in silence, its page never goes back |
| Authentication (`api/routes/auth.ts`, `db/authRepo.ts`, `web/lib/api.ts`) | users, sessions; the browser's token | sign in, resolve, slide, end, prune | a session ends when it was ended, and only then |
| SQL client, replica (`db/sql.ts`, `db/replica.ts`) | connections | `tx`, routed reads | what rolls back leaves nothing, lag is harmless |
| Provider adapters, simulator, password hashing, migrations, HTTP shell, rendering | | | see section 7 |

How they interact. The scheduler claims due jobs and calls the pipeline. The
pipeline calls the registry, which calls providers through a bucket and a
breaker; it stores the quote, catches history up, applies splits to the
checkpoints, recomputes statistics and runs detection, whose rows the briefing
reads through SQL. All durable state is in one database; every statement is
atomic, but detection, acknowledging, sweeping and applying splits take several
statements and are not transactions, and market data may be read from a
replica that lags. Several processes may share the database. The change bus is
an in-process callback from the pipeline to open streams; browsers follow it,
and poll underneath. Routes touch the queue: adding a symbol creates its job,
opening one pulls it forward.

What is hard: statements of several workers interleave; a cycle can stop
between two of them; `now` is read before the network calls and used after
them; a lease can be moved by somebody else; late answers reach a breaker in
another state; answers, events and page loads arrive out of order or not at
all; browsers and scripts edit one list; a session is extended by a statement
nobody waits for; a restart forgets the bus and replays history.
`PROJECT.json` lists these hazards at their lines with the properties that
would notice.

## 2. The modules

*From a reading to a signal.*

**Hysteresis** is the function `step`: one reading, the persisted row, `now`,
and the outcome. Readings are magnitudes in fixed-point units.

**Detection** is the cycle of one symbol, one SQL statement per action:
`Begin` (the instant that stamps everything), `Fetch` (the effective quote),
`ReadStates`, then per detector `Observe` (one turn of the loop up to its
first statement), `Supersede`, `Insert`, `Intensify`, and finally `PutStates`.
`Abort` stops a cycle anywhere. `Prune` is the sweep's deletion. A worker is
the scheduler's tick, the refresh route, or the same two of another process.

**DetectionSerial** adds a history variable and the statements that relate the
two tables, which hold for one worker and no faults. **Episodes** is the
abstract promise (per kind one standing item, announced once, standing
conditions adopted in silence only when their kind is first looked at);
`DetectionSerial!Promise` is the refinement mapping: the standing item of a
kind is its open row, or the tracked episode that never had one. **Replay**
drives `Detection` from stored bars on every boot.

*From the providers to the tables.*

**Queue** is the table `ingest_jobs`, the ticks and sweeps of several
schedulers, and the routes that add, remove and open symbols. A tick is an
instance and a slot: when one worker of a pool throws, the guard against
overlapping ticks is lifted while the others still run
(`ingest/scheduler.ts:123,158`), and the next tick takes another slot. Time is
relative to now; jobs overdue beyond a bound keep only their order.

**Ingest** is the pipeline of one symbol, statement by statement, for several
workers: adding a new symbol, refreshing a known one, catching its history up,
its splits, and the checkpoint (with the one it replaced) that they rescale.
Asking for history and its answer are two steps. A price is known by how often
it contains each split: prices compare only when they contain the same.

**Breaker** is `CircuitBreaker` with the calls `ProviderRegistry.call` sends
through it; **Registry** extends it with the token bucket, retries, the
deadline of each attempt and the flights that callers share. Time is kept as
ages that stop at their limits, so that behaviours of any length have finitely
many states and liveness is checked in earnest.

*From the tables to a reader.*

**Stats**, **Detectors**, **Scoring**, **Quotes** and **MarketClock** are the
pure algorithms as operators in fixed point (hundredths); **Briefing** composes
them. `MarketClock` keeps the offset of the exchange's time from UTC, summer
time included. In `Briefing` a refresh reconciles the answers of two providers,
runs all ten detectors and the episode machine and writes the signals; a user
mutes, dismisses, opens and acknowledges; the digest, the badges and the health
line are computed from what is stored. One cycle is three functions of the
readings: what the detectors say (`Readings`), what the machine makes of it
(`Outcomes`), and the rows this leaves (`RowsAfter`, `Inserted`, `RowAfter`):
the loop over the detectors keeps to the rows of one kind per turn, so that its
order does not matter. A refresh is one step there, since its interleavings are
the subject of Detection and Ingest.

**Watermarks** is one user's checkpoint for one symbol, two devices, the
detection cycles that insert signals meanwhile, and the replica from which the
briefing reads them. The statements of a request are separate actions
(`AckBegin`, `AckPrice`, `AckWrite`; `DigestMarks`, `DigestSignals`); undo is
one transaction and one action.

*Browsers.*

**Stream** is the bus (a batch being gathered, a bounded history), tickets,
the connection limits, streams whose end only one side has noticed or that a
failed write has ended, restarts, and one browser that resumes where it was and
reloads when it hears of a change to a row it shows. Data is a version number;
a load reads it from the replica at one instant and shows it at another, and a
load that is not the stream's (`Reload`) may begin at any time, whatever others
are in flight. A refresh may break between its write and its event
(`RefreshBreaks`).

**Lists** is one list with its version, edited by browsers, which send the
version they know, and by scripts, which send a key they may repeat and which
another user may have used (`Foreign`). A transaction is two steps, the locked
read and the commit. The page holds a version and rows that it loaded at
different times.

**Sessions** is one account used from several tabs: its sessions, the
extensions under way, the streak that locks the account, and the token in
memory and in `localStorage`. Signing out is two steps: the request, and the
answer at which the tab forgets the token it has by then.

The `*Proofs` modules hold the theorems of section 4. The `MC*` modules hold
the values the configurations need and, where it is sound (no liveness, no
CHOOSE over the set), symmetry.

## 3. The runs

| Run | Question | What it shows |
|---|---|---|
| `detection_race` | two workers, cycles that stop anywhere: is an episode ever silenced, does a shown row ever regress? | neither; also checks the inductive invariant of the proofs |
| `detection_serial` | one worker, no faults: do the tables agree, does the engine keep the promise of Episodes? | they do, and it does |
| `replay_restart` | is replay idempotent, as the README of the repository says? | no: the one run that expects a violation (section 6) |
| `queue_lease` | two schedulers, crashes, routes, batches that outlive the lease: does the lease exclude? | it does for as long as it lasts, unless something else moved the job |
| `queue_liveness` | does every watched symbol keep being polled, does every orphan leave? | yes |
| `ingest` | two workers, splits, an acknowledgement, a death: do prices, splits, statistics, history and checkpoints stay right? | prices never go back; a split applies once, is explained, and is in no checkpoint twice, unless two workers had it at once or one died with it; statistics reach the newest bar, but for the two orders of `stale`; no holes but behind a very slow cycle. That checkpoints contain each split is not so (section 6) |
| `breaker` (module Registry) | outages, late answers, manual trips, an empty bucket: one probe, closing on proof, recovery, every caller answered? | yes, recovery as long as no probe slot is lost |
| `briefing` | on both clocks, from answers to a reader: is every signal accounted for, does taste only reorder, is nothing announced on a price that cannot be trusted? | yes |
| `watermarks` | two devices and a replica: do checkpoints settle, is anything shown again? | they settle, nothing is |
| `stream` | lost connections, silent streams, failed writes, a lagging replica, full limits, a restart: does a caught-up client miss a change, does the page go back, are slots lost? | it misses only what no event will tell it of, what it passed over before it had rows, and what the replica did not have yet; never back; a slot is lost only to a failed write |
| `lists` | lost answers, conflicts, repeated keys, a full list: does an edit land on another unseen, does an answered key run again? | no edit does; a key only if another user's answer is stored under it |
| `sessions` | two tabs, failing and late extensions, a restart: does a session end by itself or come back? | neither |

### Bounds

* Magnitudes 0, 1, 2, 3 with exit 1 and enter 2: quiet, dead band, entering,
  and more than 15% above the peak. Every branch of `step` is taken. Two
  discriminators are enough for a change of character and a return.
* Detection: `MaxNow` bounds the clock, so two or three cycles per worker;
  the interesting races need two overlapping cycles, a reopening needs three
  instants. `detection_race` has one kind since kinds only share the final
  upsert; `detection_serial` has a market kind and a state kind.
  `Retention = 0` lets `Prune` delete a row as soon as it is superseded and no
  running cycle is older, which is the hardest case for the properties.
* Queue: a lease of 2, which a batch may take as long as (`BatchTime = 2`), so
  that the end of a lease meets the end of its batch; two symbols, batches and
  pools of two. `queue_lease` has two instances with one slot each: that a
  worker left running and the next tick of its own instance share a symbol is
  in the model and in the proof, but a second slot is more than TLC can do.
  `queue_liveness` has batches of one, so that one symbol can be passed over
  for the other. `MaxFaults` bounds crashes and failing statements; `MaxLate`
  is where a job's lateness is reduced to its order; `MaxDoublings` is the last
  doubling of the backoff.
* Ingest: three sessions, so that a session can close, and another, while a
  request is answered; two splits, the second with ratio 1, which the code
  skips; seeds and backfills of two, the least with statistics; one
  acknowledgement, in flight across the split or not; one worker may die. The
  clock starts at 1, before the first split. Not in the instance are an outage
  longer than a backfill and a checkpoint that replaces another; the proofs
  have both. How often a split is applied has no bound.
* Registry: two flights of which one is shared, two callers, one token gained
  every two ticks, two attempts of one tick each. The breaker has a window of
  2, two samples, cooldown 3 and two probes, and a call takes at most
  `Attempts * RequestTime = 2`: a call admitted while closed can end while the
  breaker is half-open, and a failure can leave the window. `MaxEvents` bounds
  the window's length, `MaxForced` the manual trips.
* Briefing: six bars of history and a calendar week with a weekend; a steady
  name, one in a downtrend, one with a split in its bars and one without
  statistics; seven scenes of provider answers (a surge, a move the market
  explains, a crash, a dispute, an old price, one from the future, none) in
  three instants: in session, in the next one and over the weekend, with the
  clocks going forward between the second and the first. Two user requests. A
  page of the signal query holds nine, which the instance exceeds. Thresholds
  are those of `config.ts`; windows (`Spans`) are shortened to the history,
  which leaves every fallback reachable.
* Watermarks: one signal and two prices (statements are per symbol), two
  devices, four instants: an acknowledgement, a second one, an undo and a
  briefing can overlap in any order, with the replica behind or not.
* Stream: a history of one event and two events per process, so that a
  reconnect finds nothing missing, one event missing, or a gap; a limit of two
  for this browser, its former streams (unnoticed or leaked) and another
  browser; two loads in flight; one restart; one watched symbol and one that is
  not; one change of the watched one, which the page has or lacks, and which a
  load may read from a replica that lacks it. `Replicated` is true: the hard
  case.
* Lists: one browser, two requests under way at once (of the browser or of
  scripts), two symbols and a limit of one, one key, a plain and a changed
  preference, one answer of another user's. `MaxVersion = 3` also ends sending,
  so that a change by another is always possible between a click and its
  effect.
* Sessions: two tabs, two tokens; the time units keep the order of the code's
  hours, fifteen days and thirty days. `MaxLost` allows one extension of a
  session to fail before another must land; after that it may fail again.

Deadlock is checked in every run but `lists` and `briefing`, which may stop:
the first when its versions are used up, the second when every instant is
over and the user has made their requests.

Symmetry is used in `detection_race`, `watermarks`, `ingest`, `queue_lease`,
`lists` and `sessions`, which check no liveness.

### Fairness

* `Queue`: time passes (`WF(Tick)`, which waits for ticks to end, as timeouts
  make them), an idle instance begins a tick (the interval timer), and a tick
  that has begun takes its next step (the event loop, `WF(Proceed(p))`).
* `Breaker`, `Registry`: time passes, and every attempt ends by its deadline
  (`WF(RTick)`, `WF(FlightStep(c))`, from `withTimeout`); the scheduler keeps
  asking (`WF(\E u, c : Ask(u, c))`).

Every other specification is without fairness: there, nothing is owed.
Users owe nothing, providers owe nothing, and a provider may flap for ever:
recovery is claimed only when it stays up.

## 4. What is proved

Each result holds for every value of the constants that meets the named
assumptions of its module. Each proof has one step per action; liveness is not
among them (section 5).

`DetectionProofs` (any number of workers, kinds, discriminators, values; any
thresholds with `Exit <= Enter`; any retention and clock bound; with and
without faults):

* `Invariant`: `Spec => []IndInv`
* `TypeCorrect`: `Spec => []TypeOK`
* `NothingSilenced`: `Spec => []TrackedWasAnnounced`
* `ShownRowsMature`: `Spec => RowsMature`

`TrackedWasAnnounced` speaks of the table `signal_state`, but a row gets there
from a worker's pending writes, which come from its snapshot, which came from
the table. So the invariant says of all three that what they track has been
announced, with one exception: what the worker is just about to insert
(`WillAnnounce`). `ProgramOK` says that inside `apply()` the outcome names the
keys the next statement needs. `RowsMature` needs besides that a pruned key
never comes back: a key carries the instant its cycle began
(`detectedAt = openedAt`), retention is longer than any cycle, so a pruned key
is older than every cycle in flight (`KeysAreFresh`). Lemmas about `step` come
first, then one lemma per conjunct of the invariant.

With one worker and no faults (`DetectionSerial`; each theorem assumes
`Workers = {W}`, all else is as general as above):

* `SerialInvariant`: `SSpec => [](IndInv /\ SerialInv)`
* `SerialTablesAgree`: `SSpec => []TablesAgree`
* `SerialNoChatter`: `SSpec => NoChatter`
* `SerialImplementsEpisodes`: `SSpec => ImplementsEpisodes`

The two tables agree only between cycles, so the invariant says what holds in
the middle of one: for a kind the loop has yet to reach, snapshot and table are
one and nothing is pending (`Untouched`); for one it has passed, the open row
agrees with the row that is going to be written (`rowAgrees` of `effective`);
and for the one it is at, what `apply()` is about to close or insert fits what
stands (`MidApply`). `Stamped` makes every insert one of a new row. For the
refinement, the closing of a row, and the write that ends a cycle and with it
adopts what it first saw, map to `Settle`; an insert maps to `Announce`; every
other statement is a stutter.

`UserProofs` (what one user writes: `Watermarks` and `Lists`). Of `Watermarks`,
for any devices, signals, lookbacks, and any lag of the replica, with or
without rewinds:

* `MarksTypes`: `MSpec => []MTypeOK`
* `ConcurrentAcks`: `MSpec => [](SettlesOnLatest /\ PrevIsOlder)`
* `BriefingsDoNotRepeat`: `MSpec => []NotReshown`

A briefing takes its window from the row and reads the signals later, so what
is acknowledged in between says nothing about it. The invariant therefore
relates the cutoff to what had been acknowledged when it was computed
(`CutoffCovers`), which `SettlesOnLatest` gives at that moment and no later
write disturbs.

Of `Lists`, for any browsers, requests, symbols, keys and limit:

* `ListsTypes`: `Spec => []TypeOK`, of which the limit of the list is the part
  that matters
* `NothingBlind`: `Spec => NoBlindWrite`
* `AnswersOnce`: `Spec => AnsweredOnce`, for keys whose last answer was not
  given while another user's was stored under them

The limit holds because the count is read under the row lock and at most one
request is between its read and its write (`LockHolds`). For `NoBlindWrite`
the version a browser sends has to vouch for the rows its page showed, although
the two are loaded apart: nobody knows a version that is still to come
(`NoFuture`), so a copy of an older version is never mistaken for the present
one; a page that has settled with the present version shows the present rows,
and so does the load it is waiting for once that has read (`PageFits`,
`LoadsRows`); and a request carries what its page showed when it was made
(`SawFits`).
`AnswersStored` says that what was answered under a key is stored under it, or
that another user's answer is (`clashed`).

`QueueProofs` (any instances, slots, symbols, intervals, batch sizes, leases and
faults, and however long a batch takes):

* `TypeCorrect`: `Spec => []TypeOK`
* `LeaseIsExclusive`: `Spec => []LeaseExcludes`

A second claim needs the job to be due for the second tick's `now`. The
invariant says that a held job nobody moved is due no earlier than
`Lease - age` from now (`HeldIsLeased`), so a tick that finds it due is younger
than the holder by a whole lease, which is what `LeaseExcludes` then says of
the two for good: they age together. A job that two ticks hold and that one of
them reschedules counts as moved for the other. `HoldersRun` rules out what is
left over from an earlier tick. Jobs are renumbered when they are overdue
beyond the bound (`Numbered`), which the lemma `NumberedType` shows to leave
leased jobs alone. Nothing is assumed of the length of a batch: that the lease
should outlast it is what the comment at `ingest/scheduler.ts:137` wants, and
what the defaults do not give (twelve jobs on six workers with two attempts of
four seconds per call, against fifteen seconds).

`BreakerProofs` (any calls and limits; from `CallsEndInTime`):

* `OneProbeAtATime`: `Spec => []OneProbe`
* `ClosingIsEarned`: `Spec => ClosesOnProof`
* `BreakerTypeCorrect`: `Spec => []TypeOK`, `RegistryTypeCorrect`:
  `RSpec => []RTypeOK`
* `RegistryImplementsBreaker`: `RSpec => Init /\ [][Next]_vars`, that is, the
  registry implements the breaker step by step
* `RegistryProbesAlone`, `RegistryClosesOnProof`: the first two of `RSpec`

A success counts as a probe whichever call it comes from, so the first two
depend on no call from before the outage being alive when the breaker goes
half-open. While it is open every call is at least as old as the outage
(`OpenAdmitsNobody`), hence over when the cooldown ends; from then on the one
call under way holds the slot and is a probe (`SlotIsHeld`,
`SuccessesAreProofs`). A call time above the cooldown would take the ground
from the argument.

The type of the window is not a formality, since it is bounded by what calls
under way may still record (`Room`). The code filters the window; the model
cuts off a first part of it, which is the same because events are in order of
age (`InOrder`, lemma `InWindowIsFilter`). The registry's own invariant
(`Flights`) says that a flight is at an attempt exactly while its call is under
way and that somebody waits for it; the properties of the breaker then come
over by refinement.

`StreamProofs` (any symbols, history, limits and bounds, with and without a
replica):

* `SlotsKept`: `Spec => []SlotsCounted`
* `NothingOlderShown`: `Spec => DisplayNeverOlder`
* `StreamTypeCorrect`: `Spec => []TypeOK`
* `GapInvariant`: `Spec => []GapInv`, the invariant of the next one
* `NoGapIsSilent`: `Spec => []NoSilentGap`

A slot belongs to a stream, of another browser, of this one, unnoticed or
leaked, and a stream the server has open to this client to a client that is
connected (`Slots`). Of all loads only the latest may be shown, and what it
reads is read after everything shown before (`Fresh`, of the replica's versions
and of the primary's at the same instants). Without a replica the two are the
same (`Straight`).

`NoGapIsSilent` needs to know where every change an event tells of is between
the bus and the page, in every state (`Coming`): not to be heard of any more
(`unheard`: published to nobody, lost to a restart or a broken refresh, or
passed over by a page without rows); or looked for already (`seen`: the page's
rows were read after it, from the replica or not); or about to be published; or
in a load that reads after it (`Loading`); or in a failed load the client knows
of; or on the wire, of an open stream; or, with no stream, still to be told
when the client comes back, because its position is behind the change or is of
another process (`Lost`). That a position behind is answered, with the events
after it or with `resync`, rests on the numbers of the history being
consecutive and ending with the newest (`Numbered`), and on what is on the wire
following the client's position in order (`OnWire`). The model takes a
last part of the history where the code filters by number; lemma
`AfterIsWhatFollows` shows them equal.

`SessionsProofs` (any tabs, tokens and lifetimes; from `SlidesLandInTime`):

* `SessionsLast`: `Spec => []EndsOnlyWhenEnded`

"Ended" means by its user; that a session is in use means no gap longer than
`Gap`, and no more than `MaxLost` extensions lost in a row: one that lands
starts the count anew, so a behaviour may lose any number of them. A session in
use either had time enough left when it was last used (`HadEnough`), or an
extension that was asked for in time is under way (`IsSliding`). Each loss uses
up one of `MaxLost` and at most one gap and one landing time (`Cost`). `Rows`
says that a session that was ended has no row and that extensions only extend
rows.

`IngestProofs` (any number of workers, splits, acknowledgements and deaths, any
lengths of seed and backfill):

* `IngestTypeCorrect`: `Spec => []TypeOK`
* `SplitsApplyOnce`: `Spec => []AppliedOnce`
* `NoSplitCountsTwice`: `Spec => []NoSplitTwice`
* `RescalesAreAnnounced`: `Spec => []AppliedIsAnnounced`
* `StatsReachNewestBar`: `Spec => []StatsCoverBars`
* `HistoryWithoutHoles`: `Spec => []NoHoles`
* `DisplayedPriceOnlyNewer`: `Spec => QuoteNeverOlder`

One invariant carries all of them. A split outside `torn` is in the hands of
one worker from its record to its announcement, and its row and the number of
its rescalings follow that worker's position (`InOrder`). A price of a
checkpoint contains a split once at most, and only if it is from after the
split or the split has been applied since (`ContainedOnce`). So `rescaleMarks`,
which goes by the checkpoint's instant and runs once, meets only prices that do
not contain the split; the price it replaced is older still (`Older`), and what
is stored or fetched is never of the future (`NotOfTheFuture`). That a split is
not *missing* cannot be proved, because it is not so (`Comparable`, section 6).
For the history, what a worker is about to insert is a run of sessions that
touches the stored ones, begins with the first session, or is as long as a
whole backfill (`Joins`, from what was asked for, `Requested`), and stays so
while other workers insert theirs; `Gapless` is `NoHoles` with what that needs.
It is here that the exception `late` was found: without it the invariant is not
inductive, and TLC confirms the hole (section 6).

In the same module, on `MarketClock` (any hours, calendar, zone, periods of
summer time and simulated schedule):

* `CloseIsIdempotent`: the close of an instant is of its session, and is its
  own close exactly when the offset from UTC is the same at both
* `CloseIdentifiesSession`: two instants have one close exactly when they are
  of one session and at one offset

Both are what `marketClock.ts` demands of every implementation, and what bars
(one per close) and episode keys rest on. The condition on the offsets is the
exception that the comment at `domain/calendar.ts:107-109` concedes, for
instants before the switch on a day the clocks change; the theorems say that it
is the only one, and that even then no session gets the close of another. On
the simulated clock it is always met. The simulated clock divides, which
the provers do not: one lemma (`Division`) gives the quotient's bounds.

`ReaderProofs` (any symbols, bar histories, preferences, budgets, lookbacks,
thresholds, calendar and instants, and any finite set of answers of providers):

* `ReaderTypes`: `Spec => []TypeOK`
* `BriefingAccountsForAll`: `Spec => []WholeAccount`
* `TasteOnlyReorders`: `Spec => []TasteNeverHides`
* `BadgeCovers`: `Spec => []BadgeCoversBriefing`
* `AnnouncesOnTrust`: `Spec => AnnouncedOnTrust`

The invariant `IInv` (lemma `ReaderInvariant`) is about rows: of quotes
(`QuotesOK`), of the episode machine (`StateOK`), of signals, of which there
are finitely many and of kinds the detectors have (`SignalsOK`), of statistics
and of checkpoints, whose price is one that was stored and hence positive
(`MarksOK`). `TypeOK` alone is not inductive: a price lies in its range because
the answers it came from were filtered, and nothing could be said of a briefing
over a set of signals that may be infinite. The weight is in the lemmas about
the algorithms, each stated once for all inputs:

* Sorting. `CHOOSE` takes whatever comes first, and `FirstExists` says that a
  finite set has something that does. `SortedEnumerates`: each member once.
  That the comparators of `scoring.ts` are strict orders is `SignalOrder` and
  `GroupOrder`; the second needs that two groups are never of one symbol.
* Budgets. `BudgetKept`: the rooms left to the groups form an initial segment
  (`InitialSegment`), so what is shown fills the overall budget or nothing is
  cut for it. `RankingAccounts` adds the grouping: each signal ranked is shown
  or suppressed, or its user has muted the symbol or set a threshold above it
  (`Silenced`), and `QuietList` that the quiet symbols are those of which
  nothing is shown.
* Pages. The query returns `PageLimit` signals at most, the newest (`PageType`):
  what `BriefingAccountsForAll` and `BadgeCovers` say of all signals when the
  page is not full, they say of those newer than the page's end when it is.
* Detectors. One lemma for each, all saying `ReadingOK`: its own kind, a number
  as value and a severity of 0 .. 100, or nothing; `StaleDataOK` adds that a
  last close of a shut market is not an outage.
* Quotes. `RankedType` and `MedianType`: the median lies between the least and
  the greatest price; `LeadIsOne`: some answer leads; `ConfidenceType`: a
  dispute costs something. `ReconcileOK` puts them together.
* Scores. `LearnedType`: a weight is in 50 .. 115. `ScoreType`: with a weight
  in that range a score is positive exactly when it is without, and at least
  half of that, through four roundings (`Per100Facts`, `Halves`).

For `AnnouncedOnTrust` a cycle that inserts a signal has read something other
than zero (`CycleOutcomes`, from `StepType`: the machine opens an episode only
at the entry threshold, which is positive), and `Trusted` leaves that only when
the price is to be trusted.

Four assumptions are named in `Briefing`. `OrderAssumption`: places in the
alphabet tell symbols apart, and entry thresholds are positive.
`ScenesAssumption`: answers have the fields of a quote, with numbers in them,
any number, since what the code rejects it must be able to reject; the
benchmarks' previous close is not zero. `NoneAssumption`: no row is no row.
`StatsAssumption`: the statistics computed from the given histories are
numbers. That would follow from `Stats` by induction over the bars, the one
thing out of the prover's reach here; TLC evaluates it on the histories of the
instance, like the others.

## 5. What is only model-checked

What `Stats` computes from bars, `Replay`, and all liveness
(`RecoversUnlessLeaked`, `UsedAgain`, `EveryCallerIsAnswered`,
`WatchedIsPolled`, `OrphansAreDropped`), which is out of reach of the installed
provers, as is `ENABLED`. `Stats` folds over bars, and what a fold computes for
any number of them is an induction over data, which the provers cannot do here
either. `Replay` states one property, and the code violates it (section 6).

## 6. Where the code and its documents part

One run states a sentence of the documents and finds it violated
(`findings` in `PROJECT.json`):

* `replay_restart`: `README.md:471-472` says of replay "It is idempotent, so
  restarting does not duplicate it." Every boot replays old bars on top of the
  persisted episodes (`services/replay.ts:219`), which closes what stands and
  announces it again.

Seven more promises were found not to hold. They are kept as definitions in
their modules, and no run checks them; to see a counterexample, add the
definition to the configuration named.

* `Watermarks!UndoRestores` (`PROPERTIES`, `watermarks.cfg`): the comment at
  `db/userRepo.ts:457` says an earlier checkpoint is restored. The second
  statement of `undoMarks` deletes the row that the first has just restored,
  whose `prev_seen_at` is now null (line 489).
* `Watermarks!NewSignalsAreShown` (`PROPERTIES`, `watermarks.cfg`): a signal
  carries the instant its cycle began (`ingest/scheduler.ts:149`), so one that
  is inserted after an acknowledgement, by a cycle that began before it, is
  never shown. The same happens to a signal that has not reached the replica
  when the user acknowledges, although `db/replica.ts` says that the split
  "needs no coordination and no staleness bound".
* `Breaker!RecoversWithProvider` (`PROPERTIES`, `breaker.cfg`): a probe that is
  answered "unknown symbol" is neither a success nor a failure
  (`providers/registry.ts:387`) and keeps the only probe slot.
  `RecoversUnlessLeaked` is what holds.
* `Queue!NoDoubleFetch` (`INVARIANTS`, `queue_lease.cfg`): the lease is kept in
  `next_run_at`, and opening a symbol moves that to now
  (`db/ingestRepo.ts:158`); and a batch can outlive it. `LeaseExcludes` is what
  holds.
* `Ingest!Comparable` (`INVARIANTS`, `ingest.cfg`): a checkpoint should
  contain every split that has been applied, so that the price change since is
  a change. `rescaleMarks` goes by the checkpoint's instant
  (`db/actionsRepo.ts:119`), but what a checkpoint contains is decided by the
  quote that was stored when it was acknowledged, which may be from before the
  split; and one that is written after the split was applied, from a quote read
  before, is never rescaled. `NoSplitTwice` is what holds.
* `Lists!RepeatsAreReplayed` (`PROPERTIES`, `lists.cfg`): "a retried POST
  returns the original response instead of applying twice"
  (`db/schema.ts:253`, and `README.md:330`). A key is looked up with its user
  (`db/ingestRepo.ts:293`) but stored under the key alone, unless there is one
  (`db/ingestRepo.ts:319`, `db/schema.ts:256`): an answer under a key that
  another user holds is never stored, and its repeat runs again.
  `AnsweredOnce` is what holds. (Keys are random, so this takes a script that
  makes up its own.)
* `Detection!OneOpenRow` (`INVARIANTS`, `detection_race.cfg`): a cycle that
  stops between `insertIfAbsent` and `putStates` leaves an open row the next
  cycle does not know of and opens again under a new key. `TrackedWasAnnounced`
  is what holds: nothing is silenced.

Other places where a reader may be surprised, met while modelling, each
included in a model as the code has it unless it says otherwise:

* `services/events.ts:171`: after a restart the sequence starts again, and a
  client ahead of it is told it missed nothing, where the comment promises
  null. Likewise a change published while nobody is connected has no sequence
  number, and a refresh that throws after the quote was stored
  (`services/ingest.ts:248`) publishes nothing. An event that comes before the
  first rows are shown is compared with no rows (`web/App.tsx:101`) and passed
  over, though the load in flight may have read before it. `NoSilentGap` says
  exactly what is missed; the next poll that is answered shows it. The first
  `hello` of a stream reloads nothing.
* `api/routes/stream.ts:147`: "the close handler will clean up", but the
  handler returns at once when `open` is already false (line 210), so a stream
  whose write threw keeps its slot, its subscription and its entry for the
  shutdown until the process ends. `SlotsCounted` counts such slots.
* `web/App.tsx:255`: the poll "puts a ceiling on how long a screen can be
  wrong", for as long as the status of the stream stays the same: each change
  starts the interval anew (line 293), so a stream that flaps faster than the
  interval keeps it from ever ending. A load that takes longer than the time to
  the next one is always discarded. (The timer is not in a model.)
* `api/server.ts:354`: two requests with one key under way at once both run
  the handler; `AnsweredOnce` is about a key that has been answered.
* `db/userRepo.ts:334`: a change with nothing in it answers without asking
  whether the symbol is on the list, and without a new version.
* `db/userRepo.ts:272`: adding a symbol that is already on a full list is
  refused, though the comment below calls it a no-op.
* `web/App.tsx` `addSymbol` does not go through `mutateList`: a conflict is
  only shown. Rows of the previous sign-in stay until the next load, and a 401
  that comes late can make the tab forget a newer token. So can the answer to
  a sign-out, which `signOut` waits for before it stores null
  (`web/lib/api.ts:172-179`), when somebody signs in meanwhile.
* `domain/calendar.ts:107`: on a day the clocks change, an instant before the
  switch gets a close an hour off, which is not its own close.
* `services/corporateActions.ts:94`: between `rescaleMarks` and `markApplied` a
  death, or a second worker, leads to a second rescaling, and one between
  `markApplied` and `announce` to a split nobody explains (the exception
  `torn`).
* `services/ingest.ts:349`: `backfillIfNeeded` sizes its request by the instant
  the cycle began. If two sessions close before the request is answered, the
  bars that come are the newest ones and begin after a hole (the exception
  `late` of `NoHoles`; take it away and `ingest` shows it).
* `services/ingest.ts:141`: "the next cycle will retry them", but a cycle
  without new bars recomputes no statistics; a split fetch that failed after
  new bars is likewise not repeated until there are more. A backfill longer
  than `maxBackfillSessions` leaves a hole no later cycle fills. `upsertStats`
  has no guard against older input.
* `providers/registry.ts:327`: the token is taken before the breaker is asked,
  so refused calls use the budget up. `resolve` gives up at the first provider
  that does not know the symbol.
* `ingest/scheduler.ts:189`: a throttled poll goes through `completeOk`, which
  also resets the failure streak.
* `services/view.ts:374`: the badge is said to be of an "open" signal;
  superseded ones count, and mutes do not. The quiet list holds symbols all of
  whose signals were suppressed or muted, too.
* `db/signalRepo.ts:158`: `getSignalsSince` returns the 600 newest signals, and
  nothing says that there are more: the rest is neither shown nor counted.
  `WholeAccount` says of them only that none is newer than what was returned.
  Badge and briefing ask for pages of their own (`services/view.ts:369-371` has
  them agree), and signals of one instant at the end of a page may be in one
  and not in the other.
* `acknowledge` stores the quote of the click, not the
  price displayed.
* `POST /api/signals/read` counts signals that were read before again.
* `range_break` readings are 0 or above its threshold, so its dead band is
  never entered; the buckets of `drawdown` have no hysteresis of their own.
* `api/routes/auth.ts`: a death between the account and its first list leaves
  a user without one; replacing an outdated hash ends all sessions.

## 7. What is not modelled

* Provider adapters (`providers/yahoo.ts`, `cnbc.ts` and others), the simulator
  (`synthetic.ts`) and fault injection: parsing of foreign responses and I/O.
  `Registry` has a provider that is up or down, `Briefing` the quotes one can
  give.
* Password hashing. Its gate hands a slot over within one turn of the event
  loop, so that its cap is a property of one function.
* Migrations, configuration, logging, error formatting, and the benchmark
  snapshot, which is a reading of the scene in `Briefing`.
* The creation of lists and its limit per user, which counts without a lock;
  names and notes.
* The timer of the poll: `Stream` has its loads, begun at any time, whatever
  others are in flight, and nothing says when they begin or that they are
  answered. So that a wrong page heals is not claimed.
* A stream's frame that does not parse (`web/lib/stream.ts` drops it). The list
  does not change while `Stream` runs: which rows there are is the subject of
  `Lists`. Showing rows and comparing events with them is one step, though
  React runs the effect that updates `watchedRef` a moment later.
* The splitting of a query into several when a user watches more than 1997
  symbols: the limit of 600 is then one of each part.
* Pages, charts, rendering and desktop notifications (`web/lib/notify.ts`).
* The table of holidays and the rules for summer time: `MarketClock` has a set
  of closed days and a set of periods. The offset is in whole ticks, as it is
  in whole minutes in the code.
* Square roots and squared deviations are modelled by their order, and
  fractions in hundredths; rounding of floating point is not modelled.
* The replica's effect on pages other than the briefing and the
  acknowledgement, which show older market data for a while.

Assumptions the code does not enforce are named: that no cycle is older than
the retention (counted in sessions); `CallsEndInTime`, which holds by the
default configuration; and `SlidesLandInTime`, that a person counted as active
comes back within half the life of a session. `ZoneAssumption` says that an
hour before or after the bell is still the day of the bell.

Exemptions. Several properties exempt by a history variable what the code
breaks, and so would not catch it: `moved` and `Overran` in `LeaseExcludes`,
`torn` in `AppliedOnce`, `NoSplitTwice` and `AppliedIsAnnounced`, `stale` in
`StatsCoverBars`, `late` in `NoHoles`, `SlotLeaked` in `RecoversUnlessLeaked`,
`unheard` in `NoSilentGap`, `leaked` in `SlotsCounted`, `clashed` in
`AnsweredOnce`. What they exempt is listed in section 6, with the unexempted
formula where there is one; the hazards of `PROJECT.json` that only these
exemptions touch have a note and no property.

What would come next: a composition of `Queue` and `Ingest` in which the worker
that lost its lease is the second worker.
