-------------------------------- MODULE Queue --------------------------------
(***************************************************************************)
(* The ingest queue (table ingest_jobs, db/ingestRepo.ts), the scheduler   *)
(* ticks that drain it (ingest/scheduler.ts), and the routes that put a    *)
(* symbol on the queue or pull it forward (api/routes/core.ts).            *)
(*                                                                         *)
(* An instance is one Scheduler, and several share the table.  `ticking`   *)
(* keeps its ticks from overlapping, but for the jobs that a tick which    *)
(* threw has left running: a tick is <<instance, slot>>.  Each SQL         *)
(* statement is a step.                                                    *)
(*                                                                         *)
(* Time is relative: a job is due in `due` units (negative: overdue), and  *)
(* a tick is as old as the `now` it was started with, which it uses to its *)
(* end.  A request counts as made when it writes: that its `now` is a      *)
(* little older only shows in the order of overdue jobs.  The pool inside  *)
(* a tick lets jobs finish in any order; the timeouts below it bound how   *)
(* long a batch takes, BatchTime, which may be longer than the lease.      *)
(* POST /api/dev/tick runs a tick past the overlap guard: one more         *)
(* instance.                                                               *)
(***************************************************************************)
EXTENDS Integers, FiniteSets

CONSTANTS
  Symbols,
  Machinery,       \* symbols that are a benchmark or a sector proxy
  Viewable,        \* symbols that users open
  Instances,       \* scheduler processes
  Slots,           \* bound: ticks of an instance that have not ended
  BatchSize,
  Workers,         \* CONCURRENCY
  BatchTime,       \* the longest a tick takes
  Lease,           \* leaseMs
  Hot, Warm, Cold, \* poll intervals
  ClosedMultiplier,
  ThrottleWait,    \* how long a locally throttled symbol waits
  NotFoundDelay,   \* ten cold intervals
  MaxBackoff, MaxDoublings,
  SweepEvery,      \* SWEEP_INTERVAL_MS
  MaxLate,         \* bound: of jobs overdue for longer only the order is kept
  MaxFaults,       \* bound on crashes and failing statements
  None

ASSUME TimesAssumption ==
  /\ {Lease, Hot, Warm, Cold, ThrottleWait, NotFoundDelay, MaxBackoff,
      SweepEvery, BatchSize, Workers, ClosedMultiplier} \subseteq Nat \ {0}
  /\ {BatchTime, MaxDoublings, MaxFaults} \subseteq Nat
  /\ MaxLate \in Nat /\ MaxLate >= BatchTime
ASSUME SymbolsAssumption ==
  IsFiniteSet(Symbols) /\ Machinery \subseteq Symbols /\ Viewable \subseteq Symbols
Copies == [interval : Nat, streak : Nat]
Jobs == [due : Int, interval : Nat, streak : Nat]
ASSUME NoneAssumption == None \notin Jobs \cup Copies \cup Slots

Ticks == Instances \X Slots
Sweep == {"watched", "enqueue", "retier", "orphans", "drop"}
Labels == Sweep \cup {"idle", "claim", "benchmark", "run"}

VARIABLES
  job,      \* table ingest_jobs: symbol -> row or None
  watched,  \* symbols on somebody's watchlist
  viewed,   \* symbols opened within the hot window
  adding,   \* symbol -> the add request under way for it
  ticking,  \* instance -> the slot of the tick its guard waits for, or None
  sinceSweep,
  \* per tick
  pc, age,
  seen,     \* the rows the first of two sweep statements has read
  held,     \* symbol -> copy of the job claimed and not finished, or None
  workers,  \* of its pool, as many as have not thrown
  \* history
  moved,    \* symbols whose job was created, pulled forward, or rescheduled by
            \* another tick, while it was held
  faults

requests == <<watched, viewed, adding>>
guards == <<ticking, sinceSweep>>
ticks == <<pc, age, seen, held, workers>>
vars == <<job, requests, guards, ticks, moved, faults>>

Nothing == [s \in Symbols |-> None]

Init ==
  /\ job = [s \in Symbols |-> None]
  /\ watched = {} /\ viewed = {}
  /\ adding = [s \in Symbols |-> "no"]
  /\ ticking = [i \in Instances |-> None]
  /\ sinceSweep = [i \in Instances |-> SweepEvery]
  /\ pc = [p \in Ticks |-> "idle"]
  /\ age = [p \in Ticks |-> 0]
  /\ seen = [p \in Ticks |-> {}]
  /\ held = [p \in Ticks |-> Nothing]
  /\ workers = [p \in Ticks |-> 0]
  /\ moved = {} /\ faults = 0

HasJob == {s \in Symbols : job[s] # None}
Held(p) == {s \in Symbols : held[p][s] # None}
Working == {p \in Ticks : pc[p] # "idle"}

-----------------------------------------------------------------------------
(* ensureJob(s): an existing schedule is left alone. *)
WithJobs(new, interval, due) ==
  [s \in Symbols |-> IF s \in new /\ job[s] = None
                     THEN [due |-> due, interval |-> interval, streak |-> 0]
                     ELSE job[s]]

Smaller(a, b) == IF a <= b THEN a ELSE b

(* Jobs overdue beyond the bound are numbered down in their order: the     *)
(* queue compares next_run_at, so how late they are makes no difference.   *)
Numbered(jobs) ==
  LET late == {d \in {jobs[s].due : s \in {t \in Symbols : jobs[t] # None}} : d < -MaxLate}
      number(d) == Cardinality({e \in late : e >= d})
  IN [s \in Symbols |->
        IF jobs[s] = None THEN None
        ELSE IF jobs[s].due >= -MaxLate THEN jobs[s]
             ELSE [jobs[s] EXCEPT !.due = -MaxLate - number(@)]]

(* expedite: LEAST(next_run_at, now). *)
Expedited(s) ==
  IF job[s] = None THEN job ELSE [job EXCEPT ![s].due = Smaller(@, 0)]

-----------------------------------------------------------------------------
(* The routes. *)

(* POST .../items: the job first, then the item, which the limit or a      *)
(* stale version may refuse, then the first poll pulled forward.           *)
AddEnsure(s) ==
  /\ adding[s] = "no"
  /\ adding' = [adding EXCEPT ![s] = "ensured"]
  /\ job' = WithJobs({s}, Hot, 0)
  /\ moved' = IF job[s] = None THEN moved \cup {s} ELSE moved
  /\ UNCHANGED <<watched, viewed, guards, ticks, faults>>

AddItem(s) ==
  /\ adding[s] = "ensured"
  /\ \/ /\ watched' = watched \cup {s}
        /\ adding' = [adding EXCEPT ![s] = "added"]
     \/ /\ UNCHANGED watched
        /\ adding' = [adding EXCEPT ![s] = "no"]
  /\ UNCHANGED <<job, viewed, guards, ticks, moved, faults>>

AddExpedite(s) ==
  /\ adding[s] = "added"
  /\ adding' = [adding EXCEPT ![s] = "no"]
  /\ job' = Expedited(s)
  /\ moved' = moved \cup {s}
  /\ UNCHANGED <<watched, viewed, guards, ticks, faults>>

(* DELETE .../items/:symbol, by the last user who watched it. *)
Remove(s) ==
  /\ s \in watched
  /\ watched' = watched \ {s}
  /\ UNCHANGED <<job, viewed, adding, guards, ticks, moved, faults>>

(* GET /api/symbols/:symbol: touchActivity and expedite. *)
View(s) ==
  /\ s \in Viewable
  /\ viewed' = viewed \cup {s}
  /\ job' = Expedited(s)
  /\ moved' = moved \cup {s}
  /\ UNCHANGED <<watched, adding, guards, ticks, faults>>

LeaveHotWindow(s) ==
  /\ s \in viewed
  /\ viewed' = viewed \ {s}
  /\ UNCHANGED <<job, watched, adding, guards, ticks, moved, faults>>

-----------------------------------------------------------------------------
(* A scheduler tick. *)

Goto(p, label) == pc' = [pc EXCEPT ![p] = label]

(* The guard of the instance waits for the tick no longer. *)
Unguarded(p) == ticking' = [ticking EXCEPT ![p[1]] = IF @ = p[2] THEN None ELSE @]

End(p) ==
  /\ Goto(p, "idle")
  /\ workers' = [workers EXCEPT ![p] = 0]
  /\ Unguarded(p)

(* safeTick and the head of tick. *)
TickBegin(p) ==
  /\ ticking[p[1]] = None /\ pc[p] = "idle"
  /\ ticking' = [ticking EXCEPT ![p[1]] = p[2]]
  /\ IF sinceSweep[p[1]] >= SweepEvery
     THEN /\ Goto(p, "watched")
          /\ sinceSweep' = [sinceSweep EXCEPT ![p[1]] = 0]
     ELSE Goto(p, "claim") /\ UNCHANGED sinceSweep
  /\ age' = [age EXCEPT ![p] = 0]
  /\ UNCHANGED <<job, requests, seen, held, workers, moved, faults>>

(* enqueueMissing: what is watched is read, then put on the queue. *)
ReadWatched(p) ==
  /\ pc[p] = "watched"
  /\ seen' = [seen EXCEPT ![p] = watched \cup Machinery]
  /\ Goto(p, "enqueue")
  /\ UNCHANGED <<job, requests, guards, age, held, workers, moved, faults>>

EnqueueMissing(p) ==
  /\ pc[p] = "enqueue"
  /\ job' = WithJobs(seen[p], Warm, -age[p])
  /\ moved' = moved \cup (seen[p] \ HasJob)
  /\ seen' = [seen EXCEPT ![p] = {}]
  /\ Goto(p, "retier")
  /\ UNCHANGED <<requests, guards, age, held, workers, faults>>

(* retier: hot when somebody has just looked, warm when somebody watches.  *)
(* Its read and its write are one step: nothing but the cadence of the     *)
(* polls depends on the interval.                                          *)
IntervalOf(s) == IF s \in viewed THEN Hot ELSE IF s \in watched THEN Warm ELSE Cold

Retier(p) ==
  /\ pc[p] = "retier"
  /\ job' = [s \in Symbols |-> IF job[s] = None THEN None
                               ELSE [job[s] EXCEPT !.interval = IntervalOf(s)]]
  /\ Goto(p, "orphans")
  /\ UNCHANGED <<requests, guards, age, seen, held, workers, moved, faults>>

(* Mutant: what has been opened lately is kept. *)
OrphansUnseen == HasJob \ (watched \cup Machinery \cup viewed)

Orphans == HasJob \ (watched \cup Machinery)

(* dropOrphans: again a read and a write. *)
ReadOrphans(p) ==
  /\ pc[p] = "orphans"
  /\ seen' = [seen EXCEPT ![p] = Orphans]
  /\ Goto(p, "drop")
  /\ UNCHANGED <<job, requests, guards, age, held, workers, moved, faults>>

DropOrphans(p) ==
  /\ pc[p] = "drop"
  /\ job' = [s \in Symbols |-> IF s \in seen[p] THEN None ELSE job[s]]
  /\ seen' = [seen EXCEPT ![p] = {}]
  /\ Goto(p, "claim")
  /\ UNCHANGED <<requests, guards, age, held, workers, moved, faults>>

(* A statement of the sweep throws: the tick goes on without the rest. *)
SweepFails(p) ==
  /\ pc[p] \in Sweep
  /\ faults < MaxFaults /\ faults' = faults + 1
  /\ seen' = [seen EXCEPT ![p] = {}]
  /\ Goto(p, "claim")
  /\ UNCHANGED <<job, requests, guards, age, held, workers, moved>>

(* claimDue: one statement selects the most overdue and leases them. *)
Due(p) == {s \in HasJob : job[s].due <= -age[p]}

(* Mutant: no ORDER BY. *)
InAnyOrder(D, due) == TRUE

MostOverdue(D, due) == \A s \in D, t \in due \ D : job[s].due <= job[t].due

Batches(p) ==
  {D \in SUBSET Due(p) : /\ Cardinality(D) = Smaller(BatchSize, Cardinality(Due(p)))
                         /\ MostOverdue(D, Due(p))}

(* Mutant: the claim only stamps last_run_at. *)
Unleased(row, p) == row

(* Mutant: the lease counts from the instant the job was due. *)
LeasedFromDue(row, p) == [row EXCEPT !.due = @ + Lease]

Leased(row, p) == [row EXCEPT !.due = Lease - age[p]]

Claim(p) ==
  /\ pc[p] = "claim"
  /\ \E D \in Batches(p) :
       /\ job' = [s \in Symbols |-> IF s \in D THEN Leased(job[s], p) ELSE job[s]]
       /\ held' = [held EXCEPT ![p] = [s \in Symbols |->
            IF s \in D THEN [interval |-> job[s].interval, streak |-> job[s].streak]
            ELSE None]]
       /\ moved' = moved \ {s \in D : \A q \in Ticks : held[q][s] = None}
       /\ IF D = {} THEN End(p) ELSE Goto(p, "benchmark") /\ UNCHANGED <<workers, ticking>>
  /\ UNCHANGED <<requests, sinceSweep, age, seen, faults>>

(* benchmarkSnapshot, and the pool is started. *)
StartPool(p) ==
  /\ pc[p] = "benchmark"
  /\ Goto(p, "run")
  /\ workers' = [workers EXCEPT ![p] = Smaller(Workers, Cardinality(Held(p)))]
  /\ UNCHANGED <<job, requests, guards, age, seen, held, moved, faults>>

(* claimDue or benchmarkSnapshot throws: what was claimed stays leased. *)
TickFails(p) ==
  /\ pc[p] \in {"claim", "benchmark"}
  /\ faults < MaxFaults /\ faults' = faults + 1
  /\ held' = [held EXCEPT ![p] = Nothing]
  /\ End(p)
  /\ UNCHANGED <<job, requests, sinceSweep, age, seen, moved>>

(* runJob has recorded an outcome: the tick ends with the last job of its  *)
(* batch.                                                                  *)
Release(p, s) ==
  /\ held' = [held EXCEPT ![p][s] = None]
  /\ IF Held(p) = {s} THEN End(p) ELSE UNCHANGED <<pc, workers, ticking>>

(* completeOk and completeFail: an UPDATE, which misses a dropped job. *)
Reschedule(p, s, delay, streak) ==
  /\ pc[p] = "run" /\ held[p][s] # None
  /\ job' = IF job[s] = None THEN job
            ELSE Numbered([job EXCEPT ![s] =
                [due |-> delay - age[p], interval |-> @.interval, streak |-> streak]])
  /\ moved' = IF \E q \in Ticks \ {p} : held[q][s] # None THEN moved \cup {s} ELSE moved
  /\ Release(p, s)
  /\ UNCHANGED <<requests, sinceSweep, age, seen, faults>>

(* Mutant: the streak shrinks. *)
Shorter(s) == IF job[s] = None THEN 0 ELSE job[s].streak - 1

(* Beyond the last doubling the streak makes no difference. *)
Longer(s) == IF job[s] = None THEN 0 ELSE Smaller(job[s].streak + 1, MaxDoublings)

Succeed(p, s) ==
  \E m \in {1, ClosedMultiplier} :
    Reschedule(p, s, held[p][s].interval * m, 0)

Throttled(p, s) == Reschedule(p, s, ThrottleWait, 0)

NotFound(p, s) == Reschedule(p, s, NotFoundDelay, Longer(s))

(* backoffFor: exponential in the streak that was claimed, with jitter. *)
Backoffs(copy) ==
  LET base == Smaller(copy.interval * 2 ^ copy.streak, MaxBackoff)
  IN (base + 1) \div 2 .. (3 * base) \div 2

Fail(p, s) ==
  /\ held[p][s] # None
  /\ \E delay \in Backoffs(held[p][s]) : Reschedule(p, s, delay, Longer(s))

(* The statement that records the outcome throws, and with it runJob, its  *)
(* worker and the tick: the lease runs out, and the guard waits no longer  *)
(* for the other workers.  They go on; the last one that throws leaves     *)
(* what is left of the batch to its lease.                                 *)
Unrecorded(p, s) ==
  /\ pc[p] = "run" /\ held[p][s] # None
  /\ faults < MaxFaults /\ faults' = faults + 1
  /\ IF workers[p] <= 1 \/ Held(p) = {s}
     THEN /\ held' = [held EXCEPT ![p] = Nothing]
          /\ End(p)
     ELSE /\ held' = [held EXCEPT ![p][s] = None]
          /\ workers' = [workers EXCEPT ![p] = @ - 1]
          /\ Unguarded(p)
          /\ UNCHANGED pc
  /\ UNCHANGED <<job, requests, sinceSweep, age, seen, moved>>

(* The process dies and is restarted. *)
Crash(i) ==
  /\ faults < MaxFaults /\ faults' = faults + 1
  /\ \E p \in Working : p[1] = i
  /\ ticking' = [ticking EXCEPT ![i] = None]
  /\ sinceSweep' = [sinceSweep EXCEPT ![i] = SweepEvery]
  /\ pc' = [p \in Ticks |-> IF p[1] = i THEN "idle" ELSE pc[p]]
  /\ age' = [p \in Ticks |-> IF p[1] = i THEN 0 ELSE age[p]]
  /\ seen' = [p \in Ticks |-> IF p[1] = i THEN {} ELSE seen[p]]
  /\ held' = [p \in Ticks |-> IF p[1] = i THEN Nothing ELSE held[p]]
  /\ workers' = [p \in Ticks |-> IF p[1] = i THEN 0 ELSE workers[p]]
  /\ UNCHANGED <<job, requests, moved>>

Tick ==
  /\ \A p \in Working : age[p] < BatchTime
  /\ job' = Numbered([s \in Symbols |-> IF job[s] = None THEN None
                                        ELSE [job[s] EXCEPT !.due = @ - 1]])
  /\ age' = [p \in Ticks |-> IF p \in Working THEN age[p] + 1 ELSE 0]
  /\ sinceSweep' = [i \in Instances |-> Smaller(sinceSweep[i] + 1, SweepEvery)]
  /\ UNCHANGED <<requests, ticking, pc, seen, held, workers, moved, faults>>

Poll(p, s) == Succeed(p, s) \/ Throttled(p, s) \/ NotFound(p, s) \/ Fail(p, s)

Proceed(p) ==
  \/ ReadWatched(p) \/ EnqueueMissing(p) \/ Retier(p)
  \/ ReadOrphans(p) \/ DropOrphans(p) \/ Claim(p) \/ StartPool(p)
  \/ \E s \in Symbols : Poll(p, s)

Next ==
  \/ Tick
  \/ \E s \in Symbols : \/ AddEnsure(s) \/ AddItem(s) \/ AddExpedite(s)
                        \/ Remove(s) \/ View(s) \/ LeaveHotWindow(s)
  \/ \E p \in Ticks : \/ TickBegin(p) \/ Proceed(p)
                      \/ SweepFails(p) \/ TickFails(p)
                      \/ \E s \in Symbols : Unrecorded(p, s)
  \/ \E i \in Instances : Crash(i)

(* Time passes; a timer starts every tick (setInterval) and the timeouts   *)
(* of infra/resilience.ts end every refresh.  Users owe nothing.           *)
Fairness ==
  /\ WF_vars(Tick)
  /\ \A i \in Instances : WF_vars(\E n \in Slots : TickBegin(<<i, n>>))
  /\ \A p \in Ticks : WF_vars(Proceed(p))

Spec == Init /\ [][Next]_vars /\ Fairness
-----------------------------------------------------------------------------
TypeOK ==
  /\ job \in [Symbols -> Jobs \cup {None}]
  /\ watched \subseteq Symbols /\ viewed \subseteq Symbols
  /\ adding \in [Symbols -> {"no", "ensured", "added"}]
  /\ ticking \in [Instances -> Slots \cup {None}]
  /\ sinceSweep \in [Instances -> 0 .. SweepEvery]
  /\ pc \in [Ticks -> Labels]
  /\ age \in [Ticks -> 0 .. BatchTime]
  /\ seen \in [Ticks -> SUBSET Symbols]
  /\ held \in [Ticks -> [Symbols -> Copies \cup {None}]]
  /\ workers \in [Ticks -> 0 .. Workers]
  /\ moved \subseteq Symbols
  /\ faults \in 0 .. MaxFaults

Contended(s) == \E p, q \in Ticks : p # q /\ s \in Held(p) \cap Held(q)

Overran(p, q) == age[p] - age[q] >= Lease

(* The lease keeps ticks off each other's symbols for as long as it lasts, *)
(* through crashes, lost completions, batches left running and re-tiering: *)
(* two ticks hold a symbol only if one of them began a whole lease before  *)
(* the other (its batch has outlived the lease), or if something else has  *)
(* moved the symbol's job since it was claimed: a route, the sweep, or a   *)
(* tick that recorded an outcome so late that another held the symbol.     *)
LeaseExcludes ==
  \A s \in Symbols, p, q \in Ticks :
    (p # q /\ s \in Held(p) \cap Held(q)) =>
      s \in moved \/ Overran(p, q) \/ Overran(q, p)

(* Two ticks, or two instances, never fetch the same symbol twice: what    *)
(* the documents promise and the code does not keep (README, section 6).   *)
(* No run checks it.                                                       *)
NoDoubleFetch == \A s \in Symbols : ~Contended(s)

(* A symbol that stays on a list is polled again and again, whatever       *)
(* crashes, orphan sweeps and adds it was caught up in before, and however *)
(* often others are pulled forward.                                        *)
WatchedIsPolled ==
  \A s \in Symbols :
    <>[](s \in watched) => []<><<\E p \in Ticks : Poll(p, s)>>_vars

(* A symbol nobody wants leaves the queue for good. *)
OrphansAreDropped ==
  \A s \in Symbols \ Machinery :
    <>[](s \notin watched /\ adding[s] = "no") => <>[](job[s] = None)
==============================================================================
