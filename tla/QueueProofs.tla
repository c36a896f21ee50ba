---------------------------- MODULE QueueProofs ----------------------------
(***************************************************************************)
(* Theorems about the safety of Queue for any number of instances and      *)
(* symbols, any intervals, leases and batches, any faults.                 *)
(***************************************************************************)
EXTENDS Queue, FiniteSetTheorems, TLAPS

USE DEF Ticks, Sweep

(* Only a tick with a batch holds jobs. *)
HoldersRun == \A p \in Ticks : Held(p) # {} => pc[p] \in {"benchmark", "run"}

(* A held job that nobody else has touched is not due before the lease of  *)
(* its claim runs out (later, if another tick has claimed it since).       *)
HeldIsLeased ==
  \A p \in Ticks, s \in Symbols :
    (s \in Held(p) /\ s \notin moved /\ job[s] # None) => job[s].due >= Lease - age[p]

IInv == TypeOK /\ LeaseExcludes /\ HoldersRun /\ HeldIsLeased

-----------------------------------------------------------------------------
(* Numbering the overdue jobs changes nothing but their instants, and no   *)
(* job that is not overdue beyond the bound.                               *)
LEMMA NumberedType ==
  ASSUME NEW jobs \in [Symbols -> Jobs \cup {None}]
  PROVE  /\ Numbered(jobs) \in [Symbols -> Jobs \cup {None}]
         /\ \A s \in Symbols :
              jobs[s] = None \/ jobs[s].due >= -MaxLate => Numbered(jobs)[s] = jobs[s]
         /\ \A s \in Symbols : Numbered(jobs)[s] = None => jobs[s] = None
<1> DEFINE queued == {t \in Symbols : jobs[t] # None}
           instants == {jobs[s].due : s \in queued}
           late == {d \in instants : d < -MaxLate}
           number(d) == Cardinality({e \in late : e >= d})
           row(s) == IF jobs[s] = None THEN None
                     ELSE IF jobs[s].due >= -MaxLate THEN jobs[s]
                          ELSE [jobs[s] EXCEPT !.due = -MaxLate - number(@)]
<1>1. IsFiniteSet(instants)
  <2>1. IsFiniteSet(queued)
    BY SymbolsAssumption, FS_Subset
  <2>2. [s \in queued |-> jobs[s].due] \in Surjection(queued, instants)
    BY DEF Surjection
  <2> HIDE DEF queued, instants
  <2>3. QED
    BY <2>1, <2>2, FS_Surjection
<1>2. \A d : number(d) \in Nat
  <2>1. \A d : IsFiniteSet({e \in late : e >= d})
    BY <1>1, FS_Subset
  <2> HIDE DEF late
  <2>2. QED
    BY <2>1, FS_CardinalityType
<1>3. Numbered(jobs) = [s \in Symbols |-> row(s)]
  BY DEF Numbered
<1> HIDE DEF number
<1>4. ASSUME NEW s \in Symbols
      PROVE  /\ row(s) \in Jobs \cup {None}
             /\ jobs[s] = None \/ jobs[s].due >= -MaxLate => row(s) = jobs[s]
             /\ row(s) = None => jobs[s] = None
  <2>1. jobs[s] \in Jobs \cup {None}
    OBVIOUS
  <2>2. number(jobs[s].due) \in Nat /\ MaxLate \in Nat
    BY <1>2, TimesAssumption
  <2>3. CASE jobs[s] = None
    BY <2>3
  <2>4. CASE jobs[s] # None
    <3>1. jobs[s].due \in Int
      BY <2>1, <2>4 DEF Jobs
    <3>3. [jobs[s] EXCEPT !.due = -MaxLate - number(@)] \in Jobs
      BY <2>1, <2>2, <2>4 DEF Jobs
    <3>4. QED
      BY <2>1, <2>4, <3>3, NoneAssumption
  <2>5. QED
    BY <2>3, <2>4
<1> HIDE DEF row
<1>5. QED
  BY <1>3, <1>4

LEMMA SmallerType ==
  ASSUME NEW a \in Int, NEW b \in Int
  PROVE  Smaller(a, b) \in {a, b} /\ Smaller(a, b) <= a /\ Smaller(a, b) <= b
BY DEF Smaller

LEMMA WithJobsType ==
  ASSUME TypeOK, NEW new, NEW interval \in Nat, NEW due \in Int
  PROVE  WithJobs(new, interval, due) \in [Symbols -> Jobs \cup {None}]
BY DEF WithJobs, TypeOK, Jobs

LEMMA ExpeditedType ==
  ASSUME TypeOK, NEW s \in Symbols
  PROVE  Expedited(s) \in [Symbols -> Jobs \cup {None}]
<1>1. job[s] # None => job[s] \in Jobs /\ job[s].due \in Int
  BY DEF TypeOK, Jobs
<1>2. job[s] # None => [job[s] EXCEPT !.due = Smaller(@, 0)] \in Jobs
  BY <1>1, SmallerType DEF Jobs
<1>3. QED
  BY <1>1, <1>2 DEF Expedited, TypeOK

LEMMA EndType ==
  ASSUME TypeOK, NEW p \in Ticks, End(p)
  PROVE  /\ pc' \in [Ticks -> Labels] /\ pc'[p] = "idle"
         /\ \A q \in Ticks \ {p} : pc'[q] = pc[q]
         /\ workers' \in [Ticks -> 0 .. Workers]
         /\ ticking' \in [Instances -> Slots \cup {None}]
BY TimesAssumption DEF End, Goto, Unguarded, TypeOK, Labels

LEMMA ReleaseType ==
  ASSUME TypeOK, NEW p \in Ticks, NEW s \in Symbols, Release(p, s)
  PROVE  /\ pc' \in [Ticks -> Labels]
         /\ workers' \in [Ticks -> 0 .. Workers]
         /\ ticking' \in [Instances -> Slots \cup {None}]
         /\ held' \in [Ticks -> [Symbols -> Copies \cup {None}]]
<1>1. held' \in [Ticks -> [Symbols -> Copies \cup {None}]]
  BY DEF Release, TypeOK
<1>2. CASE End(p)
  BY <1>1, <1>2, EndType
<1>3. CASE UNCHANGED <<pc, workers, ticking>>
  BY <1>1, <1>3 DEF TypeOK
<1>4. QED
  BY <1>2, <1>3 DEF Release

(* What a tick that goes on or ends after giving up s still holds. *)
LEMMA ReleasedHeld ==
  ASSUME TypeOK, HoldersRun, NEW p \in Ticks, NEW s \in Symbols, Release(p, s)
  PROVE  /\ Held(p)' = Held(p) \ {s}
         /\ \A q \in Ticks \ {p} : Held(q)' = Held(q)
         /\ HoldersRun'
<1>1. /\ Held(p)' = Held(p) \ {s}
      /\ \A q \in Ticks \ {p} : Held(q)' = Held(q)
  BY DEF Release, Held, TypeOK
<1>2. CASE Held(p) = {s} /\ End(p)
  <2>1. \A q \in Ticks \ {p} : pc'[q] = pc[q]
    BY <1>2, EndType
  <2>2. QED
    BY <1>1, <1>2, <2>1 DEF HoldersRun
<1>3. CASE UNCHANGED pc
  BY <1>1, <1>3 DEF HoldersRun
<1>4. QED
  BY <1>1, <1>2, <1>3 DEF Release

(* The rows that recording an outcome leaves: only the symbol's own differs *)
(* from what it was, as far as jobs that are not due go.                    *)
LEMMA RescheduleType ==
  ASSUME TypeOK, NEW p \in Ticks, NEW s \in Symbols,
         NEW delay \in Int, NEW streak \in Nat, Reschedule(p, s, delay, streak)
  PROVE  /\ job' \in [Symbols -> Jobs \cup {None}]
         /\ \A t \in Symbols \ {s} : job'[t] = None => job[t] = None
         /\ \A t \in Symbols \ {s} :
              job[t] = None \/ job[t].due >= -MaxLate => job'[t] = job[t]
<1>1. CASE job[s] = None
  BY <1>1 DEF Reschedule, TypeOK
<1>2. CASE job[s] # None
  <2> DEFINE row == [due |-> delay - age[p], interval |-> job[s].interval, streak |-> streak]
             jobs == [job EXCEPT ![s] = row]
  <2>1. age[p] \in Int /\ job[s] \in Jobs
    BY <1>2, TimesAssumption DEF TypeOK
  <2>2. jobs \in [Symbols -> Jobs \cup {None}]
    <3>1. delay - age[p] \in Int
      BY <2>1
    <3>2. row \in Jobs
      BY <2>1, <3>1 DEF Jobs
    <3> HIDE DEF row
    <3>3. QED
      BY <3>2 DEF TypeOK
  <2>3. \A t \in Symbols \ {s} : jobs[t] = job[t]
    BY DEF TypeOK
  <2>4. job' = Numbered(jobs)
    BY <1>2 DEF Reschedule
  <2> HIDE DEF jobs
  <2>5. QED
    BY <2>2, <2>3, <2>4, NumberedType
<1>3. QED
  BY <1>1, <1>2

(* Every outcome of a poll is a reschedule. *)
LEMMA PollReschedules ==
  ASSUME TypeOK, NEW p \in Ticks, NEW s \in Symbols, Poll(p, s)
  PROVE  \E delay \in Int, streak \in Nat : Reschedule(p, s, delay, streak)
<1>1. held[p][s] # None
  BY DEF Poll, Succeed, Throttled, NotFound, Fail, Reschedule
<1>2. held[p][s].interval \in Nat
  BY <1>1 DEF TypeOK, Copies
<1>3. Longer(s) \in Nat
  <2>1. job[s] # None => job[s].streak + 1 \in Nat
    BY DEF TypeOK, Jobs
  <2>2. QED
    BY <2>1, SmallerType, TimesAssumption DEF Longer
<1>4. CASE Succeed(p, s)
  <2>1. PICK m \in {1, ClosedMultiplier} :
          Reschedule(p, s, held[p][s].interval * m, 0)
    BY <1>4 DEF Succeed
  <2>2. m \in Nat
    BY TimesAssumption
  <2>3. held[p][s].interval * m \in Int
    BY <1>2, <2>2
  <2>4. QED
    BY <2>1, <2>3
<1>5. CASE Throttled(p, s)
  BY <1>5, TimesAssumption DEF Throttled
<1>6. CASE NotFound(p, s)
  BY <1>6, <1>3, TimesAssumption DEF NotFound
<1>7. CASE Fail(p, s)
  <2>1. PICK delay \in Backoffs(held[p][s]) : Reschedule(p, s, delay, Longer(s))
    BY <1>7 DEF Fail
  <2>2. delay \in Int
    BY DEF Backoffs
  <2>3. QED
    BY <1>3, <2>1, <2>2
<1>8. QED
  BY <1>4, <1>5, <1>6, <1>7 DEF Poll

-----------------------------------------------------------------------------
LEMMA InitIInv == Init => IInv
<1> SUFFICES ASSUME Init PROVE IInv
  OBVIOUS
<1>1. TypeOK
  BY TimesAssumption DEF Init, TypeOK, Labels, Nothing
<1>2. \A p \in Ticks : Held(p) = {}
  BY DEF Init, Held, Nothing
<1>3. QED
  BY <1>1, <1>2 DEF IInv, LeaseExcludes, HoldersRun, HeldIsLeased

LEMMA StepTypeOK == TypeOK /\ [Next]_vars => TypeOK'
<1> SUFFICES ASSUME TypeOK, [Next]_vars PROVE TypeOK'
  OBVIOUS
<1> USE DEF requests, guards, ticks, Goto
<1>1. CASE Tick
  <2> DEFINE jobs == [s \in Symbols |-> IF job[s] = None THEN None
                                        ELSE [job[s] EXCEPT !.due = @ - 1]]
  <2>1. jobs \in [Symbols -> Jobs \cup {None}]
    BY DEF TypeOK, Jobs
  <2>2. job' \in [Symbols -> Jobs \cup {None}]
    <3>1. job' = Numbered(jobs)
      BY <1>1 DEF Tick
    <3> HIDE DEF jobs
    <3>2. QED
      BY <2>1, <3>1, NumberedType
  <2>3. age' \in [Ticks -> 0 .. BatchTime]
    BY <1>1, TimesAssumption DEF Tick, Working, TypeOK
  <2>4. \A p \in Instances : Smaller(sinceSweep[p] + 1, SweepEvery) \in 0 .. SweepEvery
    BY TimesAssumption DEF Smaller, TypeOK
  <2>5. sinceSweep' \in [Instances -> 0 .. SweepEvery]
    BY <1>1, <2>4 DEF Tick
  <2>6. QED
    BY <1>1, <2>2, <2>3, <2>5 DEF Tick, TypeOK
<1>2. ASSUME NEW s \in Symbols, AddEnsure(s) PROVE TypeOK'
  <2>1. job' \in [Symbols -> Jobs \cup {None}]
    BY <1>2, WithJobsType, TimesAssumption DEF AddEnsure
  <2>2. QED
    BY <1>2, <2>1 DEF AddEnsure, TypeOK
<1>3. ASSUME NEW s \in Symbols, AddItem(s) PROVE TypeOK'
  BY <1>3 DEF AddItem, TypeOK
<1>4. ASSUME NEW s \in Symbols, AddExpedite(s) PROVE TypeOK'
  <2>1. job' \in [Symbols -> Jobs \cup {None}]
    BY <1>4, ExpeditedType DEF AddExpedite
  <2>2. QED
    BY <1>4, <2>1 DEF AddExpedite, TypeOK
<1>5. ASSUME NEW s \in Symbols, Remove(s) \/ LeaveHotWindow(s) PROVE TypeOK'
  BY <1>5 DEF Remove, LeaveHotWindow, TypeOK
<1>6. ASSUME NEW s \in Symbols, View(s) PROVE TypeOK'
  <2>1. job' \in [Symbols -> Jobs \cup {None}]
    BY <1>6, ExpeditedType DEF View
  <2>2. QED
    BY <1>6, <2>1 DEF View, TypeOK
<1>7. ASSUME NEW p \in Ticks, TickBegin(p) PROVE TypeOK'
  <2>1. 0 \in 0 .. BatchTime /\ 0 \in 0 .. SweepEvery /\ p[1] \in Instances /\ p[2] \in Slots
    BY TimesAssumption
  <2>2. /\ ticking' \in [Instances -> Slots \cup {None}]
        /\ age' \in [Ticks -> 0 .. BatchTime]
    BY <1>7, <2>1 DEF TickBegin, TypeOK
  <2>3. CASE sinceSweep[p[1]] >= SweepEvery
    BY <1>7, <2>1, <2>2, <2>3 DEF TickBegin, TypeOK, Labels
  <2>4. CASE ~(sinceSweep[p[1]] >= SweepEvery)
    BY <1>7, <2>2, <2>4 DEF TickBegin, TypeOK, Labels
  <2>5. QED
    BY <2>3, <2>4
<1>8. ASSUME NEW p \in Ticks, ReadWatched(p) PROVE TypeOK'
  BY <1>8, SymbolsAssumption DEF ReadWatched, TypeOK, Labels
<1>9. ASSUME NEW p \in Ticks, EnqueueMissing(p) PROVE TypeOK'
  <2>1. job' \in [Symbols -> Jobs \cup {None}]
    <3>1. -age[p] \in Int /\ Warm \in Nat
      BY TimesAssumption DEF TypeOK
    <3>2. QED
      BY <1>9, <3>1, WithJobsType DEF EnqueueMissing
  <2>2. QED
    BY <1>9, <2>1 DEF EnqueueMissing, TypeOK, Labels
<1>10. ASSUME NEW p \in Ticks, Retier(p) PROVE TypeOK'
  <2>1. \A s : IntervalOf(s) \in Nat
    BY TimesAssumption DEF IntervalOf
  <2>2. \A s \in Symbols : job[s] # None => [job[s] EXCEPT !.interval = IntervalOf(s)] \in Jobs
    BY <2>1 DEF TypeOK, Jobs
  <2>3. QED
    BY <1>10, <2>2 DEF Retier, TypeOK, Labels
<1>11. ASSUME NEW p \in Ticks, ReadOrphans(p) PROVE TypeOK'
  BY <1>11 DEF ReadOrphans, Orphans, HasJob, TypeOK, Labels
<1>12. ASSUME NEW p \in Ticks, DropOrphans(p) PROVE TypeOK'
  BY <1>12 DEF DropOrphans, TypeOK, Labels
<1>13. ASSUME NEW p \in Ticks, Claim(p) PROVE TypeOK'
  <2>1. PICK D \in Batches(p) :
          /\ job' = [s \in Symbols |-> IF s \in D THEN Leased(job[s], p) ELSE job[s]]
          /\ held' = [held EXCEPT ![p] = [s \in Symbols |->
               IF s \in D THEN [interval |-> job[s].interval, streak |-> job[s].streak]
               ELSE None]]
          /\ moved' = moved \ {s \in D : \A q \in Ticks : held[q][s] = None}
          /\ IF D = {} THEN End(p) ELSE Goto(p, "benchmark") /\ UNCHANGED <<workers, ticking>>
    BY <1>13 DEF Claim
  <2>2. \A s \in D : job[s] \in Jobs
    BY DEF Batches, Due, HasJob, TypeOK
  <2>3. \A s \in D : Leased(job[s], p) \in Jobs
    <3>1. Lease - age[p] \in Int
      BY TimesAssumption DEF TypeOK
    <3>2. QED
      BY <2>2, <3>1 DEF Leased, Jobs
  <2>4. job' \in [Symbols -> Jobs \cup {None}]
    BY <2>1, <2>3 DEF TypeOK
  <2>5. \A s \in D : [interval |-> job[s].interval, streak |-> job[s].streak] \in Copies
    BY <2>2 DEF Jobs, Copies
  <2>6. held' \in [Ticks -> [Symbols -> Copies \cup {None}]]
    BY <2>1, <2>5 DEF TypeOK
  <2>7. /\ pc' \in [Ticks -> Labels] /\ workers' \in [Ticks -> 0 .. Workers]
        /\ ticking' \in [Instances -> Slots \cup {None}]
    <3>1. CASE End(p)
      BY <3>1, EndType
    <3>2. CASE Goto(p, "benchmark") /\ UNCHANGED <<workers, ticking>>
      BY <3>2 DEF TypeOK, Labels
    <3>3. QED
      BY <2>1, <3>1, <3>2
  <2>8. moved' \subseteq Symbols
    BY <2>1 DEF TypeOK
  <2>9. QED
    BY <1>13, <2>4, <2>6, <2>7, <2>8 DEF Claim, TypeOK
<1>14. ASSUME NEW p \in Ticks, NEW s \in Symbols, Poll(p, s) PROVE TypeOK'
  <2>1. PICK delay \in Int, streak \in Nat : Reschedule(p, s, delay, streak)
    BY <1>14, PollReschedules
  <2>2. job' \in [Symbols -> Jobs \cup {None}]
    BY <2>1, RescheduleType
  <2>3. Release(p, s) /\ UNCHANGED <<requests, age, sinceSweep, seen, faults>>
        /\ moved' \subseteq Symbols
    BY <2>1 DEF Reschedule, TypeOK
  <2>4. QED
    BY <2>2, <2>3, ReleaseType DEF TypeOK
<1>15. ASSUME NEW p \in Ticks, SweepFails(p) PROVE TypeOK'
  BY <1>15, TimesAssumption DEF SweepFails, TypeOK, Labels
<1>16. ASSUME NEW p \in Ticks, NEW s \in Symbols, Unrecorded(p, s) PROVE TypeOK'
  <2>1. /\ held[p] \in [Symbols -> Copies \cup {None}] /\ Nothing \in [Symbols -> Copies \cup {None}]
        /\ faults' \in 0 .. MaxFaults
        /\ UNCHANGED <<job, requests, sinceSweep, age, seen, moved>>
    BY <1>16, TimesAssumption DEF Unrecorded, Nothing, TypeOK
  <2>2. CASE held' = [held EXCEPT ![p] = Nothing] /\ End(p)
    BY <2>1, <2>2, EndType DEF TypeOK
  <2>3. CASE /\ ~(workers[p] <= 1)
             /\ held' = [held EXCEPT ![p][s] = None]
             /\ workers' = [workers EXCEPT ![p] = @ - 1]
             /\ Unguarded(p) /\ UNCHANGED pc
    <3>1. workers[p] \in 0 .. Workers /\ workers[p] - 1 \in 0 .. Workers
      BY <2>3, TimesAssumption DEF TypeOK
    <3>2. workers' \in [Ticks -> 0 .. Workers]
      BY <2>3, <3>1 DEF TypeOK
    <3>3. QED
      BY <2>1, <2>3, <3>2 DEF TypeOK, Unguarded
  <2>4. QED
    BY <1>16, <2>2, <2>3 DEF Unrecorded
<1>17. ASSUME NEW i \in Instances, Crash(i) PROVE TypeOK'
  <2>1. /\ pc' \in [Ticks -> Labels] /\ age' \in [Ticks -> 0 .. BatchTime]
        /\ seen' \in [Ticks -> SUBSET Symbols] /\ workers' \in [Ticks -> 0 .. Workers]
    BY <1>17, TimesAssumption DEF Crash, TypeOK, Labels
  <2>2. held' \in [Ticks -> [Symbols -> Copies \cup {None}]]
    BY <1>17 DEF Crash, TypeOK, Nothing
  <2>3. QED
    BY <1>17, <2>1, <2>2, TimesAssumption DEF Crash, TypeOK
<1>19. ASSUME NEW p \in Ticks, StartPool(p) PROVE TypeOK'
  <2>1. Smaller(Workers, Cardinality(Held(p))) \in 0 .. Workers
    <3>1. IsFiniteSet(Held(p))
      BY SymbolsAssumption, FS_Subset DEF Held
    <3>2. Cardinality(Held(p)) \in Nat
      BY <3>1, FS_CardinalityType
    <3>3. QED
      BY <3>2, TimesAssumption DEF Smaller
  <2>2. QED
    BY <1>19, <2>1 DEF StartPool, TypeOK, Labels
<1>20. ASSUME NEW p \in Ticks, TickFails(p) PROVE TypeOK'
  <2>1. held' \in [Ticks -> [Symbols -> Copies \cup {None}]] /\ faults' \in 0 .. MaxFaults
    BY <1>20, TimesAssumption DEF TickFails, TypeOK, Nothing
  <2>2. QED
    BY <1>20, <2>1, EndType DEF TickFails, TypeOK
<1>18. CASE UNCHANGED vars
  BY <1>18 DEF vars, TypeOK
<1>21. QED
  BY <1>1, <1>2, <1>3, <1>4, <1>5, <1>6, <1>7, <1>8, <1>9, <1>10, <1>11, <1>12,
     <1>13, <1>14, <1>15, <1>16, <1>17, <1>18, <1>19, <1>20 DEF Next, Proceed

-----------------------------------------------------------------------------
(* The job of a lease is never so overdue that it is numbered. *)
LEMMA LeaseRuns ==
  ASSUME IInv, NEW p \in Ticks, NEW s \in Held(p), s \notin moved, job[s] # None
  PROVE  /\ job[s].due \in Int /\ age[p] \in 0 .. BatchTime
         /\ job[s].due >= Lease - age[p] /\ job[s].due >= -MaxLate
<1>1. s \in Symbols
  BY DEF Held
<1>2. job[s].due >= Lease - age[p] /\ job[s] \in Jobs
  BY <1>1 DEF IInv, HeldIsLeased, TypeOK
<1>3. age[p] \in 0 .. BatchTime /\ job[s].due \in Int
  BY <1>2 DEF IInv, TypeOK, Jobs
<1>4. QED
  BY <1>2, <1>3, TimesAssumption

(* A step that hands out no job, and leaves alone the instants of the held *)
(* jobs that it does not put down as moved, preserves the invariant.       *)
LEMMA NothingHandedOut ==
  ASSUME IInv, TypeOK', HoldersRun', moved \subseteq moved',
         \A p \in Ticks : \A s \in Held(p)' :
           /\ s \in Held(p) /\ age'[p] = age[p]
           /\ \/ s \in moved' \/ job'[s] = None
              \/ job[s] # None /\ job'[s].due = job[s].due
  PROVE  IInv'
<1>1. LeaseExcludes'
  BY DEF IInv, LeaseExcludes, Overran
<1>2. HeldIsLeased'
  <2> SUFFICES ASSUME NEW p \in Ticks, NEW s \in Symbols,
                      s \in Held(p)', s \notin moved', job'[s] # None
               PROVE  job'[s].due >= Lease - age'[p]
    BY DEF HeldIsLeased
  <2>1. /\ s \in Held(p) /\ s \notin moved /\ age'[p] = age[p]
        /\ job[s] # None /\ job'[s].due = job[s].due
    OBVIOUS
  <2>2. QED
    BY <2>1 DEF IInv, HeldIsLeased
<1>3. QED
  BY <1>1, <1>2 DEF IInv

(* The same when the step changes neither what is held nor its age. *)
LEMMA TableStep ==
  ASSUME IInv, TypeOK', UNCHANGED <<held, age>>, moved \subseteq moved',
         \A p \in Ticks : pc[p] \in {"benchmark", "run"} => pc'[p] \in {"benchmark", "run"},
         \A s \in Symbols \ moved' :
           job'[s] = None \/ (job[s] # None /\ job'[s].due = job[s].due)
  PROVE  IInv'
<1>1. \A p \in Ticks : Held(p)' = Held(p) /\ Held(p) \subseteq Symbols
  BY DEF Held
<1>2. HoldersRun'
  BY <1>1 DEF IInv, HoldersRun
<1>3. QED
  BY <1>1, <1>2, NothingHandedOut

LEMMA ClaimStep ==
  ASSUME IInv, TypeOK', NEW p \in Ticks, Claim(p)
  PROVE  IInv'
<1>1. PICK D \in Batches(p) :
        /\ job' = [s \in Symbols |-> IF s \in D THEN Leased(job[s], p) ELSE job[s]]
        /\ held' = [held EXCEPT ![p] = [s \in Symbols |->
             IF s \in D THEN [interval |-> job[s].interval, streak |-> job[s].streak]
             ELSE None]]
        /\ moved' = moved \ {s \in D : \A q \in Ticks : held[q][s] = None}
        /\ IF D = {} THEN End(p) ELSE Goto(p, "benchmark") /\ UNCHANGED <<workers, ticking>>
  BY DEF Claim
<1>2. pc[p] = "claim" /\ age' = age
  BY DEF Claim
<1>3. TypeOK
  BY DEF IInv
<1>4. D \subseteq Due(p) /\ D \subseteq Symbols
  BY DEF Batches, Due, HasJob
<1>5. Held(p) = {} /\ Held(p)' \subseteq D
  <2>1. Held(p) = {}
    BY <1>2 DEF IInv, HoldersRun
  <2>2. \A s \in Symbols \ D : held'[p][s] = None
    BY <1>1, <1>3 DEF TypeOK
  <2>3. QED
    BY <2>1, <2>2 DEF Held
<1>6. \A q \in Ticks \ {p} : Held(q)' = Held(q)
  BY <1>1, <1>3 DEF Held, TypeOK
(* What is claimed while somebody else holds it has been moved, or the     *)
(* other's lease is over.                                                  *)
<1>7. ASSUME NEW q \in Ticks, NEW s \in D, s \in Held(q) PROVE s \in moved \/ Overran(q, p)
  <2>1. job[s] # None /\ job[s].due <= -age[p]
    BY <1>4 DEF Due, HasJob
  <2>2. age[p] \in 0 .. BatchTime
    BY <1>3 DEF TypeOK
  <2>3. s \notin moved => /\ job[s].due \in Int /\ age[q] \in 0 .. BatchTime
                          /\ job[s].due >= Lease - age[q]
    BY <1>7, <2>1, LeaseRuns
  <2>4. QED
    BY <2>1, <2>2, <2>3, TimesAssumption DEF Overran
<1>8. \A q \in Ticks : \A s \in Held(q) : s \in moved => s \in moved'
  BY <1>1 DEF Held
<1>9. LeaseExcludes'
  <2> SUFFICES ASSUME NEW s \in Symbols, NEW q \in Ticks, NEW r \in Ticks,
                      q # r, s \in Held(q)', s \in Held(r)'
               PROVE  s \in moved' \/ Overran(q, r) \/ Overran(r, q)
    BY <1>2 DEF LeaseExcludes, Overran
  <2>1. CASE q # p /\ r # p
    BY <1>6, <1>8, <2>1 DEF IInv, LeaseExcludes
  <2>2. CASE q = p
    BY <1>5, <1>6, <1>7, <1>8, <2>2
  <2>3. CASE r = p
    BY <1>5, <1>6, <1>7, <1>8, <2>3
  <2>4. QED
    BY <2>1, <2>2, <2>3
<1>10. HoldersRun'
  <2>1. CASE D = {} /\ End(p)
    <3>1. \A q \in Ticks \ {p} : pc'[q] = pc[q]
      BY <1>3, <2>1, EndType
    <3>2. QED
      BY <1>5, <1>6, <2>1, <3>1 DEF IInv, HoldersRun
  <2>2. CASE Goto(p, "benchmark")
    BY <1>3, <1>6, <2>2 DEF Goto, TypeOK, IInv, HoldersRun
  <2>3. QED
    BY <1>1, <2>1, <2>2
<1>11. HeldIsLeased'
  <2> SUFFICES ASSUME NEW q \in Ticks, NEW s \in Symbols,
                      s \in Held(q)', s \notin moved', job'[s] # None
               PROVE  job'[s].due >= Lease - age[q]
    BY <1>2 DEF HeldIsLeased
  <2>1. CASE q = p
    <3>1. s \in D /\ job[s] \in Jobs
      BY <1>3, <1>4, <1>5, <2>1 DEF TypeOK, Due, HasJob
    <3>2. job'[s] = [job[s] EXCEPT !.due = Lease - age[p]]
      BY <1>1, <3>1 DEF Leased
    <3>3. age[p] \in Int /\ job'[s].due = Lease - age[p]
      BY <1>3, <3>1, <3>2, TimesAssumption DEF Jobs, TypeOK
    <3>4. QED
      BY <2>1, <3>3, TimesAssumption
  <2>2. CASE q # p
    <3>1. s \in Held(q) /\ s \notin moved
      BY <1>6, <1>8, <2>2
    <3>2. CASE s \notin D
      <4>1. job'[s] = job[s]
        BY <1>1, <3>2
      <4>2. QED
        BY <3>1, <4>1 DEF IInv, HeldIsLeased
    <3>3. CASE s \in D
      <4>1. Overran(q, p)
        BY <1>7, <3>1, <3>3
      <4>2. job'[s] = [job[s] EXCEPT !.due = Lease - age[p]] /\ job[s] \in Jobs
        BY <1>1, <1>3, <1>4, <3>3 DEF Leased, TypeOK, Due, HasJob
      <4>3. age[p] \in 0 .. BatchTime /\ age[q] \in 0 .. BatchTime
        BY <1>3 DEF TypeOK
      <4>4. job'[s].due = Lease - age[p]
        BY <4>2, <4>3, TimesAssumption DEF Jobs
      <4>5. QED
        BY <4>1, <4>3, <4>4, TimesAssumption DEF Overran
    <3>4. QED
      BY <3>2, <3>3
  <2>3. QED
    BY <2>1, <2>2
<1>12. QED
  BY <1>9, <1>10, <1>11 DEF IInv

LEMMA PollStep ==
  ASSUME IInv, TypeOK', NEW p \in Ticks, NEW s \in Symbols, Poll(p, s)
  PROVE  IInv'
<1>1. TypeOK
  BY DEF IInv
<1>2. PICK delay \in Int, streak \in Nat : Reschedule(p, s, delay, streak)
  BY <1>1, PollReschedules
<1>3. /\ s \in Held(p) /\ Release(p, s) /\ UNCHANGED age /\ moved \subseteq moved'
      /\ (\E q \in Ticks \ {p} : s \in Held(q)) => s \in moved'
  BY <1>2 DEF Reschedule, Held
<1>4. /\ Held(p)' = Held(p) \ {s}
      /\ \A q \in Ticks \ {p} : Held(q)' = Held(q)
      /\ HoldersRun'
  BY <1>1, <1>3, ReleasedHeld DEF IInv
<1>5. HoldersRun'
  BY <1>4
<1>6. \A q \in Ticks : Held(q)' \subseteq Held(q) /\ Held(q) \subseteq Symbols
  BY <1>4 DEF Held
<1>7. ASSUME NEW q \in Ticks, NEW t \in Held(q)', t \notin moved', job'[t] # None
      PROVE  job[t] # None /\ job'[t].due = job[t].due
  <2>1. t \in Symbols /\ t \in Held(q) /\ t \notin moved
    BY <1>3, <1>6, <1>7
  <2>2. t # s
    BY <1>3, <1>4, <1>7
  <2>3. job[t] = None \/ job[t].due >= -MaxLate
    BY <2>1, LeaseRuns
  <2>4. job'[t] = job[t]
    BY <1>1, <1>2, <2>1, <2>2, <2>3, RescheduleType
  <2>5. QED
    BY <1>7, <2>4
<1>8. QED
  BY <1>3, <1>5, <1>6, <1>7, NothingHandedOut

LEMMA ClockStep ==
  ASSUME IInv, TypeOK', Tick
  PROVE  IInv'
<1>1. TypeOK
  BY DEF IInv
<1>2. \A p \in Ticks : Held(p)' = Held(p)
  BY DEF Tick, Held
<1>3. UNCHANGED <<pc, moved>>
  BY DEF Tick
<1>4. LeaseExcludes' /\ HoldersRun'
  <2>1. HoldersRun'
    BY <1>2, <1>3 DEF IInv, HoldersRun
  <2>2. \A p \in Ticks : Held(p) # {} => age'[p] = age[p] + 1 /\ age[p] \in 0 .. BatchTime
    BY <1>1 DEF IInv, HoldersRun, Working, Tick, TypeOK
  <2> SUFFICES ASSUME NEW s \in Symbols, NEW p \in Ticks, NEW q \in Ticks, p # q,
                      s \in Held(p), s \in Held(q), s \notin moved
               PROVE  Overran(p, q)' \/ Overran(q, p)'
    BY <1>2, <1>3, <2>1 DEF LeaseExcludes
  <2>3. Overran(p, q) \/ Overran(q, p)
    BY DEF IInv, LeaseExcludes
  <2>4. /\ age'[p] = age[p] + 1 /\ age[p] \in Int
        /\ age'[q] = age[q] + 1 /\ age[q] \in Int
    BY <2>2
  <2>5. age'[p] - age'[q] = age[p] - age[q] /\ age'[q] - age'[p] = age[q] - age[p]
    BY <2>4
  <2>6. age'[p] - age'[q] >= Lease \/ age'[q] - age'[p] >= Lease
    BY <2>3, <2>5 DEF Overran
  <2>7. QED
    BY <2>6 DEF Overran
<1>5. ASSUME NEW p \in Ticks, NEW s \in Held(p), s \notin moved, job'[s] # None
      PROVE  job'[s].due >= Lease - age'[p]
  <2> DEFINE jobs == [t \in Symbols |-> IF job[t] = None THEN None
                                        ELSE [job[t] EXCEPT !.due = @ - 1]]
  <2>1. jobs \in [Symbols -> Jobs \cup {None}] /\ job' = Numbered(jobs)
    <3>1. ASSUME NEW row \in Jobs
          PROVE  [row EXCEPT !.due = @ - 1] \in Jobs
      BY DEF Jobs
    <3>2. \A t \in Symbols : job[t] = None \/ job[t] \in Jobs
      BY <1>1 DEF TypeOK
    <3>3. \A t \in Symbols : (IF job[t] = None THEN None ELSE [job[t] EXCEPT !.due = @ - 1])
                              \in Jobs \cup {None}
      BY <3>1, <3>2
    <3>4. QED
      BY <3>3 DEF Tick
  <2>2. s \in Symbols
    BY DEF Held
  <2>3. job[s] # None
    <3>1. job[s] = None => jobs[s] = None
      BY <2>2
    <3> HIDE DEF jobs
    <3>2. QED
      BY <1>5, <2>1, <2>2, <3>1, NumberedType
  <2>4. job[s] \in Jobs
    BY <1>1, <2>2, <2>3 DEF TypeOK
  <2>5. job[s].due >= Lease - age[p]
    BY <1>5, <2>2, <2>3 DEF IInv, HeldIsLeased
  <2>6. age[p] \in 0 .. BatchTime /\ age'[p] = age[p] + 1 /\ age'[p] \in 0 .. BatchTime
    <3>1. p \in Working
      BY DEF IInv, HoldersRun, Working
    <3>2. QED
      BY <1>1, <3>1 DEF Tick, TypeOK
  <2>7. jobs[s] # None /\ jobs[s] \in Jobs /\ jobs[s].due >= Lease - age'[p]
    <3>1. jobs[s] = [job[s] EXCEPT !.due = @ - 1]
      BY <2>2, <2>3
    <3>2. jobs[s].due = job[s].due - 1 /\ jobs[s] \in Jobs
      BY <2>4, <3>1 DEF Jobs
    <3>3. job[s].due - 1 >= Lease - age'[p]
      BY <2>4, <2>5, <2>6, TimesAssumption DEF Jobs
    <3> HIDE DEF jobs
    <3>4. QED
      BY <3>2, <3>3, NoneAssumption
  <2>8. jobs[s].due >= -MaxLate
    <3>1. jobs[s].due \in Int
      BY <2>7 DEF Jobs
    <3> HIDE DEF jobs
    <3>2. QED
      BY <2>6, <2>7, <3>1, TimesAssumption
  <2> HIDE DEF jobs
  <2>9. QED
    BY <2>1, <2>2, <2>7, <2>8, NumberedType
<1>6. HeldIsLeased'
  BY <1>2, <1>3, <1>5 DEF HeldIsLeased
<1>7. QED
  BY <1>4, <1>6 DEF IInv

LEMMA StepIInv == IInv /\ [Next]_vars => IInv'
<1> SUFFICES ASSUME IInv, [Next]_vars PROVE IInv'
  OBVIOUS
<1>t. TypeOK /\ TypeOK'
  BY StepTypeOK DEF IInv
<1> USE DEF requests, guards, ticks, Goto
<1>1. CASE Tick
  BY <1>1, <1>t, ClockStep
<1>2. ASSUME NEW s \in Symbols,
             AddItem(s) \/ Remove(s) \/ LeaveHotWindow(s)
      PROVE  IInv'
  <2>1. UNCHANGED <<job, held, age, moved, pc>>
    BY <1>2 DEF AddItem, Remove, LeaveHotWindow
  <2>2. QED
    BY <1>t, <2>1, TableStep
<1>3. ASSUME NEW s \in Symbols, AddEnsure(s) PROVE IInv'
  <2>1. UNCHANGED <<held, age, pc>> /\ moved \subseteq moved'
    BY <1>3 DEF AddEnsure
  <2>2. \A t \in Symbols \ moved' : job'[t] = job[t]
    BY <1>3, <1>t DEF AddEnsure, WithJobs, TypeOK
  <2>3. QED
    BY <1>t, <2>1, <2>2, TableStep
<1>4. ASSUME NEW s \in Symbols, AddExpedite(s) \/ View(s) PROVE IInv'
  <2>1. UNCHANGED <<held, age, pc>> /\ moved' = moved \cup {s}
    BY <1>4 DEF AddExpedite, View
  <2>2. \A t \in Symbols \ {s} : job'[t] = job[t]
    BY <1>4, <1>t DEF AddExpedite, View, Expedited, TypeOK
  <2>3. QED
    BY <1>t, <2>1, <2>2, TableStep
<1>5. ASSUME NEW p \in Ticks, TickBegin(p) PROVE IInv'
  <2>1. Held(p) = {}
    BY <1>5 DEF TickBegin, IInv, HoldersRun
  <2>2. /\ UNCHANGED <<job, held, moved>>
        /\ \A q \in Ticks \ {p} : pc'[q] = pc[q] /\ age'[q] = age[q]
    <3>1. /\ UNCHANGED <<job, held, moved>>
          /\ \A q \in Ticks \ {p} : age'[q] = age[q]
      BY <1>5, <1>t DEF TickBegin, TypeOK
    <3>2. \A q \in Ticks \ {p} : pc'[q] = pc[q]
      BY <1>5, <1>t DEF TickBegin, TypeOK
    <3>3. QED
      BY <3>1, <3>2
  <2>3. \A q \in Ticks : Held(q)' = Held(q)
    BY <2>2 DEF Held
  <2>4. HoldersRun'
    BY <2>1, <2>2, <2>3 DEF IInv, HoldersRun
  <2>5. \A q \in Ticks : \A s \in Held(q)' : s \in Held(q) /\ age'[q] = age[q]
    BY <2>1, <2>2, <2>3
  <2>6. \A s : job'[s] = None \/ (job[s] # None /\ job'[s].due = job[s].due)
    BY <2>2
  <2>7. QED
    BY <1>t, <2>2, <2>4, <2>5, <2>6, NothingHandedOut
<1>6. ASSUME NEW p \in Ticks, ReadWatched(p) \/ ReadOrphans(p) \/ SweepFails(p)
      PROVE  IInv'
  <2>1. UNCHANGED <<job, held, age, moved>>
    BY <1>6 DEF ReadWatched, ReadOrphans, SweepFails
  <2>2. \A q \in Ticks : pc[q] \in {"benchmark", "run"} => pc'[q] \in {"benchmark", "run"}
    BY <1>6, <1>t DEF ReadWatched, ReadOrphans, SweepFails, TypeOK
  <2>3. QED
    BY <1>t, <2>1, <2>2, TableStep
<1>7. ASSUME NEW p \in Ticks, EnqueueMissing(p) PROVE IInv'
  <2>1. UNCHANGED <<held, age>> /\ moved \subseteq moved'
    BY <1>7 DEF EnqueueMissing
  <2>2. \A q \in Ticks : pc[q] \in {"benchmark", "run"} => pc'[q] \in {"benchmark", "run"}
    BY <1>7, <1>t DEF EnqueueMissing, TypeOK
  <2>3. \A t \in Symbols \ moved' : job'[t] = job[t]
    BY <1>7, <1>t DEF EnqueueMissing, WithJobs, HasJob, TypeOK
  <2>4. QED
    BY <1>t, <2>1, <2>2, <2>3, TableStep
<1>8. ASSUME NEW p \in Ticks, Retier(p) PROVE IInv'
  <2>1. UNCHANGED <<held, age, moved>>
    BY <1>8 DEF Retier
  <2>2. \A q \in Ticks : pc[q] \in {"benchmark", "run"} => pc'[q] \in {"benchmark", "run"}
    BY <1>8, <1>t DEF Retier, TypeOK
  <2>3. ASSUME NEW s \in Symbols
        PROVE  job'[s] = None \/ (job[s] # None /\ job'[s].due = job[s].due)
    <3>1. CASE job[s] = None
      BY <1>8, <3>1 DEF Retier
    <3>2. CASE job[s] # None
      <4>1. job[s] \in Jobs /\ job'[s] = [job[s] EXCEPT !.interval = IntervalOf(s)]
        BY <1>8, <1>t, <3>2 DEF Retier, TypeOK
      <4>2. QED
        BY <3>2, <4>1 DEF Jobs
    <3>3. QED
      BY <3>1, <3>2
  <2>4. QED
    BY <1>t, <2>1, <2>2, <2>3, TableStep
<1>9. ASSUME NEW p \in Ticks, DropOrphans(p) PROVE IInv'
  <2>1. UNCHANGED <<held, age, moved>>
    BY <1>9 DEF DropOrphans
  <2>2. \A q \in Ticks : pc[q] \in {"benchmark", "run"} => pc'[q] \in {"benchmark", "run"}
    BY <1>9, <1>t DEF DropOrphans, TypeOK
  <2>3. \A s \in Symbols : job'[s] = None \/ job'[s] = job[s]
    BY <1>9 DEF DropOrphans
  <2>4. QED
    BY <1>t, <2>1, <2>2, <2>3, TableStep
<1>10. ASSUME NEW p \in Ticks, Claim(p) PROVE IInv'
  BY <1>10, <1>t, ClaimStep
<1>11. ASSUME NEW p \in Ticks, NEW s \in Symbols, Poll(p, s) PROVE IInv'
  BY <1>11, <1>t, PollStep
<1>12. ASSUME NEW p \in Ticks, NEW s \in Symbols, Unrecorded(p, s) PROVE IInv'
  <2>1. UNCHANGED <<job, age, moved>>
    BY <1>12 DEF Unrecorded
  <2>2. /\ Held(p)' \subseteq Held(p)
        /\ \A q \in Ticks \ {p} : Held(q)' = Held(q)
    BY <1>12, <1>t DEF Unrecorded, Held, TypeOK, Nothing
  <2>3. HoldersRun'
    <3>1. CASE held' = [held EXCEPT ![p] = Nothing] /\ End(p)
      <4>1. Held(p)' = {}
        BY <1>t, <3>1 DEF Held, Nothing, TypeOK
      <4>2. \A q \in Ticks \ {p} : pc'[q] = pc[q]
        BY <1>t, <3>1, EndType
      <4>3. QED
        BY <2>2, <4>1, <4>2 DEF IInv, HoldersRun
    <3>2. CASE UNCHANGED pc
      BY <2>2, <3>2 DEF IInv, HoldersRun
    <3>3. QED
      BY <1>12, <3>1, <3>2 DEF Unrecorded
  <2>4. \A q \in Ticks : \A t \in Held(q)' : t \in Held(q) /\ age'[q] = age[q]
    BY <2>1, <2>2
  <2>5. \A t : job'[t] = None \/ (job[t] # None /\ job'[t].due = job[t].due)
    BY <2>1
  <2>6. QED
    BY <1>t, <2>1, <2>3, <2>4, <2>5, NothingHandedOut
<1>13. ASSUME NEW i \in Instances, Crash(i) PROVE IInv'
  <2>1. UNCHANGED <<job, moved>>
    BY <1>13 DEF Crash
  <2>2. \A q \in Ticks :
          IF q[1] = i THEN Held(q)' = {}
          ELSE Held(q)' = Held(q) /\ pc'[q] = pc[q] /\ age'[q] = age[q]
    BY <1>13, <1>t DEF Crash, Held, TypeOK, Nothing
  <2>3. HoldersRun'
    BY <2>2 DEF IInv, HoldersRun
  <2>4. \A q \in Ticks : \A t \in Held(q)' : t \in Held(q) /\ age'[q] = age[q]
    BY <2>2
  <2>5. \A t : job'[t] = None \/ (job[t] # None /\ job'[t].due = job[t].due)
    BY <2>1
  <2>6. QED
    BY <1>t, <2>1, <2>3, <2>4, <2>5, NothingHandedOut
<1>15. ASSUME NEW p \in Ticks, StartPool(p) PROVE IInv'
  <2>1. UNCHANGED <<job, held, age, moved>>
    BY <1>15 DEF StartPool
  <2>2. \A q \in Ticks : pc[q] \in {"benchmark", "run"} => pc'[q] \in {"benchmark", "run"}
    BY <1>15, <1>t DEF StartPool, TypeOK
  <2>3. QED
    BY <1>t, <2>1, <2>2, TableStep
<1>16. ASSUME NEW p \in Ticks, TickFails(p) PROVE IInv'
  <2>1. UNCHANGED <<job, age, moved>>
    BY <1>16 DEF TickFails
  <2>2. /\ Held(p)' = {}
        /\ \A q \in Ticks \ {p} : Held(q)' = Held(q)
    BY <1>16, <1>t DEF TickFails, Held, TypeOK, Nothing
  <2>3. \A q \in Ticks \ {p} : pc'[q] = pc[q]
    BY <1>16, <1>t, EndType DEF TickFails
  <2>4. HoldersRun'
    BY <2>2, <2>3 DEF IInv, HoldersRun
  <2>5. \A q \in Ticks : \A t \in Held(q)' : t \in Held(q) /\ age'[q] = age[q]
    BY <2>1, <2>2
  <2>6. \A t : job'[t] = None \/ (job[t] # None /\ job'[t].due = job[t].due)
    BY <2>1
  <2>7. QED
    BY <1>t, <2>1, <2>4, <2>5, <2>6, NothingHandedOut
<1>14. CASE UNCHANGED vars
  <2>1. UNCHANGED <<job, held, age, moved, pc>>
    BY <1>14 DEF vars
  <2>2. QED
    BY <1>t, <2>1, TableStep
<1>17. QED
  BY <1>1, <1>2, <1>3, <1>4, <1>5, <1>6, <1>7, <1>8, <1>9, <1>10, <1>11, <1>12,
     <1>13, <1>14, <1>15, <1>16 DEF Next, Proceed

-----------------------------------------------------------------------------
LEMMA Invariant == Spec => []IInv
  BY InitIInv, StepIInv, PTL DEF Spec

(* The table of jobs and the state of every tick keep their types. *)
THEOREM TypeCorrect == Spec => []TypeOK
<1>1. IInv => TypeOK
  BY DEF IInv
<1>2. QED
  BY <1>1, Invariant, PTL

(* claimDue: for as long as a lease lasts nobody else is handed its         *)
(* symbol, whatever the lease and however long batches take: two ticks hold *)
(* one symbol only when one began a whole lease before the other, or when   *)
(* something else has moved the job.                                       *)
THEOREM LeaseIsExclusive == Spec => []LeaseExcludes
<1>1. IInv => LeaseExcludes
  BY DEF IInv
<1>2. QED
  BY <1>1, Invariant, PTL
=============================================================================
