----------------------------- MODULE Watermarks -----------------------------
(***************************************************************************)
(* One user's checkpoint for one symbol (a row of user_symbol_marks), the  *)
(* briefing cut out by it, and the detection cycles that add signals       *)
(* meanwhile: db/userRepo.ts, services/view.ts, the digest routes.         *)
(*                                                                         *)
(* A device is one browser tab of the user; its requests take several SQL  *)
(* statements, and the statements of two devices interleave.  Statements   *)
(* are per symbol and per user, so one row shows every interaction.        *)
(*                                                                         *)
(* What the user writes is read from the primary database, market data     *)
(* from a replica that lags behind it (db/replica.ts, app.ts).  Without    *)
(* one the two are the same: the behaviours in which it is never behind.   *)
(*                                                                         *)
(* M stands for marks in the names (MInit, MNext, ...) that every module   *)
(* has, so that this one and Lists, the two modules of what a user writes, *)
(* can be extended together.                                               *)
(***************************************************************************)
EXTENDS Integers

CONSTANTS
  Devices,
  Signals,      \* the signals that may be detected
  Prices,
  Lookback,     \* firstVisitLookbackSessions: how far back a first briefing reaches
  MaxLookback,  \* maxLookbackSessions: how far back any briefing reaches
  DevTools,     \* config.devTools: whether the rewind route is reachable
  MaxNow,       \* bound on the clock
  Absent

Times == 0 .. MaxNow
Optional(S) == S \cup {Absent}

ASSUME BoundsAssumption ==
  MaxNow \in Nat \ {0} /\ Lookback \in Nat /\ MaxLookback \in Nat
ASSUME DevToolsAssumption == DevTools \in BOOLEAN
Checkpoints == [seenAt : Times, seenPrice : Optional(Prices)]
Marks == [seenAt : Times, seenPrice : Optional(Prices),
          prevSeenAt : Optional(Times), prevSeenPrice : Optional(Prices)]
Labels == {"idle", "acking", "priced", "reading"}

ASSUME AbsentAssumption ==
  Absent \notin Times /\ Absent \notin Prices /\ Absent \notin Marks /\ Absent \notin Checkpoints

VARIABLES
  clock,
  quote,     \* price of the stored quote
  mark,      \* the row of user_symbol_marks, or Absent
  cycle,     \* signal -> `now` of the detection cycle about to insert it
  signals,   \* signal -> detected_at of its row, or Absent
  replica,   \* quote and signals as the replica has them
  pc, now, price, cutoff,  \* per device: the request it is in
  \* history
  since,     \* instants of the acknowledgements that took effect since the
             \* checkpoint was last taken back
  covered,   \* device -> `since` when its running briefing was requested
  undoTo     \* what undoing the latest acknowledgement has to bring back

request == <<pc, now, price, cutoff>>
history == <<since, covered, undoTo>>
primary == [quote |-> quote, signals |-> signals]
mvars == <<clock, quote, mark, cycle, signals, replica, request, history>>

checkpoint == IF mark = Absent THEN Absent
              ELSE [seenAt |-> mark.seenAt, seenPrice |-> mark.seenPrice]

(* undoTo when the row was not last written by an acknowledgement. *)
NoUndo == [known |-> FALSE, to |-> Absent]

MInit ==
  /\ clock = 1
  /\ quote \in Prices
  /\ mark = Absent
  /\ cycle = [s \in Signals |-> Absent]
  /\ signals = [s \in Signals |-> Absent]
  /\ replica = primary
  /\ pc = [d \in Devices |-> "idle"]
  /\ now = [d \in Devices |-> 0]
  /\ price = [d \in Devices |-> Absent]
  /\ cutoff = [d \in Devices |-> 0]
  /\ since = {}
  /\ covered = [d \in Devices |-> {}]
  /\ undoTo = NoUndo

-----------------------------------------------------------------------------
(* The ingest tier. *)

Requote ==
  /\ quote' \in Prices \ {quote}
  /\ UNCHANGED <<clock, mark, cycle, signals, replica, request, history>>

(* A detection cycle reads the clock first and inserts its signals, which  *)
(* carry that instant, after every network call it makes.                  *)
Detect(s) ==
  /\ cycle[s] = Absent /\ signals[s] = Absent
  /\ cycle' = [cycle EXCEPT ![s] = clock]
  /\ UNCHANGED <<clock, quote, mark, signals, replica, request, history>>

InsertSignal(s) ==
  /\ cycle[s] # Absent
  /\ signals' = [signals EXCEPT ![s] = cycle[s]]
  /\ cycle' = [cycle EXCEPT ![s] = Absent]
  /\ UNCHANGED <<clock, quote, mark, replica, request, history>>

(* The replica catches up, some time or other. *)
Replicate ==
  /\ replica' = primary
  /\ UNCHANGED <<clock, quote, mark, cycle, signals, request, history>>

-----------------------------------------------------------------------------
(* POST /api/digest/acknowledge *)

AckBegin(d) ==
  /\ pc[d] = "idle"
  /\ pc' = [pc EXCEPT ![d] = "acking"]
  /\ now' = [now EXCEPT ![d] = clock]
  /\ UNCHANGED <<clock, quote, mark, cycle, signals, replica, price, cutoff, history>>

(* acknowledge: getQuotes, from the replica, and the price that will be    *)
(* stored with the mark.                                                   *)
AckPrice(d) ==
  /\ pc[d] = "acking"
  /\ pc' = [pc EXCEPT ![d] = "priced"]
  /\ price' = [price EXCEPT ![d] = replica.quote]
  /\ UNCHANGED <<clock, quote, mark, cycle, signals, replica, now, cutoff, history>>

Done(d) ==
  /\ pc' = [pc EXCEPT ![d] = "idle"]
  /\ now' = [now EXCEPT ![d] = 0]
  /\ price' = [price EXCEPT ![d] = Absent]
  /\ cutoff' = [cutoff EXCEPT ![d] = 0]

(* Mutant: the upsert has no monotonic guard. *)
AnyInstant(at) == TRUE

NotOlder(at) == IF mark = Absent THEN TRUE ELSE at >= mark.seenAt

Advanced(at, p) ==
  [seenAt |-> at, seenPrice |-> p,
   prevSeenAt |-> IF mark = Absent THEN Absent ELSE mark.seenAt,
   prevSeenPrice |-> IF mark = Absent THEN Absent ELSE mark.seenPrice]

(* advanceMarks: one upsert; an older acknowledgement changes nothing. *)
AckWrite(d) ==
  /\ pc[d] = "priced"
  /\ IF NotOlder(now[d])
     THEN /\ mark' = Advanced(now[d], price[d])
          /\ undoTo' = [known |-> TRUE, to |-> checkpoint]
          /\ since' = since \cup {now[d]}
     ELSE UNCHANGED <<mark, undoTo, since>>
  /\ Done(d)
  /\ UNCHANGED <<clock, quote, cycle, signals, replica, covered>>

-----------------------------------------------------------------------------
(* POST /api/digest/undo: undoMarks, one transaction of two statements.    *)
(* The first restores a row that has a previous checkpoint, and keeps it   *)
(* locked; the second deletes the rows that have none.  A row that somebody*)
(* else writes between the two is judged as the second finds it: one step, *)
(* or none.                                                                *)
Restored(m) ==
  IF m.prevSeenAt = Absent THEN m
  ELSE [seenAt |-> m.prevSeenAt, seenPrice |-> m.prevSeenPrice,
        prevSeenAt |-> Absent, prevSeenPrice |-> Absent]

Cleared(m) == IF m.prevSeenAt = Absent THEN Absent ELSE m

(* What a checkpoint taken back does to the history. *)
TakenBack(to, effective) ==
  /\ since' = effective
  /\ covered' = [d \in Devices |-> {}]
  /\ undoTo' = to

(* Mutant: one statement, without its condition. *)
UndoUnconditional ==
  /\ mark # Absent
  /\ mark' = [seenAt |-> mark.prevSeenAt, seenPrice |-> mark.prevSeenPrice,
              prevSeenAt |-> Absent, prevSeenPrice |-> Absent]
  /\ TakenBack(NoUndo, {})
  /\ UNCHANGED <<clock, quote, cycle, signals, replica, request>>

Undo ==
  /\ mark # Absent
  /\ mark' = Cleared(Restored(mark))
  /\ TakenBack(NoUndo, {})
  /\ UNCHANGED <<clock, quote, cycle, signals, replica, request>>

(* POST /api/dev/rewind: rewindMarks ignores the monotonic guard. *)
Rewind ==
  DevTools /\ \E at \in 0 .. clock - 1, p \in Optional(Prices) :
    /\ mark' = [seenAt |-> at, seenPrice |-> p,
                prevSeenAt |-> Absent, prevSeenPrice |-> Absent]
    /\ TakenBack(NoUndo, {at})
    /\ UNCHANGED <<clock, quote, cycle, signals, replica, request>>

-----------------------------------------------------------------------------
(* GET /api/digest: the marks are read first, the signals afterwards, from *)
(* the replica.                                                            *)

sessionsAgo(n) == IF clock > n THEN clock - n ELSE 0

(* Mutant: the floor is applied as a ceiling. *)
WindowCeiling ==
  LET start == IF mark = Absent THEN sessionsAgo(Lookback) ELSE mark.seenAt
  IN IF start < sessionsAgo(MaxLookback) THEN start ELSE sessionsAgo(MaxLookback)

(* Where the briefing starts: at the checkpoint, or a fixed lookback when  *)
(* there is none, but never before the hard floor.                         *)
WindowStart ==
  LET start == IF mark = Absent THEN sessionsAgo(Lookback) ELSE mark.seenAt
  IN IF start < sessionsAgo(MaxLookback) THEN sessionsAgo(MaxLookback) ELSE start

DigestMarks(d) ==
  /\ pc[d] = "idle"
  /\ pc' = [pc EXCEPT ![d] = "reading"]
  /\ cutoff' = [cutoff EXCEPT ![d] = WindowStart]
  /\ covered' = [covered EXCEPT ![d] = since]
  /\ UNCHANGED <<clock, quote, mark, cycle, signals, replica, now, price, since, undoTo>>

Briefing(from) ==
  LET rows == replica.signals
  IN {s \in Signals : rows[s] # Absent /\ rows[s] > from}

DigestSignals(d) ==
  /\ pc[d] = "reading"
  /\ Done(d)
  /\ UNCHANGED <<clock, quote, mark, cycle, signals, replica, history>>

Tick ==
  /\ clock < MaxNow
  /\ clock' = clock + 1
  /\ UNCHANGED <<quote, mark, cycle, signals, replica, request, history>>

MNext ==
  \/ Tick \/ Requote \/ Replicate \/ Undo \/ Rewind
  \/ \E s \in Signals : Detect(s) \/ InsertSignal(s)
  \/ \E d \in Devices : \/ AckBegin(d) \/ AckPrice(d) \/ AckWrite(d)
                        \/ DigestMarks(d) \/ DigestSignals(d)

MSpec == MInit /\ [][MNext]_mvars
-----------------------------------------------------------------------------
MTypeOK ==
  /\ clock \in Times /\ quote \in Prices
  /\ mark \in Optional(Marks)
  /\ cycle \in [Signals -> Optional(Times)]
  /\ signals \in [Signals -> Optional(Times)]
  /\ replica \in [quote : Prices, signals : [Signals -> Optional(Times)]]
  /\ pc \in [Devices -> Labels]
  /\ now \in [Devices -> Times]
  /\ price \in [Devices -> Optional(Prices)]
  /\ cutoff \in [Devices -> Times]
  /\ since \subseteq Times
  /\ covered \in [Devices -> SUBSET Times]
  /\ undoTo \in [known : BOOLEAN, to : Optional(Checkpoints)]

(* Devices that acknowledge at once settle on the latest checkpoint,       *)
(* whichever writes last.                                                  *)
SettlesOnLatest ==
  since # {} =>
    mark # Absent /\ mark.seenAt \in since /\ \A at \in since : at <= mark.seenAt

(* The checkpoint that undo would bring back never lies after the current. *)
PrevIsOlder ==
  mark # Absent => mark.prevSeenAt = Absent \/ mark.prevSeenAt <= mark.seenAt

(* A briefing requested after an acknowledgement does not show again what  *)
(* that acknowledgement covered, unless it was taken back meanwhile.       *)
NotReshown ==
  \A d \in Devices : pc[d] = "reading" =>
    \A s \in Briefing(cutoff[d]), at \in covered[d] : replica.signals[s] > at

(* Promises of the documents that this code does not keep, which is why no *)
(* run checks them (README, section 6).                                    *)
(* Undo restores the checkpoint that the acknowledgement replaced. *)
UndoRestores ==
  [][(Undo /\ undoTo.known) => checkpoint' = undoTo.to]_mvars

(* Only a signal detected in the very millisecond of an acknowledgement is *)
(* lost to the user: any other new signal falls into the next briefing.    *)
NewSignalsAreShown ==
  [][\A s \in Signals :
       (signals[s] = Absent /\ signals'[s] # Absent /\ mark # Absent) =>
         signals'[s] >= mark.seenAt]_mvars
=============================================================================
