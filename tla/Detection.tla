------------------------------ MODULE Detection ------------------------------
(***************************************************************************)
(* The detection cycle of one symbol: services/detection.ts driving the    *)
(* episode machine and writing the tables `signals` and `signal_state`     *)
(* through db/signalRepo.ts.                                               *)
(*                                                                         *)
(* A worker is whoever runs a cycle for the symbol: the scheduler's tick,  *)
(* POST /api/symbols/:symbol/refresh, or the same two in another process.  *)
(* One SQL statement is one step: the cycle is not a transaction, so the   *)
(* statements of two workers interleave, and a cycle can stop between any  *)
(* two of them (a statement that throws, or the process dying).            *)
(*                                                                         *)
(* Kinds are numbered by their place in DETECTORS, the order in which the  *)
(* cycle visits them.  All rows are of one symbol; cycles of different     *)
(* symbols touch disjoint rows.                                            *)
(***************************************************************************)
EXTENDS Integers, FiniteSets, Hysteresis

CONSTANTS
  Workers,
  NumKinds,        \* number of detectors
  StateKinds,      \* STATE_KINDS: adopted silently on first sight
  IntegrityKinds,  \* INTEGRITY_KINDS: never suppressed
  Discs,           \* discriminators a reading can carry
  Values,          \* magnitudes a reading can have
  SeverityCap,     \* where severity saturates
  Retention,       \* how long a superseded signal is kept
  MaxNow,          \* bound on the clock
  Faults           \* whether a cycle may stop between two statements

Kinds == 1 .. NumKinds
Times == 0 .. MaxNow
Keys  == Discs \X Times

ASSUME KindsAssumption ==
  /\ NumKinds \in Nat
  /\ StateKinds \subseteq Kinds
  /\ IntegrityKinds \subseteq Kinds
ASSUME ThresholdsAssumption ==
  /\ Enter \in [Kinds -> Nat]
  /\ Exit \in [Kinds -> Nat]
  /\ \A k \in Kinds : Exit[k] <= Enter[k] /\ Enter[k] > 0
ASSUME ValuesAssumption == Values \subseteq Nat /\ SeverityCap \in Nat
ASSUME TimeAssumption == MaxNow \in Nat \ {0} /\ Retention \in Nat
ASSUME FaultsAssumption == Faults \in BOOLEAN

Observations(k) == [kind : {k}, disc : Discs, value : Values]

StateRows  == [key : Keys \cup {None}, peak : Nat]
SignalRows == [severity : Nat, detectedAt : Times, asOf : Times,
               supersededAt : Times \cup {None}]
ASSUME NoneAssumption == None \notin Keys \cup SignalRows
Actions    == {"idle", "open", "reopen", "intensify", "continue", "close"}
Outcomes   == [action : Actions, key : Keys \cup {None},
               closing : Keys \cup {None}, state : StateRows]
Labels     == {"idle", "fetch", "read", "loop", "supersede", "insert", "intensify"}

VARIABLES
  clock,     \* the server clock
  quote,     \* as_of of the stored quote
  state,     \* table signal_state: kind -> row or None
  signals,   \* table signals: <<kind, episode key>> -> row or None
  announced, \* history: the <<kind, key>> for which an insert took effect
  \* per worker: program counter and the locals of refresh() and detect()
  pc, now, asOf, snap, i, out, writes

tables == <<state, signals, announced>>
locals == <<pc, now, asOf, snap, i, out, writes>>
vars   == <<clock, quote, tables, locals>>

NoOutcome == Outcome("idle", None, None, Quiet)

Init ==
  /\ clock = 1
  /\ quote = 0
  /\ state = [k \in Kinds |-> None]
  /\ signals = [id \in Kinds \X Keys |-> None]
  /\ announced = {}
  /\ pc = [w \in Workers |-> "idle"]
  /\ now = [w \in Workers |-> 0]
  /\ asOf = [w \in Workers |-> 0]
  /\ snap = [w \in Workers |-> [k \in Kinds |-> None]]
  /\ i = [w \in Workers |-> 1]
  /\ out = [w \in Workers |-> NoOutcome]
  /\ writes = [w \in Workers |-> [k \in Kinds |-> None]]

-----------------------------------------------------------------------------
(* Scheduler.tick / the refresh route: `now` is read once, before any      *)
(* network call, and stamps everything the cycle writes.  One worker never *)
(* begins two cycles in one millisecond: a quote fetch lies between them.  *)
Begin(w) ==
  /\ pc[w] = "idle"
  /\ now[w] < clock
  /\ now' = [now EXCEPT ![w] = clock]
  /\ pc' = [pc EXCEPT ![w] = "fetch"]
  /\ UNCHANGED <<clock, quote, tables, asOf, snap, i, out, writes>>

(* IngestService.refresh: the effective quote is the fetched one when the  *)
(* upsert accepts it (its as_of is not older), else the stored one (the    *)
(* choice a = quote).                                                      *)
Fetch(w) ==
  /\ pc[w] = "fetch"
  /\ \E a \in quote .. clock :
       /\ quote' = a
       /\ asOf' = [asOf EXCEPT ![w] = a]
  /\ pc' = [pc EXCEPT ![w] = "read"]
  /\ UNCHANGED <<clock, tables, now, snap, i, out, writes>>

(* getStates: all hysteresis rows of the symbol, once per cycle. *)
ReadStates(w) ==
  /\ pc[w] = "read"
  /\ snap' = [snap EXCEPT ![w] = state]
  /\ pc' = [pc EXCEPT ![w] = "loop"]
  /\ UNCHANGED <<clock, quote, tables, now, asOf, i, out, writes>>

(* The detector of kind i returned null or threw: the kind is left alone. *)
SkipKind(w) ==
  /\ pc[w] = "loop" /\ i[w] <= NumKinds
  /\ i' = [i EXCEPT ![w] = @ + 1]
  /\ UNCHANGED <<clock, quote, tables, pc, now, asOf, snap, out, writes>>

(* Market analysis on an untrustworthy price (freshness 'stale' or         *)
(* 'unknown') reads as zero; integrity kinds are exempt.                   *)
Suppress(o, trusted) ==
  IF o.kind \notin IntegrityKinds /\ ~trusted THEN [o EXCEPT !.value = 0] ELSE o

(* Mutants: every kind is adopted; a state kind is adopted every time. *)
AdoptAnyKind(prior, k, r) == prior = None /\ r.action = "open"
AdoptEveryTime(prior, k, r) == k \in StateKinds /\ r.action = "open"

(* Cold start: a standing condition is recorded without announcing it. *)
AdoptSilently(prior, k, r) ==
  prior = None /\ k \in StateKinds /\ r.action = "open"

(* Mutant: a closing outcome forgets the old row. *)
SupersedeOnReopen(r) ==
  CASE r.action = "reopen" -> "supersede"
    [] r.action = "open" -> "insert"
    [] r.action = "intensify" -> "intensify"
    [] OTHER -> "loop"

(* The statement of apply() an outcome starts with, or "loop" for none. *)
FirstStatement(r) ==
  CASE r.closing # None -> "supersede"
    [] r.closing = None /\ r.action = "open" -> "insert"
    [] r.closing = None /\ r.action = "intensify" -> "intensify"
    [] OTHER -> "loop"

(* One turn of the detector loop up to its first statement, on reading o.  *)
(* Nothing reads the snapshot of kind k afterwards, so it is dropped.      *)
Observe(w, o, trusted) ==
  LET k      == i[w]
      r      == step(Suppress(o, trusted), snap[w][k], now[w])
      target == IF AdoptSilently(snap[w][k], k, r) THEN "loop" ELSE FirstStatement(r)
  IN /\ pc[w] = "loop" /\ k <= NumKinds /\ o.kind = k
     /\ writes' = [writes EXCEPT ![w][k] = r.state]
     /\ snap' = [snap EXCEPT ![w][k] = None]
     /\ pc' = [pc EXCEPT ![w] = target]
     /\ IF target = "loop"
        THEN i' = [i EXCEPT ![w] = @ + 1] /\ UNCHANGED out
        ELSE out' = [out EXCEPT ![w] = r] /\ UNCHANGED i
     /\ UNCHANGED <<clock, quote, tables, now, asOf>>

(* apply() has run its last statement: on to the next detector. *)
NextKind(w) ==
  /\ pc' = [pc EXCEPT ![w] = "loop"]
  /\ i' = [i EXCEPT ![w] = @ + 1]
  /\ out' = [out EXCEPT ![w] = NoOutcome]

isOpen(id) == IF signals[id] = None THEN FALSE ELSE signals[id].supersededAt = None

(* supersede: close the row unless it is missing or closed already.  The   *)
(* outcome 'close' ends here, 'reopen' goes on to its insert.              *)
Supersede(w) ==
  LET id == <<i[w], out[w].closing>>
  IN /\ pc[w] = "supersede"
     /\ signals' = IF isOpen(id)
                   THEN [signals EXCEPT ![id].supersededAt = now[w]]
                   ELSE signals
     /\ IF out[w].action = "reopen"
        THEN pc' = [pc EXCEPT ![w] = "insert"] /\ UNCHANGED <<i, out>>
        ELSE NextKind(w)
     /\ UNCHANGED <<clock, quote, state, announced, now, asOf, snap, writes>>

(* Severity grows with the reading and saturates.  When apply() needs it   *)
(* (open, reopen, intensify) the reading is the peak of the outcome.       *)
Saturate(v) == IF v < SeverityCap THEN v ELSE SeverityCap
severity(w) == Saturate(out[w].state.peak)

(* insertIfAbsent: a row that exists already is left alone and nothing is  *)
(* announced (ON CONFLICT (symbol, kind, episode_key) DO NOTHING).         *)
Insert(w) ==
  LET id  == <<i[w], out[w].key>>
      row == [severity |-> severity(w), detectedAt |-> now[w],
              asOf |-> asOf[w], supersededAt |-> None]
  IN /\ pc[w] = "insert"
     /\ IF signals[id] = None
        THEN /\ signals' = [signals EXCEPT ![id] = row]
             /\ announced' = announced \cup {id}
        ELSE UNCHANGED <<signals, announced>>
     /\ NextKind(w)
     /\ UNCHANGED <<clock, quote, state, now, asOf, snap, writes>>

(* Mutant: a revision from older market data is accepted. *)
RevisesFromAnyData(w, id) ==
  IF signals[id] = None THEN FALSE ELSE severity(w) > signals[id].severity

(* intensify: revise upward only, and never from older market data. *)
Revises(w, id) ==
  IF signals[id] = None THEN FALSE
  ELSE severity(w) > signals[id].severity /\ asOf[w] >= signals[id].asOf

Intensify(w) ==
  LET id == <<i[w], out[w].key>>
  IN /\ pc[w] = "intensify"
     /\ signals' = IF Revises(w, id)
                   THEN [signals EXCEPT ![id].severity = severity(w),
                                        ![id].asOf = asOf[w]]
                   ELSE signals
     /\ NextKind(w)
     /\ UNCHANGED <<clock, quote, state, announced, now, asOf, snap, writes>>

(* A worker with nothing left to do or to remember. *)
Forget(w) ==
  /\ pc' = [pc EXCEPT ![w] = "idle"]
  /\ i' = [i EXCEPT ![w] = 1]
  /\ asOf' = [asOf EXCEPT ![w] = 0]
  /\ snap' = [snap EXCEPT ![w] = [k \in Kinds |-> None]]
  /\ writes' = [writes EXCEPT ![w] = [k \in Kinds |-> None]]
  /\ out' = [out EXCEPT ![w] = NoOutcome]
  /\ UNCHANGED now

(* putStates: one upsert for every kind that produced a reading. *)
PutStates(w) ==
  /\ pc[w] = "loop" /\ i[w] > NumKinds
  /\ state' = [k \in Kinds |-> IF writes[w][k] = None THEN state[k] ELSE writes[w][k]]
  /\ Forget(w)
  /\ UNCHANGED <<clock, quote, signals, announced>>

(* A statement throws, or the process dies: what was written stays. *)
Abort(w) ==
  /\ Faults
  /\ pc[w] # "idle"
  /\ Forget(w)
  /\ UNCHANGED <<clock, quote, tables>>

(* pruneBefore(now - retention), from the scheduler's sweep.  Retention is *)
(* counted in sessions, so no cycle in flight is older than the cutoff.    *)
Prune ==
  /\ \A w \in Workers : pc[w] = "idle" \/ now[w] >= clock - Retention
  /\ signals' = [id \in Kinds \X Keys |->
        IF signals[id] = None THEN None
        ELSE IF signals[id].detectedAt < clock - Retention /\ ~isOpen(id)
             THEN None ELSE signals[id]]
  /\ UNCHANGED <<clock, quote, state, announced, locals>>

Tick ==
  /\ clock < MaxNow
  /\ clock' = clock + 1
  /\ UNCHANGED <<quote, tables, locals>>

WorkerStep(w) ==
  \/ Begin(w) \/ Fetch(w) \/ ReadStates(w) \/ SkipKind(w)
  \/ \E o \in Observations(i[w]), t \in BOOLEAN : Observe(w, o, t)
  \/ Supersede(w) \/ Insert(w) \/ Intensify(w) \/ PutStates(w) \/ Abort(w)

Next == Tick \/ Prune \/ \E w \in Workers : WorkerStep(w)

Spec == Init /\ [][Next]_vars
-----------------------------------------------------------------------------
(* Every variable holds values of its kind. *)
TypeOK ==
  /\ clock \in Times /\ quote \in Times
  /\ state \in [Kinds -> StateRows \cup {None}]
  /\ signals \in [Kinds \X Keys -> SignalRows \cup {None}]
  /\ announced \subseteq Kinds \X Keys
  /\ pc \in [Workers -> Labels]
  /\ now \in [Workers -> Times]
  /\ asOf \in [Workers -> Times]
  /\ snap \in [Workers -> [Kinds -> StateRows \cup {None}]]
  /\ i \in [Workers -> 1 .. NumKinds + 1]
  /\ out \in [Workers -> Outcomes]
  /\ writes \in [Workers -> [Kinds -> StateRows \cup {None}]]

isTracked(k) == inEpisode(state[k])

(* No crash, failed statement or race makes the machine track an episode   *)
(* that was never announced: the signal is inserted before the state that  *)
(* would silence it is written.  Only kinds of STATE_KINDS are adopted     *)
(* without a signal.                                                       *)
TrackedWasAnnounced ==
  \A k \in Kinds \ StateKinds :
    isTracked(k) => <<k, state[k].key>> \in announced

(* The inductive invariant behind it.  A worker is inside apply() with an  *)
(* outcome that names the keys its next statement needs; whatever any      *)
(* table, snapshot or pending write tracks has been announced, or is what  *)
(* the worker is just about to insert.                                     *)
ProgramOK ==
  \A w \in Workers :
    /\ pc[w] \in {"supersede", "insert", "intensify"} => i[w] \in Kinds
    /\ pc[w] = "supersede" =>
         /\ out[w].closing \in Keys
         /\ out[w].action = "reopen" => out[w].key \in Keys
    /\ pc[w] \in {"insert", "intensify"} => out[w].key \in Keys

isRecorded(k, row) == inEpisode(row) => <<k, row.key>> \in announced

Opens(w) == pc[w] = "insert" \/ (pc[w] = "supersede" /\ out[w].action = "reopen")

WillAnnounce(w, k) ==
  Opens(w) /\ k = i[w] /\ out[w].key = writes[w][k].key

EverythingRecorded ==
  /\ \A id \in Kinds \X Keys : signals[id] # None => id \in announced
  /\ \A w \in Workers, k \in Kinds \ StateKinds :
       /\ isRecorded(k, snap[w][k])
       /\ isRecorded(k, writes[w][k]) \/ WillAnnounce(w, k)

(* Behind RowsMature: a key is stamped with the instant its cycle began,   *)
(* and the keys that were pruned are older than any cycle in flight, so    *)
(* none of them is ever inserted again.                                    *)
openedAt(id) == id[2][2]
WasPruned(id) == id \in announced /\ signals[id] = None

KeysAreFresh ==
  /\ \A id \in Kinds \X Keys :
       /\ signals[id] # None => signals[id].detectedAt = openedAt(id)
       /\ WasPruned(id) => openedAt(id) < clock
  /\ \A w \in Workers :
       /\ Opens(w) => out[w].key[2] = now[w]
       /\ \A id \in Kinds \X Keys :
            WasPruned(id) => pc[w] = "idle" \/ openedAt(id) < now[w]

IndInv ==
  TypeOK /\ ProgramOK /\ EverythingRecorded /\ TrackedWasAnnounced /\ KeysAreFresh

(* What a reader has been shown can only mature: a row keeps its           *)
(* detected_at, so it never leapfrogs a watermark; its severity and its    *)
(* as_of never fall; once superseded it stays as it was superseded; only a *)
(* superseded row disappears, and it never comes back.                     *)
RowMatures(id) ==
  /\ signals[id] # None =>
       IF signals'[id] = None THEN signals[id].supersededAt # None
       ELSE /\ signals'[id].detectedAt = signals[id].detectedAt
            /\ signals'[id].severity >= signals[id].severity
            /\ signals'[id].asOf >= signals[id].asOf
            /\ signals[id].supersededAt # None =>
                 signals'[id].supersededAt = signals[id].supersededAt
  /\ (id \in announced /\ signals[id] = None) => signals'[id] = None

RowsMature == [][\A id \in Kinds \X Keys : RowMatures(id)]_vars

OpenRows(k) == {id \in {k} \X Keys : isOpen(id)}

(* A kind has at most one open row: a crash mid-cycle, a duplicate tick or *)
(* two workers racing all converge on one row.  It is what the comments    *)
(* promise and the code does not keep (README, section 6): no run checks   *)
(* it.                                                                     *)
OneOpenRow == \A k \in Kinds : Cardinality(OpenRows(k)) <= 1
==============================================================================
