-------------------------- MODULE DetectionProofs --------------------------
(***************************************************************************)
(* Theorems about Detection for any number of workers, kinds, readings and *)
(* ticks, with or without faults; then, for one worker without faults      *)
(* (DetectionSerial), that the two tables agree, that nothing is said      *)
(* twice, and that the engine implements Episodes.                         *)
(***************************************************************************)
EXTENDS DetectionSerial, FiniteSetTheorems, TLAPS

USE DEF Kinds, Keys, Times

Readings == [kind : Kinds, disc : Discs, value : Nat]

-----------------------------------------------------------------------------
(* The episode machine returns a well-formed outcome. *)
LEMMA StepType ==
  ASSUME NEW o \in Readings, NEW prior \in StateRows \cup {None}, NEW t \in Times
  PROVE  step(o, prior, t) \in Outcomes
<1>1. makeEpisodeKey(o.disc, t) \in Keys
  BY DEF makeEpisodeKey, Readings
<1>2. Quiet \in StateRows /\ Opened(o, t) \in StateRows
  BY <1>1 DEF Quiet, Opened, StateRows, Readings
<1>3. ~inEpisode(prior) => step(o, prior, t) \in Outcomes
  BY <1>1, <1>2 DEF step, StepOutside, Outcome, Outcomes, Actions
<1>4. ASSUME inEpisode(prior)
      PROVE  prior \in StateRows /\ prior.key \in Keys
  BY <1>4 DEF inEpisode, StateRows
<1>5. ASSUME inEpisode(prior), discriminatorOf(prior.key) # o.disc
      PROVE  step(o, prior, t) \in Outcomes
  BY <1>1, <1>2, <1>4, <1>5 DEF step, StepChanged, Outcome, Outcomes, Actions
<1>6. ASSUME inEpisode(prior), discriminatorOf(prior.key) = o.disc
      PROVE  step(o, prior, t) \in Outcomes
  <2>1. [key |-> prior.key, peak |-> o.value] \in StateRows
    BY <1>4, <1>6 DEF StateRows, Readings
  <2>2. [key |-> prior.key, peak |-> Larger(prior.peak, o.value)] \in StateRows
    BY <1>4, <1>6 DEF StateRows, Readings, Larger
  <2>3. QED
    BY <1>2, <1>4, <1>6, <2>1, <2>2 DEF step, StepInside, Outcome, Outcomes, Actions
<1>7. QED
  BY <1>3, <1>5, <1>6

(* Where the key of the state an outcome writes comes from. *)
LEMMA StepKeys ==
  ASSUME NEW o \in Readings, NEW prior \in StateRows \cup {None}, NEW t \in Times,
         NEW r, r = step(o, prior, t)
  PROVE  /\ r.state.key # None =>
              \/ inEpisode(prior) /\ r.state.key = prior.key
              \/ r.action \in {"open", "reopen"} /\ r.key = r.state.key
         /\ r.action = "open" => r.closing = None
         /\ r.action = "reopen" => r.closing # None
<1>1. CASE ~inEpisode(prior)
  BY <1>1 DEF step, StepOutside, Outcome, Quiet, Opened
<1>2. CASE inEpisode(prior) /\ discriminatorOf(prior.key) # o.disc
  <2>1. prior.key # None
    BY <1>2 DEF inEpisode
  <2>2. QED
    BY <1>2, <2>1 DEF step, StepChanged, Outcome, Quiet, Opened
<1>3. CASE inEpisode(prior) /\ discriminatorOf(prior.key) = o.disc
  BY <1>3 DEF step, StepInside, Outcome, Quiet
<1>4. QED
  BY <1>1, <1>2, <1>3

(* An outcome that opens, reopens or deepens an episode names its key. *)
OutcomeKeys(r) ==
  r.action \in {"open", "reopen", "intensify"} => r.key # None

LEMMA StepOutcomeKeys ==
  ASSUME NEW o \in Readings, NEW prior \in StateRows \cup {None}, NEW t \in Times
  PROVE  OutcomeKeys(step(o, prior, t))
<1>1. makeEpisodeKey(o.disc, t) # None
  BY NoneAssumption DEF makeEpisodeKey, Readings
<1>2. inEpisode(prior) => prior.key # None
  BY DEF inEpisode
<1>3. QED
  BY <1>1, <1>2 DEF step, StepOutside, StepChanged, StepInside, Outcome, OutcomeKeys

(* An outcome that opens an episode names it after the cycle's instant. *)
LEMMA StepFresh ==
  ASSUME NEW o \in Readings, NEW prior \in StateRows \cup {None}, NEW t \in Times,
         step(o, prior, t).action \in {"open", "reopen"}
  PROVE  step(o, prior, t).key[2] = t
BY DEF step, StepOutside, StepChanged, StepInside, Outcome, makeEpisodeKey

-----------------------------------------------------------------------------
(* Type correctness. *)

LEMMA ObservedReading ==
  ASSUME NEW k \in Kinds, NEW o \in Observations(k), NEW trusted \in BOOLEAN
  PROVE  Suppress(o, trusted) \in Readings
BY ValuesAssumption DEF Observations, Suppress, Readings

LEMMA TypeInit == Init => TypeOK
<1>1. 1 \in 1 .. NumKinds + 1
  BY KindsAssumption
<1>2. Quiet \in StateRows /\ NoOutcome \in Outcomes
  BY DEF NoOutcome, Outcome, Outcomes, Actions, Quiet, StateRows
<1>3. QED
  BY <1>1, <1>2, TimeAssumption DEF Init, TypeOK, Labels, SignalRows

(* Every action keeps the variables in their types. *)
LEMMA TypeStep ==
  ASSUME TypeOK, ProgramOK, [Next]_vars
  PROVE  TypeOK'
<1>. USE DEF TypeOK, Labels
<1>0. NoOutcome \in Outcomes /\ NumKinds \in Nat /\ MaxNow \in Nat /\ 0 \in Times
  BY KindsAssumption, TimeAssumption
     DEF NoOutcome, Outcome, Outcomes, Actions, Quiet, StateRows
<1>1. ASSUME NEW w \in Workers, Forget(w)
      PROVE  /\ pc' \in [Workers -> Labels] /\ i' \in [Workers -> 1 .. NumKinds + 1]
             /\ now' \in [Workers -> Times] /\ asOf' \in [Workers -> Times]
             /\ snap' \in [Workers -> [Kinds -> StateRows \cup {None}]]
             /\ writes' \in [Workers -> [Kinds -> StateRows \cup {None}]]
             /\ out' \in [Workers -> Outcomes]
  BY <1>0, <1>1 DEF Forget
<1>2. ASSUME NEW w \in Workers, i[w] \in Kinds, NextKind(w)
      PROVE  /\ pc' \in [Workers -> Labels] /\ i' \in [Workers -> 1 .. NumKinds + 1]
             /\ out' \in [Workers -> Outcomes]
  BY <1>0, <1>2 DEF NextKind
<1>3. ASSUME NEW w \in Workers, Begin(w) PROVE TypeOK'
  BY <1>3 DEF Begin, tables
<1>4. ASSUME NEW w \in Workers, Fetch(w) PROVE TypeOK'
  <2>1. quote .. clock \subseteq Times
    BY <1>0
  <2>. QED
    BY <1>4, <2>1 DEF Fetch, tables
<1>5. ASSUME NEW w \in Workers, ReadStates(w) PROVE TypeOK'
  BY <1>5 DEF ReadStates, tables
<1>6. ASSUME NEW w \in Workers, SkipKind(w) PROVE TypeOK'
  BY <1>0, <1>6 DEF SkipKind, tables
<1>7. ASSUME NEW w \in Workers, NEW o \in Observations(i[w]), NEW t \in BOOLEAN,
             Observe(w, o, t)
      PROVE  TypeOK'
  <2>. DEFINE r == step(Suppress(o, t), snap[w][i[w]], now[w])
              target == IF AdoptSilently(snap[w][i[w]], i[w], r)
                        THEN "loop" ELSE FirstStatement(r)
  <2>1. i[w] \in Kinds
    BY <1>0, <1>7 DEF Observe
  <2>2. r \in Outcomes
    <3>1. Suppress(o, t) \in Readings
      BY <2>1, ObservedReading
    <3>2. snap[w][i[w]] \in StateRows \cup {None} /\ now[w] \in Times
      BY <2>1
    <3>3. QED
      BY <3>1, <3>2, StepType
  <2>3. target \in Labels
    BY DEF FirstStatement
  <2>4. r.state \in StateRows
    BY <2>2 DEF Outcomes
  <2>5. /\ writes' = [writes EXCEPT ![w][i[w]] = r.state]
        /\ snap' = [snap EXCEPT ![w][i[w]] = None]
        /\ pc' = [pc EXCEPT ![w] = target]
        /\ \/ i' = [i EXCEPT ![w] = @ + 1] /\ out' = out
           \/ out' = [out EXCEPT ![w] = r] /\ i' = i
        /\ UNCHANGED <<clock, quote, state, signals, announced, now, asOf>>
    BY <1>7 DEF Observe, tables
  <2>. HIDE DEF r, target
  <2>6. /\ writes' \in [Workers -> [Kinds -> StateRows \cup {None}]]
        /\ snap' \in [Workers -> [Kinds -> StateRows \cup {None}]]
    BY <2>1, <2>4, <2>5
  <2>7. pc' \in [Workers -> Labels]
    BY <2>3, <2>5
  <2>8. i' \in [Workers -> 1 .. NumKinds + 1] /\ out' \in [Workers -> Outcomes]
    <3>1. i[w] + 1 \in 1 .. NumKinds + 1
      BY <1>0, <2>1
    <3>2. CASE i' = [i EXCEPT ![w] = @ + 1] /\ out' = out
      BY <3>1, <3>2
    <3>3. CASE out' = [out EXCEPT ![w] = r] /\ i' = i
      BY <2>2, <3>3
    <3>4. QED
      BY <2>5, <3>2, <3>3
  <2>9. QED
    BY <2>5, <2>6, <2>7, <2>8
<1>8. ASSUME NEW w \in Workers, Supersede(w) PROVE TypeOK'
  <2>1. i[w] \in Kinds
    BY <1>8 DEF Supersede, ProgramOK
  <2>2. signals' \in [Kinds \X Keys -> SignalRows \cup {None}]
    <3>. DEFINE id == <<i[w], out[w].closing>>
    <3>1. id \in Kinds \X Keys
      BY <1>8, <2>1 DEF Supersede, ProgramOK
    <3>2. CASE isOpen(id)
      <4>1. signals[id] \in SignalRows
        BY <3>1, <3>2 DEF isOpen
      <4>2. [signals[id] EXCEPT !.supersededAt = now[w]] \in SignalRows
        BY <4>1 DEF SignalRows
      <4>3. signals' = [signals EXCEPT ![id] = [signals[id] EXCEPT !.supersededAt = now[w]]]
        BY <1>8, <3>2 DEF Supersede
      <4>. HIDE DEF id
      <4>4. QED
        BY <4>2, <4>3
    <3>3. CASE ~isOpen(id)
      BY <1>8, <3>3 DEF Supersede
    <3>4. QED
      BY <3>2, <3>3
  <2>3. /\ pc' \in [Workers -> Labels] /\ i' \in [Workers -> 1 .. NumKinds + 1]
        /\ out' \in [Workers -> Outcomes]
    BY <1>2, <1>8, <2>1 DEF Supersede
  <2>4. QED
    BY <1>8, <2>2, <2>3 DEF Supersede
<1>9. ASSUME NEW w \in Workers, Insert(w) PROVE TypeOK'
  <2>1. i[w] \in Kinds /\ out[w].key \in Keys
    BY <1>9 DEF Insert, ProgramOK
  <2>2. severity(w) \in Nat
    BY ValuesAssumption DEF severity, Saturate, Outcomes, StateRows
  <2>3. [severity |-> severity(w), detectedAt |-> now[w],
         asOf |-> asOf[w], supersededAt |-> None] \in SignalRows
    BY <2>2 DEF SignalRows
  <2>4. /\ signals' \in [Kinds \X Keys -> SignalRows \cup {None}]
        /\ announced' \subseteq Kinds \X Keys
    <3>. DEFINE id == <<i[w], out[w].key>>
                row == [severity |-> severity(w), detectedAt |-> now[w],
                        asOf |-> asOf[w], supersededAt |-> None]
    <3>1. id \in Kinds \X Keys
      BY <2>1
    <3>2. \/ signals' = [signals EXCEPT ![id] = row] /\ announced' = announced \cup {id}
          \/ signals' = signals /\ announced' = announced
      BY <1>9 DEF Insert
    <3>. HIDE DEF id, row
    <3>3. row \in SignalRows
      BY <2>3 DEF row
    <3>4. QED
      BY ZenonT(60), <3>1, <3>2, <3>3
  <2>5. /\ pc' \in [Workers -> Labels] /\ i' \in [Workers -> 1 .. NumKinds + 1]
        /\ out' \in [Workers -> Outcomes]
    BY <1>2, <1>9, <2>1 DEF Insert
  <2>6. QED
    BY <1>9, <2>4, <2>5 DEF Insert
<1>10. ASSUME NEW w \in Workers, Intensify(w) PROVE TypeOK'
  <2>1. i[w] \in Kinds /\ out[w].key \in Keys
    BY <1>10 DEF Intensify, ProgramOK
  <2>2. severity(w) \in Nat
    BY ValuesAssumption DEF severity, Saturate, Outcomes, StateRows
  <2>3. signals' \in [Kinds \X Keys -> SignalRows \cup {None}]
    <3>. DEFINE id == <<i[w], out[w].key>>
                new == [signals[id] EXCEPT !.severity = severity(w), !.asOf = asOf[w]]
    <3>1. id \in Kinds \X Keys
      BY <2>1
    <3>2. \/ signals[id] # None /\ signals' = [signals EXCEPT ![id] = new]
          \/ signals' = signals
      BY <1>10, <3>1 DEF Intensify, Revises
    <3>3. signals[id] # None => new \in SignalRows
      BY ZenonT(60), <2>2, <3>1 DEF SignalRows
    <3>. HIDE DEF id, new
    <3>4. QED
      BY <3>1, <3>2, <3>3
  <2>4. /\ pc' \in [Workers -> Labels] /\ i' \in [Workers -> 1 .. NumKinds + 1]
        /\ out' \in [Workers -> Outcomes]
    BY <1>2, <1>10, <2>1 DEF Intensify
  <2>5. QED
    BY <1>10, <2>3, <2>4 DEF Intensify
<1>11. ASSUME NEW w \in Workers, PutStates(w) PROVE TypeOK'
  <2>1. state' \in [Kinds -> StateRows \cup {None}]
    <3>1. \A k \in Kinds : /\ writes[w][k] \in StateRows \cup {None}
                            /\ state[k] \in StateRows \cup {None}
      OBVIOUS
    <3>2. state' = [k \in Kinds |->
                     IF writes[w][k] = None THEN state[k] ELSE writes[w][k]]
      BY <1>11 DEF PutStates
    <3>3. QED
      BY <3>1, <3>2
  <2>2. QED
    BY <1>1, <1>11, <2>1 DEF PutStates
<1>12. ASSUME NEW w \in Workers, Abort(w) PROVE TypeOK'
  BY <1>1, <1>12 DEF Abort, tables
<1>13. CASE Prune
  BY <1>13 DEF Prune, locals
<1>14. CASE Tick
  BY <1>0, <1>14 DEF Tick, tables, locals
<1>15. CASE UNCHANGED vars
  BY <1>15 DEF vars, tables, locals
<1>16. QED
  BY <1>3, <1>4, <1>5, <1>6, <1>7, <1>8, <1>9, <1>10, <1>11, <1>12, <1>13, <1>14,
     <1>15 DEF Next, WorkerStep

-----------------------------------------------------------------------------
(* The strengthening of TrackedWasAnnounced is inductive.                  *)

(* Whoever is inside apply() has an outcome naming the keys it needs. *)
LEMMA ProgramStep ==
  ASSUME TypeOK, ProgramOK, [Next]_vars
  PROVE  ProgramOK'
<1>. USE DEF TypeOK, Labels, ProgramOK
<1>0. NumKinds \in Nat
  BY KindsAssumption
<1>1. ASSUME NEW w \in Workers, Forget(w) PROVE ProgramOK'
  BY <1>1 DEF Forget
<1>2. ASSUME NEW w \in Workers, NextKind(w) PROVE ProgramOK'
  BY <1>2 DEF NextKind
<1>3. ASSUME NEW w \in Workers,
             Begin(w) \/ Fetch(w) \/ ReadStates(w) \/ SkipKind(w)
      PROVE  ProgramOK'
  BY <1>3 DEF Begin, Fetch, ReadStates, SkipKind
<1>4. ASSUME NEW w \in Workers, NEW o \in Observations(i[w]), NEW t \in BOOLEAN,
             Observe(w, o, t)
      PROVE  ProgramOK'
  <2>. DEFINE r == step(Suppress(o, t), snap[w][i[w]], now[w])
              target == IF AdoptSilently(snap[w][i[w]], i[w], r)
                        THEN "loop" ELSE FirstStatement(r)
  <2>1. i[w] \in Kinds
    BY <1>0, <1>4 DEF Observe
  <2>2. Suppress(o, t) \in Readings /\ snap[w][i[w]] \in StateRows \cup {None}
        /\ now[w] \in Times
    BY <2>1, ObservedReading
  <2>3. /\ target = "supersede" => r.closing \in Keys
        /\ target = "supersede" /\ r.action = "reopen" => r.key \in Keys
        /\ target \in {"insert", "intensify"} => r.key \in Keys
    <3>1. r \in Outcomes
      BY <2>2, StepType
    <3>2. OutcomeKeys(r)
      BY <2>2, StepOutcomeKeys
    <3>. HIDE DEF r
    <3>3. QED
      BY <3>1, <3>2 DEF Outcomes, FirstStatement, OutcomeKeys
  <2>4. /\ pc' = [pc EXCEPT ![w] = target]
        /\ target = "loop" \/ (i' = i /\ out' = [out EXCEPT ![w] = r])
        /\ \A v \in Workers \ {w} : i'[v] = i[v] /\ out'[v] = out[v]
    BY <1>4 DEF Observe
  <2>. HIDE DEF r, target
  <2>5. QED
    BY <2>1, <2>3, <2>4
<1>5. ASSUME NEW w \in Workers, Supersede(w) PROVE ProgramOK'
  <2>1. CASE out[w].action = "reopen"
    BY <1>5, <2>1 DEF Supersede
  <2>2. CASE out[w].action # "reopen"
    BY <1>2, <1>5, <2>2 DEF Supersede
  <2>3. QED
    BY <2>1, <2>2
<1>6. ASSUME NEW w \in Workers, Insert(w) \/ Intensify(w) PROVE ProgramOK'
  BY <1>2, <1>6 DEF Insert, Intensify
<1>7. ASSUME NEW w \in Workers, PutStates(w) \/ Abort(w) PROVE ProgramOK'
  BY <1>1, <1>7 DEF PutStates, Abort
<1>8. CASE Prune \/ Tick \/ UNCHANGED vars
  BY <1>8 DEF Prune, Tick, vars, locals
<1>9. QED
  BY <1>3, <1>4, <1>5, <1>6, <1>7, <1>8 DEF Next, WorkerStep

(* What a key is recorded as, it stays: announced only grows. *)
LEMMA AnnouncedGrows ==
  ASSUME [Next]_vars
  PROVE  announced \subseteq announced'
BY ZenonT(60) DEF Next, WorkerStep, vars, tables, locals, Tick, Prune, Begin, Fetch, ReadStates,
       SkipKind, Observe, Supersede, Insert, Intensify, PutStates, Abort

(* A row of the signals table has been announced. *)
LEMMA RowsStep ==
  ASSUME TypeOK, ProgramOK, EverythingRecorded, [Next]_vars
  PROVE  \A id \in Kinds \X Keys : signals'[id] # None => id \in announced'
<1>. USE DEF TypeOK
<1>. SUFFICES ASSUME NEW id \in Kinds \X Keys, signals'[id] # None, signals[id] = None
              PROVE  id \in announced'
  BY AnnouncedGrows DEF EverythingRecorded
<1>1. ASSUME NEW w \in Workers, Supersede(w) PROVE id \in announced'
  <2>. DEFINE other == <<i[w], out[w].closing>>
  <2>1. isOpen(other) => id # other
    BY DEF isOpen
  <2>2. signals'[id] = signals[id]
    BY <1>1, <2>1 DEF Supersede
  <2>3. QED
    BY <2>2
<1>2. ASSUME NEW w \in Workers, Insert(w) PROVE id \in announced'
  BY <1>2 DEF Insert, ProgramOK
<1>3. ASSUME NEW w \in Workers, Intensify(w) PROVE id \in announced'
  BY <1>3 DEF Intensify, Revises
<1>4. CASE Prune
  BY <1>4 DEF Prune
<1>5. ASSUME UNCHANGED signals PROVE FALSE
  BY <1>5
<1>6. QED
  BY <1>1, <1>2, <1>3, <1>4, <1>5
     DEF Next, WorkerStep, vars, tables, locals, Tick, Begin, Fetch, ReadStates,
         SkipKind, Observe, PutStates, Abort

(* What a worker's snapshot and pending writes track stays recorded. *)
LocalsRecorded(w) ==
  \A k \in Kinds \ StateKinds :
    /\ isRecorded(k, snap[w][k])
    /\ isRecorded(k, writes[w][k]) \/ WillAnnounce(w, k)

(* The other workers' locals are untouched, and announced only grows. *)
LEMMA OthersRecorded ==
  ASSUME TypeOK, [Next]_vars, NEW w \in Workers, LocalsRecorded(w),
         pc'[w] = pc[w], i'[w] = i[w], out'[w] = out[w],
         snap'[w] = snap[w], writes'[w] = writes[w]
  PROVE  LocalsRecorded(w)'
BY AnnouncedGrows DEF LocalsRecorded, isRecorded, WillAnnounce, Opens

(* One turn of the detector loop records what it will write. *)
LEMMA ObserveRecorded ==
  ASSUME IndInv, NEW w \in Workers, NEW o \in Observations(i[w]), NEW t \in BOOLEAN,
         Observe(w, o, t)
  PROVE  LocalsRecorded(w)'
<1>. USE DEF TypeOK
<1>. DEFINE r == step(Suppress(o, t), snap[w][i[w]], now[w])
            target == IF AdoptSilently(snap[w][i[w]], i[w], r)
                      THEN "loop" ELSE FirstStatement(r)
<1>1. i[w] \in Kinds /\ pc[w] = "loop"
  BY KindsAssumption DEF Observe, IndInv
<1>2. /\ Suppress(o, t) \in Readings /\ now[w] \in Times
      /\ snap[w][i[w]] \in StateRows \cup {None}
  BY <1>1, ObservedReading DEF IndInv
<1>3. /\ r.state.key # None =>
            \/ inEpisode(snap[w][i[w]]) /\ r.state.key = snap[w][i[w]].key
            \/ r.action \in {"open", "reopen"} /\ r.key = r.state.key
      /\ r.action = "open" => r.closing = None
      /\ r.action = "reopen" => r.closing # None
  BY <1>2, StepKeys
<1>4. i[w] \notin StateKinds =>
        /\ r.action = "open" => target = "insert"
        /\ r.action = "reopen" => target = "supersede"
  BY <1>3 DEF AdoptSilently, FirstStatement
<1>5. /\ writes' = [writes EXCEPT ![w][i[w]] = r.state]
      /\ snap' = [snap EXCEPT ![w][i[w]] = None]
      /\ pc' = [pc EXCEPT ![w] = target]
      /\ target # "loop" => out' = [out EXCEPT ![w] = r] /\ i' = i
      /\ announced' = announced
  BY DEF Observe, tables
<1>6. LocalsRecorded(w)
  BY DEF IndInv, EverythingRecorded, LocalsRecorded
<1>. HIDE DEF r, target
<1>7. ASSUME NEW k \in Kinds \ StateKinds, k # i[w]
      PROVE  /\ isRecorded(k, snap[w][k])'
             /\ isRecorded(k, writes[w][k])'
  <2>1. snap'[w][k] = snap[w][k] /\ writes'[w][k] = writes[w][k]
    BY <1>1, <1>5, <1>7 DEF IndInv
  <2>2. isRecorded(k, snap[w][k]) /\ isRecorded(k, writes[w][k])
    BY <1>1, <1>6, <1>7 DEF LocalsRecorded, WillAnnounce, Opens
  <2>3. QED
    BY <1>5, <2>1, <2>2 DEF isRecorded
<1>8. ASSUME NEW k \in Kinds \ StateKinds, k = i[w]
      PROVE  /\ isRecorded(k, snap[w][k])'
             /\ isRecorded(k, writes[w][k])' \/ WillAnnounce(w, k)'
  <2>1. snap'[w][k] = None /\ writes'[w][k] = r.state
    BY <1>5, <1>8 DEF IndInv
  <2>2. isRecorded(k, snap[w][k])'
    BY <2>1 DEF isRecorded, inEpisode
  <2>3. CASE r.state.key = None
    BY <2>1, <2>2, <2>3 DEF isRecorded, inEpisode
  <2>4. CASE inEpisode(snap[w][k]) /\ r.state.key = snap[w][k].key
    <3>1. <<k, snap[w][k].key>> \in announced
      BY <1>6, <2>4 DEF LocalsRecorded, isRecorded
    <3>2. <<k, writes'[w][k].key>> \in announced'
      BY <1>5, <2>1, <2>4, <3>1
    <3>3. QED
      BY <2>2, <3>2 DEF isRecorded
  <2>5. CASE r.action \in {"open", "reopen"} /\ r.key = r.state.key
    <3>1. target = "insert" \/ (target = "supersede" /\ r.action = "reopen")
      BY <1>4, <1>8, <2>5
    <3>2. i'[w] = i[w] /\ out'[w] = r /\ pc'[w] = target
      BY <1>5, <3>1 DEF IndInv
    <3>3. WillAnnounce(w, k)'
      BY <1>8, <2>1, <2>5, <3>1, <3>2 DEF WillAnnounce, Opens
    <3>4. QED
      BY <2>2, <3>3
  <2>6. QED
    BY <1>3, <1>8, <2>3, <2>4, <2>5
<1>9. QED
  BY <1>7, <1>8 DEF LocalsRecorded
(* An aborted or finished cycle remembers nothing. *)
LEMMA ForgetRecorded ==
  ASSUME TypeOK, NEW w \in Workers, Forget(w)
  PROVE  LocalsRecorded(w)'
<1>1. /\ snap'[w] = [k \in Kinds |-> None]
      /\ writes'[w] = [k \in Kinds |-> None]
  BY DEF TypeOK, Forget
<1>2. QED
  BY <1>1 DEF LocalsRecorded, isRecorded, inEpisode

LEMMA LocalsStep ==
  ASSUME IndInv, [Next]_vars, NEW v \in Workers
  PROVE  LocalsRecorded(v)'
<1>. USE DEF IndInv, TypeOK
<1>0. LocalsRecorded(v)
  BY DEF EverythingRecorded, LocalsRecorded
<1>1. ASSUME NEW w \in Workers, w # v, WorkerStep(w) PROVE LocalsRecorded(v)'
  <2>1. /\ pc'[v] = pc[v] /\ i'[v] = i[v] /\ out'[v] = out[v]
        /\ snap'[v] = snap[v] /\ writes'[v] = writes[v]
    BY <1>1 DEF WorkerStep, Begin, Fetch, ReadStates, SkipKind, Observe, Supersede,
                Insert, Intensify, PutStates, Abort, Forget, NextKind
  <2>2. QED
    BY <1>0, <2>1, OthersRecorded
<1>2. CASE Begin(v) \/ Fetch(v)
  BY <1>0, <1>2 DEF Begin, Fetch, tables, LocalsRecorded, isRecorded, WillAnnounce, Opens
<1>3. CASE ReadStates(v)
  <2>1. snap'[v] = state /\ writes'[v] = writes[v] /\ announced' = announced
    BY <1>3 DEF ReadStates, tables
  <2>2. ASSUME NEW k \in Kinds \ StateKinds
        PROVE  isRecorded(k, writes[v][k]) /\ isRecorded(k, state[k])
    BY <1>0, <1>3 DEF ReadStates, LocalsRecorded, WillAnnounce, Opens, TrackedWasAnnounced,
                      isTracked, isRecorded
  <2>3. QED
    BY <2>1, <2>2 DEF LocalsRecorded, isRecorded
<1>4. CASE SkipKind(v)
  BY <1>0, <1>4 DEF SkipKind, tables, LocalsRecorded, isRecorded, WillAnnounce, Opens
<1>5. ASSUME NEW o \in Observations(i[v]), NEW t \in BOOLEAN, Observe(v, o, t)
      PROVE  LocalsRecorded(v)'
  BY <1>5, ObserveRecorded
<1>6. CASE Supersede(v)
  <2>1. /\ snap'[v] = snap[v] /\ writes'[v] = writes[v] /\ announced' = announced
        /\ out[v].action = "reopen" =>
             pc'[v] = "insert" /\ i'[v] = i[v] /\ out'[v] = out[v]
    BY <1>6 DEF Supersede
  <2>2. ASSUME NEW k \in Kinds \ StateKinds
        PROVE  isRecorded(k, writes[v][k])' \/ WillAnnounce(v, k)'
    BY <1>0, <1>6, <2>1 DEF Supersede, LocalsRecorded, isRecorded, WillAnnounce, Opens
  <2>3. QED
    BY <1>0, <2>1, <2>2 DEF LocalsRecorded, isRecorded
<1>7. CASE Insert(v)
  <2>1. /\ snap'[v] = snap[v] /\ writes'[v] = writes[v]
        /\ <<i[v], out[v].key>> \in announced'
    BY <1>7 DEF Insert, EverythingRecorded, ProgramOK
  <2>2. ASSUME NEW k \in Kinds \ StateKinds
        PROVE  isRecorded(k, writes[v][k])'
    BY <1>0, <2>1, AnnouncedGrows DEF LocalsRecorded, isRecorded, WillAnnounce, Opens
  <2>3. QED
    BY <1>0, <2>1, <2>2, AnnouncedGrows DEF LocalsRecorded, isRecorded
<1>8. CASE Intensify(v)
  <2>1. /\ snap'[v] = snap[v] /\ writes'[v] = writes[v] /\ announced' = announced
        /\ pc[v] = "intensify"
    BY <1>8 DEF Intensify
  <2>2. QED
    BY <1>0, <2>1 DEF LocalsRecorded, isRecorded, WillAnnounce, Opens
<1>9. CASE PutStates(v) \/ Abort(v)
  BY <1>9, ForgetRecorded DEF PutStates, Abort
<1>10. CASE Prune \/ Tick \/ UNCHANGED vars
  BY <1>0, <1>10, OthersRecorded DEF Prune, Tick, vars, tables, locals
<1>11. QED
  BY <1>1, <1>2, <1>3, <1>4, <1>5, <1>6, <1>7, <1>8, <1>9, <1>10 DEF Next, WorkerStep

(* What is persisted as tracked was announced. *)
LEMMA TrackedStep ==
  ASSUME IndInv, [Next]_vars
  PROVE  TrackedWasAnnounced'
<1>. USE DEF IndInv, TypeOK
<1>1. ASSUME NEW w \in Workers, PutStates(w) PROVE TrackedWasAnnounced'
  <2>. SUFFICES ASSUME NEW k \in Kinds \ StateKinds, inEpisode(state'[k])
                PROVE  <<k, state'[k].key>> \in announced'
    BY DEF TrackedWasAnnounced, isTracked
  <2>1. state'[k] = IF writes[w][k] = None THEN state[k] ELSE writes[w][k]
    BY <1>1 DEF PutStates
  <2>2. isRecorded(k, writes[w][k]) /\ isRecorded(k, state[k])
    BY <1>1 DEF PutStates, EverythingRecorded, WillAnnounce, Opens, TrackedWasAnnounced,
                isTracked, isRecorded
  <2>3. QED
    BY <2>1, <2>2, AnnouncedGrows DEF isRecorded
<1>2. ASSUME UNCHANGED state PROVE TrackedWasAnnounced'
  BY <1>2, AnnouncedGrows DEF TrackedWasAnnounced, isTracked
<1>3. QED
  BY ZenonT(60), <1>1, <1>2
     DEF Next, WorkerStep, vars, tables, locals, Tick, Prune, Begin, Fetch, ReadStates,
         SkipKind, Observe, Supersede, Insert, Intensify, Abort

-----------------------------------------------------------------------------
(* KeysAreFresh is inductive.                                              *)

(* Steps that leave the rows alone, and the workers other than w. *)
LEMMA FreshIfRowsKept ==
  ASSUME TypeOK, KeysAreFresh, NEW w \in Workers,
         \A id \in Kinds \X Keys :
           /\ WasPruned(id)' => WasPruned(id)
           /\ signals'[id] # None =>
                signals'[id].detectedAt = openedAt(id),
         clock' = clock,
         \A v \in Workers \ {w} :
           pc'[v] = pc[v] /\ out'[v] = out[v] /\ now'[v] = now[v],
         Opens(w)' => out'[w].key[2] = now'[w],
         pc'[w] # "idle" => now'[w] = clock \/ (pc[w] # "idle" /\ now'[w] = now[w])
  PROVE  KeysAreFresh'
<1>. USE DEF openedAt
<1>1. ASSUME NEW id \in Kinds \X Keys, WasPruned(id)'
      PROVE  openedAt(id) < clock' /\ (pc'[w] = "idle" \/ openedAt(id) < now'[w])
  BY <1>1 DEF KeysAreFresh
<1>2. ASSUME NEW v \in Workers \ {w}
      PROVE  /\ Opens(v)' => out'[v].key[2] = now'[v]
             /\ \A id \in Kinds \X Keys :
                  WasPruned(id)' => pc'[v] = "idle" \/ openedAt(id) < now'[v]
  BY DEF KeysAreFresh, Opens
<1>3. QED
  BY <1>1, <1>2 DEF KeysAreFresh

LEMMA FreshStep ==
  ASSUME IndInv, [Next]_vars
  PROVE  KeysAreFresh'
<1>. USE DEF IndInv, TypeOK
<1>1. ASSUME NEW w \in Workers, Begin(w) PROVE KeysAreFresh'
  <2>1. /\ clock' = clock /\ signals' = signals /\ announced' = announced /\ out' = out
        /\ pc' = [pc EXCEPT ![w] = "fetch"] /\ now' = [now EXCEPT ![w] = clock]
    BY <1>1 DEF Begin, tables
  <2>2. \A id \in Kinds \X Keys :
          /\ WasPruned(id)' => WasPruned(id)
          /\ signals'[id] # None => signals'[id].detectedAt = openedAt(id)
    BY <2>1 DEF WasPruned, KeysAreFresh
  <2>3. ~Opens(w)' /\ now'[w] = clock
    BY <2>1 DEF Opens
  <2>4. \A v \in Workers \ {w} :
          pc'[v] = pc[v] /\ out'[v] = out[v] /\ now'[v] = now[v]
    BY <2>1
  <2>5. QED
    BY <2>1, <2>2, <2>3, <2>4, FreshIfRowsKept
<1>2. ASSUME NEW w \in Workers, Fetch(w) \/ ReadStates(w) \/ SkipKind(w) \/ PutStates(w)
                                \/ Abort(w) \/ Intensify(w)
      PROVE  KeysAreFresh'
  <2>1. clock' = clock /\ announced' = announced /\ now' = now
    BY <1>2 DEF Fetch, ReadStates, SkipKind, PutStates, Abort, Intensify, tables, Forget
  <2>2. \A id \in Kinds \X Keys :
          /\ signals'[id] = None => signals[id] = None
          /\ signals'[id] # None => signals'[id].detectedAt = signals[id].detectedAt
                                    /\ signals[id] # None
    <3>1. CASE signals' = signals
      BY <3>1
    <3>2. CASE Intensify(w)
      <4>. DEFINE own == <<i[w], out[w].key>>
                  new == [signals[own] EXCEPT !.severity = severity(w), !.asOf = asOf[w]]
      <4>1. \/ signals[own] # None /\ signals' = [signals EXCEPT ![own] = new]
            \/ signals' = signals
        BY <3>2 DEF Intensify, Revises
      <4>2. own \in Kinds \X Keys
        BY <3>2 DEF Intensify, ProgramOK
      <4>3. signals[own] # None => new \in SignalRows /\ new.detectedAt = signals[own].detectedAt
        <5>1. severity(w) \in Nat
          BY ValuesAssumption DEF severity, Saturate, Outcomes, StateRows
        <5>2. QED
          BY <4>2, <5>1 DEF SignalRows
      <4>. HIDE DEF own, new
      <4>4. QED
        BY <4>1, <4>2, <4>3, NoneAssumption
    <3>3. QED
      BY <1>2, <3>1, <3>2 DEF Fetch, ReadStates, SkipKind, PutStates, Abort, tables
  <2>3. \A id \in Kinds \X Keys :
          /\ WasPruned(id)' => WasPruned(id)
          /\ signals'[id] # None => signals'[id].detectedAt = openedAt(id)
    BY <2>1, <2>2 DEF WasPruned, KeysAreFresh, openedAt
  <2>4. /\ ~Opens(w)'
        /\ pc'[w] # "idle" => pc[w] # "idle"
        /\ \A v \in Workers \ {w} :
              pc'[v] = pc[v] /\ out'[v] = out[v] /\ now'[v] = now[v]
    BY <1>2 DEF Opens, Fetch, ReadStates, SkipKind, PutStates, Abort, Intensify, tables,
                Forget, NextKind
  <2>5. QED
    BY <2>1, <2>3, <2>4, FreshIfRowsKept
<1>3. ASSUME NEW w \in Workers, NEW o \in Observations(i[w]), NEW t \in BOOLEAN,
             Observe(w, o, t)
      PROVE  KeysAreFresh'
  <2>. DEFINE r == step(Suppress(o, t), snap[w][i[w]], now[w])
              target == IF AdoptSilently(snap[w][i[w]], i[w], r)
                        THEN "loop" ELSE FirstStatement(r)
  <2>1. i[w] \in Kinds /\ pc[w] = "loop"
    BY <1>3, KindsAssumption DEF Observe
  <2>2. /\ Suppress(o, t) \in Readings /\ now[w] \in Times
        /\ snap[w][i[w]] \in StateRows \cup {None}
    BY <2>1, ObservedReading
  <2>3. r.action \in {"open", "reopen"} => r.key[2] = now[w]
    BY <2>2, StepFresh
  <2>4. target = "insert" => r.action = "open"
    BY DEF FirstStatement
  <2>5. /\ clock' = clock /\ signals' = signals /\ announced' = announced /\ now' = now
        /\ pc' = [pc EXCEPT ![w] = target]
        /\ target # "loop" => out' = [out EXCEPT ![w] = r]
        /\ \A v \in Workers \ {w} : out'[v] = out[v]
    BY <1>3 DEF Observe, tables
  <2>. HIDE DEF r, target
  <2>6. \A id \in Kinds \X Keys :
          /\ WasPruned(id)' => WasPruned(id)
          /\ signals'[id] # None => signals'[id].detectedAt = openedAt(id)
    BY <2>5 DEF WasPruned, KeysAreFresh
  <2>7. Opens(w)' => out'[w].key[2] = now'[w]
    BY <2>3, <2>4, <2>5 DEF Opens
  <2>8. \A v \in Workers \ {w} :
          pc'[v] = pc[v] /\ out'[v] = out[v] /\ now'[v] = now[v]
    BY <2>5
  <2>9. QED
    BY <2>1, <2>5, <2>6, <2>7, <2>8, FreshIfRowsKept
<1>4. ASSUME NEW w \in Workers, Supersede(w) PROVE KeysAreFresh'
  <2>1. clock' = clock /\ announced' = announced /\ now' = now /\ pc[w] = "supersede"
    BY <1>4 DEF Supersede
  <2>2. \A id \in Kinds \X Keys :
          /\ signals'[id] = None => signals[id] = None
          /\ signals'[id] # None => signals'[id].detectedAt = signals[id].detectedAt
                                    /\ signals[id] # None
    <3>. DEFINE closed == <<i[w], out[w].closing>>
                new == [signals[closed] EXCEPT !.supersededAt = now[w]]
    <3>1. \/ signals[closed] # None /\ signals' = [signals EXCEPT ![closed] = new]
          \/ signals' = signals
      BY <1>4 DEF Supersede, isOpen
    <3>2. closed \in Kinds \X Keys
      BY <1>4 DEF Supersede, ProgramOK
    <3>3. signals[closed] # None => new \in SignalRows /\ new.detectedAt = signals[closed].detectedAt
      BY <3>2 DEF SignalRows
    <3>. HIDE DEF closed, new
    <3>4. QED
      BY <3>1, <3>2, <3>3, NoneAssumption
  <2>3. \A id \in Kinds \X Keys :
          /\ WasPruned(id)' => WasPruned(id)
          /\ signals'[id] # None => signals'[id].detectedAt = openedAt(id)
    BY <2>1, <2>2 DEF WasPruned, KeysAreFresh, openedAt
  <2>4. Opens(w)' => out'[w].key[2] = now'[w]
    BY <1>4, <2>1 DEF Supersede, NextKind, Opens, KeysAreFresh
  <2>5. \A v \in Workers \ {w} :
          pc'[v] = pc[v] /\ out'[v] = out[v] /\ now'[v] = now[v]
    BY <1>4, <2>1 DEF Supersede, NextKind
  <2>6. QED
    BY <2>1, <2>3, <2>4, <2>5, FreshIfRowsKept
<1>5. ASSUME NEW w \in Workers, Insert(w) PROVE KeysAreFresh'
  <2>. DEFINE own == <<i[w], out[w].key>>
              row == [severity |-> severity(w), detectedAt |-> now[w],
                      asOf |-> asOf[w], supersededAt |-> None]
  <2>1. /\ clock' = clock /\ now' = now /\ pc[w] = "insert"
        /\ pc' = [pc EXCEPT ![w] = "loop"] /\ out' = [out EXCEPT ![w] = NoOutcome]
    BY <1>5 DEF Insert, NextKind
  <2>2. \/ signals' = [signals EXCEPT ![own] = row] /\ announced' = announced \cup {own}
        \/ signals' = signals /\ announced' = announced
    BY <1>5 DEF Insert
  <2>3. own \in Kinds \X Keys /\ openedAt(own) = now[w]
    BY <1>5, <2>1 DEF ProgramOK, KeysAreFresh, Opens, openedAt
  <2>4. row \in SignalRows /\ row.detectedAt = now[w]
    <3>1. severity(w) \in Nat
      BY ValuesAssumption DEF severity, Saturate, Outcomes, StateRows
    <3>2. QED
      BY <3>1 DEF SignalRows
  <2>. HIDE DEF own, row
  <2>5. \A id \in Kinds \X Keys :
          /\ WasPruned(id)' => WasPruned(id)
          /\ signals'[id] # None => signals'[id].detectedAt = openedAt(id)
    BY ZenonT(60), <2>2, <2>3, <2>4, NoneAssumption DEF WasPruned, KeysAreFresh
  <2>6. /\ ~Opens(w)'
        /\ \A v \in Workers \ {w} :
              pc'[v] = pc[v] /\ out'[v] = out[v] /\ now'[v] = now[v]
    BY <2>1 DEF Opens
  <2>7. QED
    BY <2>1, <2>5, <2>6, FreshIfRowsKept
<1>6. CASE Prune
  <2>1. UNCHANGED <<clock, announced, pc, now, out>>
    BY <1>6 DEF Prune, locals
  <2>2. ASSUME NEW id \in Kinds \X Keys
        PROVE  \/ signals'[id] = signals[id]
               \/ /\ signals'[id] = None
                  /\ openedAt(id) < clock - Retention
    BY <1>6 DEF Prune, KeysAreFresh
  <2>3. ASSUME NEW id \in Kinds \X Keys, WasPruned(id)'
        PROVE  /\ openedAt(id) < clock
               /\ \A w \in Workers : pc[w] = "idle" \/ openedAt(id) < now[w]
    <3>1. CASE WasPruned(id)
      BY <3>1 DEF KeysAreFresh
    <3>2. CASE openedAt(id) < clock - Retention
      <4>1. openedAt(id) \in Nat /\ clock \in Nat /\ Retention \in Nat
        BY TimeAssumption DEF openedAt
      <4>2. ASSUME NEW w \in Workers, pc[w] # "idle"
            PROVE  now[w] \in Nat /\ now[w] >= clock - Retention
        BY <1>6, <4>2 DEF Prune
      <4>3. QED
        BY <3>2, <4>1, <4>2
    <3>3. QED
      BY <2>1, <2>2, <2>3, <3>1, <3>2 DEF WasPruned
  <2>4. \A id \in Kinds \X Keys :
          signals'[id] # None => signals'[id].detectedAt = openedAt(id)
    BY <2>2 DEF KeysAreFresh
  <2>5. \A w \in Workers : Opens(w)' => out'[w].key[2] = now'[w]
    BY <2>1 DEF Opens, KeysAreFresh
  <2>6. QED
    BY <2>1, <2>3, <2>4, <2>5 DEF KeysAreFresh, openedAt
<1>7. CASE Tick
  <2>1. UNCHANGED <<signals, announced, pc, now, out>> /\ clock' = clock + 1
    BY <1>7 DEF Tick, tables, locals
  <2>2. \A id \in Kinds \X Keys : openedAt(id) < clock => openedAt(id) < clock + 1
    BY DEF openedAt
  <2>3. QED
    BY <2>1, <2>2 DEF KeysAreFresh, WasPruned, Opens, openedAt
<1>8. CASE UNCHANGED vars
  BY <1>8 DEF vars, tables, locals, KeysAreFresh, WasPruned, Opens, openedAt
<1>9. QED
  BY <1>1, <1>2, <1>3, <1>4, <1>5, <1>6, <1>7, <1>8 DEF Next, WorkerStep

-----------------------------------------------------------------------------
LEMMA InvInit == Init => IndInv
<1>. SUFFICES ASSUME Init PROVE IndInv
  OBVIOUS
<1>1. TypeOK
  BY TypeInit
<1>2. ProgramOK /\ EverythingRecorded /\ TrackedWasAnnounced /\ KeysAreFresh
  BY DEF Init, ProgramOK, EverythingRecorded, TrackedWasAnnounced, isTracked,
         isRecorded, inEpisode, KeysAreFresh, WasPruned, Opens
<1>3. QED
  BY <1>1, <1>2 DEF IndInv

LEMMA InvStep == IndInv /\ [Next]_vars => IndInv'
<1>. SUFFICES ASSUME IndInv, [Next]_vars PROVE IndInv'
  OBVIOUS
<1>1. TypeOK' /\ ProgramOK'
  BY TypeStep, ProgramStep DEF IndInv
<1>2. EverythingRecorded'
  BY RowsStep, LocalsStep DEF IndInv, EverythingRecorded, LocalsRecorded
<1>3. TrackedWasAnnounced' /\ KeysAreFresh'
  BY TrackedStep, FreshStep
<1>4. QED
  BY <1>1, <1>2, <1>3 DEF IndInv

-----------------------------------------------------------------------------
(* Every reachable state satisfies the inductive invariant. *)
THEOREM Invariant == Spec => []IndInv
<1>1. QED
  BY InvInit, InvStep, PTL DEF Spec

(* The tables and the workers' locals always hold values of their types:   *)
(* in particular no statement is issued with a missing episode key.        *)
THEOREM TypeCorrect == Spec => []TypeOK
<1>1. IndInv => TypeOK
  BY DEF IndInv
<1>2. QED
  BY Invariant, <1>1, PTL

(* Whatever interleaving, failed statement or crash: the machine never     *)
(* tracks, and so never silences, an episode that was not announced.       *)
THEOREM NothingSilenced == Spec => []TrackedWasAnnounced
<1>1. IndInv => TrackedWasAnnounced
  BY DEF IndInv
<1>2. QED
  BY Invariant, <1>1, PTL
-----------------------------------------------------------------------------
(* What a step does to the rows a reader has been shown. *)
LEMMA MatureStep ==
  ASSUME IndInv, Next, NEW id \in Kinds \X Keys
  PROVE  RowMatures(id)
<1>. USE DEF IndInv, TypeOK
<1>0. signals[id] # None =>
        /\ signals[id] \in SignalRows
        /\ signals[id].severity \in Nat /\ signals[id].asOf \in Nat
  BY TimeAssumption DEF SignalRows
<1>1. ASSUME signals' = signals PROVE RowMatures(id)
  BY <1>0, <1>1 DEF RowMatures
<1>2. ASSUME NEW w \in Workers, Supersede(w) PROVE RowMatures(id)
  <2>. DEFINE closed == <<i[w], out[w].closing>>
              new == [signals[closed] EXCEPT !.supersededAt = now[w]]
  <2>1. \/ /\ signals[closed] # None /\ signals[closed].supersededAt = None
           /\ signals' = [signals EXCEPT ![closed] = new]
        \/ signals' = signals
    BY <1>2 DEF Supersede, isOpen
  <2>2. closed \in Kinds \X Keys
    BY <1>2 DEF Supersede, ProgramOK
  <2>3. signals[closed] # None =>
          /\ new \in SignalRows
          /\ new.detectedAt = signals[closed].detectedAt
          /\ new.severity = signals[closed].severity
          /\ new.asOf = signals[closed].asOf
    BY <2>2 DEF SignalRows
  <2>. HIDE DEF closed, new
  <2>4. CASE id = closed /\ signals' = [signals EXCEPT ![closed] = new]
    BY <1>0, <2>1, <2>2, <2>3, <2>4, NoneAssumption DEF RowMatures
  <2>5. CASE signals'[id] = signals[id]
    BY <1>0, <2>5 DEF RowMatures
  <2>6. QED
    BY <2>1, <2>2, <2>4, <2>5
<1>3. ASSUME NEW w \in Workers, Insert(w) PROVE RowMatures(id)
  <2>. DEFINE own == <<i[w], out[w].key>>
  <2>1. own \in Kinds \X Keys /\ openedAt(own) = now[w] /\ pc[w] = "insert"
    BY <1>3 DEF Insert, ProgramOK, KeysAreFresh, Opens, openedAt
  <2>2. ~WasPruned(own)
    <3>1. now[w] \in Nat
      OBVIOUS
    <3>2. WasPruned(own) => openedAt(own) < now[w]
      BY <2>1 DEF KeysAreFresh
    <3>3. QED
      BY <2>1, <3>1, <3>2
  <2>3. signals'[id] = signals[id] \/ (id = own /\ signals[own] = None)
    BY <1>3 DEF Insert
  <2>. HIDE DEF own
  <2>4. QED
    BY <1>0, <2>2, <2>3 DEF RowMatures, WasPruned
<1>4. ASSUME NEW w \in Workers, Intensify(w) PROVE RowMatures(id)
  <2>. DEFINE own == <<i[w], out[w].key>>
              new == [signals[own] EXCEPT !.severity = severity(w), !.asOf = asOf[w]]
  <2>1. \/ /\ signals[own] # None /\ signals' = [signals EXCEPT ![own] = new]
           /\ severity(w) > signals[own].severity /\ asOf[w] >= signals[own].asOf
        \/ signals' = signals
    BY <1>4 DEF Intensify, Revises
  <2>2. own \in Kinds \X Keys
    BY <1>4 DEF Intensify, Revises, ProgramOK
  <2>3. severity(w) \in Nat
    BY ValuesAssumption DEF severity, Saturate, Outcomes, StateRows
  <2>4. signals[own] # None =>
          /\ new \in SignalRows
          /\ new.detectedAt = signals[own].detectedAt
          /\ new.supersededAt = signals[own].supersededAt
          /\ new.severity = severity(w) /\ new.asOf = asOf[w]
    BY <2>2, <2>3 DEF SignalRows
  <2>. HIDE DEF own, new
  <2>5. CASE id = own /\ signals' = [signals EXCEPT ![own] = new] /\ signals[own] # None
              /\ severity(w) > signals[own].severity /\ asOf[w] >= signals[own].asOf
    BY <1>0, <2>2, <2>3, <2>4, <2>5, NoneAssumption DEF RowMatures
  <2>6. CASE signals'[id] = signals[id]
    BY <1>0, <2>6 DEF RowMatures
  <2>7. QED
    BY <2>1, <2>2, <2>5, <2>6
<1>5. CASE Prune
  <2>1. signals'[id] = signals[id]
        \/ (signals'[id] = None /\ ~isOpen(id))
    BY <1>5 DEF Prune
  <2>2. QED
    BY <1>0, <2>1 DEF RowMatures, isOpen
<1>6. QED
  BY <1>1, <1>2, <1>3, <1>4, <1>5
     DEF Next, WorkerStep, tables, locals, Tick, Begin, Fetch, ReadStates, SkipKind,
         Observe, PutStates, Abort

(* A row a reader has been shown keeps its place in time, never loses      *)
(* severity, is superseded at most once, and once gone stays gone.         *)
THEOREM ShownRowsMature == Spec => RowsMature
<1>1. IndInv /\ [Next]_vars => [\A id \in Kinds \X Keys : RowMatures(id)]_vars
  BY MatureStep
<1>2. QED
  BY Invariant, <1>1, PTL DEF Spec, RowsMature
-----------------------------------------------------------------------------
HIDE DEF Kinds, Keys, Times

(* One worker: cycles of the symbol run one after another.                 *)

(* The serial engine is the engine: what holds of any interleaving holds.  *)
LEMMA SerialStep == [SNext]_svars => [Next]_vars
BY DEF SNext, SObserve, SInsert, SOther, Next, WorkerStep, svars

LEMMA SerialIndInv == SSpec => []IndInv
<1>1. SInit => Init
  BY DEF SInit
<1>2. QED
  BY <1>1, SerialStep, InvInit, InvStep, PTL DEF SSpec

-----------------------------------------------------------------------------
(* What each kind of statement does to the set of open rows.               *)

LEMMA OpenKept ==
  ASSUME NEW k \in Kinds, \A id \in Kinds \X Keys : isOpen(id)' <=> isOpen(id)
  PROVE  OpenRows(k)' = OpenRows(k)
BY DEF OpenRows

LEMMA OpenSameTable ==
  ASSUME NEW k \in Kinds, signals' = signals
  PROVE  OpenRows(k)' = OpenRows(k)
BY DEF OpenRows, isOpen

(* Intensify and prune touch no row's being open. *)
LEMMA OpenIntensify ==
  ASSUME IndInv, NEW w \in Workers, Intensify(w), NEW k \in Kinds
  PROVE  OpenRows(k)' = OpenRows(k)
<1>. USE DEF IndInv, TypeOK
<1>. DEFINE own == <<i[w], out[w].key>>
            new == [signals[own] EXCEPT !.severity = severity(w), !.asOf = asOf[w]]
<1>1. \/ signals[own] # None /\ signals' = [signals EXCEPT ![own] = new]
      \/ signals' = signals
  BY DEF Intensify, Revises
<1>2. own \in Kinds \X Keys
  BY DEF Intensify, ProgramOK
<1>3. signals[own] # None => new \in SignalRows /\ new.supersededAt = signals[own].supersededAt
  <2>1. severity(w) \in Nat
    BY ValuesAssumption DEF severity, Saturate, Outcomes, StateRows
  <2>2. QED
    BY <1>2, <2>1 DEF SignalRows
<1>. HIDE DEF own, new
<1>4. \A id \in Kinds \X Keys : isOpen(id)' <=> isOpen(id)
  BY <1>1, <1>2, <1>3, NoneAssumption DEF isOpen
<1>5. QED
  BY <1>4, OpenKept

LEMMA OpenPrune ==
  ASSUME Prune, NEW k \in Kinds
  PROVE  OpenRows(k)' = OpenRows(k)
<1>1. \A id \in Kinds \X Keys : isOpen(id)' <=> isOpen(id)
  BY DEF Prune, isOpen
<1>2. QED
  BY <1>1, OpenKept

(* Supersede takes the row it names out of the open ones. *)
LEMMA OpenSupersede ==
  ASSUME IndInv, NEW w \in Workers, Supersede(w), NEW k \in Kinds
  PROVE  OpenRows(k)' = OpenRows(k) \ {<<i[w], out[w].closing>>}
<1>. USE DEF IndInv, TypeOK
<1>. DEFINE closed == <<i[w], out[w].closing>>
            new == [signals[closed] EXCEPT !.supersededAt = now[w]]
<1>1. \/ isOpen(closed) /\ signals' = [signals EXCEPT ![closed] = new]
      \/ ~isOpen(closed) /\ signals' = signals
  BY DEF Supersede
<1>2. closed \in Kinds \X Keys
  BY DEF Supersede, ProgramOK
<1>3. isOpen(closed) => new \in SignalRows /\ new.supersededAt # None
  <2>1. now[w] \in Times /\ now[w] # None
    BY AbsentAssumption
  <2>2. QED
    BY <1>2, <2>1 DEF SignalRows, isOpen
<1>. HIDE DEF closed, new
<1>4. \A id \in Kinds \X Keys : isOpen(id)' <=> isOpen(id) /\ id # closed
  BY <1>1, <1>2, <1>3, NoneAssumption DEF isOpen
<1>5. QED
  BY <1>4 DEF OpenRows, closed

(* The insert of an absent row adds it to the open ones. *)
LEMMA OpenInsert ==
  ASSUME IndInv, NEW w \in Workers, Insert(w), signals[<<i[w], out[w].key>>] = None,
         NEW k \in Kinds
  PROVE  OpenRows(k)' = IF k = i[w] THEN OpenRows(k) \cup {<<i[w], out[w].key>>}
                                    ELSE OpenRows(k)
<1>. USE DEF IndInv, TypeOK
<1>. DEFINE own == <<i[w], out[w].key>>
            row == [severity |-> severity(w), detectedAt |-> now[w],
                    asOf |-> asOf[w], supersededAt |-> None]
<1>1. signals' = [signals EXCEPT ![own] = row]
  BY DEF Insert
<1>2. own \in Kinds \X Keys
  BY DEF Insert, ProgramOK
<1>3. row \in SignalRows /\ row.supersededAt = None
  <2>1. severity(w) \in Nat
    BY ValuesAssumption DEF severity, Saturate, Outcomes, StateRows
  <2>2. QED
    BY <2>1 DEF SignalRows
<1>4. own[1] = i[w]
  OBVIOUS
<1>. HIDE DEF own, row
<1>5. \A id \in Kinds \X Keys : isOpen(id)' <=> isOpen(id) \/ id = own
  BY <1>1, <1>2, <1>3, NoneAssumption DEF isOpen
<1>6. QED
  BY <1>2, <1>4, <1>5 DEF OpenRows, own

-----------------------------------------------------------------------------
(* The five things a reading can mean to the machine, and what apply()     *)
(* then does first.                                                        *)
StaysOut(o, prior, r) ==
  ~inEpisode(prior) /\ ~inEpisode(r.state) /\ FirstStatement(r) = "loop" /\ r.action = "idle"
StartsNew(o, prior, r) ==
  /\ ~inEpisode(prior) /\ r.action = "open" /\ FirstStatement(r) = "insert"
  /\ r.state.key = r.key /\ discriminatorOf(r.key) = o.disc /\ inEpisode(r.state)
Restarts(o, prior, r) ==
  /\ inEpisode(prior) /\ discriminatorOf(prior.key) # o.disc
  /\ r.action = "reopen" /\ FirstStatement(r) = "supersede" /\ r.closing = prior.key
  /\ r.state.key = r.key /\ discriminatorOf(r.key) = o.disc /\ inEpisode(r.state)
Ends(o, prior, r) ==
  /\ inEpisode(prior) /\ (discriminatorOf(prior.key) # o.disc \/ o.value < Exit[o.kind])
  /\ r.action = "close" /\ FirstStatement(r) = "supersede" /\ r.closing = prior.key
  /\ ~inEpisode(r.state)
GoesOn(o, prior, r) ==
  /\ inEpisode(prior) /\ discriminatorOf(prior.key) = o.disc /\ ~(o.value < Exit[o.kind])
  /\ r.action \in {"intensify", "continue"} /\ FirstStatement(r) \in {"intensify", "loop"}
  /\ r.state.key = prior.key /\ inEpisode(r.state)

LEMMA StepMeaning ==
  ASSUME NEW o \in Readings, NEW prior \in StateRows \cup {None}, NEW t \in Times,
         NEW r, r = step(o, prior, t)
  PROVE  \/ StaysOut(o, prior, r) \/ StartsNew(o, prior, r) \/ Restarts(o, prior, r)
         \/ Ends(o, prior, r) \/ GoesOn(o, prior, r)
<1>0. r \in Outcomes
  BY StepType
<1>1. r.state # None
  BY <1>0, AbsentAssumption DEF Outcomes
<1>2. makeEpisodeKey(o.disc, t) # None /\ discriminatorOf(makeEpisodeKey(o.disc, t)) = o.disc
  BY NoneAssumption DEF makeEpisodeKey, discriminatorOf, Readings, Keys
<1>3. inEpisode(prior) => prior.key # None
  BY DEF inEpisode
<1>4. CASE ~inEpisode(prior)
  <2>1. CASE o.value < Enter[o.kind]
    <3>1. r = Outcome("idle", None, None, Quiet)
      BY <1>4, <2>1 DEF step, StepOutside
    <3>2. QED
      BY <1>4, <3>1 DEF Outcome, Quiet, StaysOut, inEpisode, FirstStatement
  <2>2. CASE ~(o.value < Enter[o.kind])
    <3>1. r = Outcome("open", makeEpisodeKey(o.disc, t), None, Opened(o, t))
      BY <1>4, <2>2 DEF step, StepOutside
    <3>2. QED
      BY <1>1, <1>2, <1>4, <3>1 DEF Outcome, Opened, StartsNew, inEpisode, FirstStatement
  <2>3. QED
    BY <2>1, <2>2
<1>5. CASE inEpisode(prior) /\ discriminatorOf(prior.key) # o.disc
  <2>1. CASE o.value >= Enter[o.kind]
    <3>1. r = Outcome("reopen", makeEpisodeKey(o.disc, t), prior.key, Opened(o, t))
      BY <1>5, <2>1 DEF step, StepChanged
    <3>2. QED
      BY <1>1, <1>2, <1>3, <1>5, <3>1 DEF Outcome, Opened, Restarts, inEpisode, FirstStatement
  <2>2. CASE ~(o.value >= Enter[o.kind])
    <3>1. r = Outcome("close", prior.key, prior.key, Quiet)
      BY <1>5, <2>2 DEF step, StepChanged
    <3>2. QED
      BY <1>3, <1>5, <3>1 DEF Outcome, Quiet, Ends, inEpisode, FirstStatement
  <2>3. QED
    BY <2>1, <2>2
<1>6. CASE inEpisode(prior) /\ discriminatorOf(prior.key) = o.disc
  <2>1. CASE o.value < Exit[o.kind]
    <3>1. r = Outcome("close", prior.key, prior.key, Quiet)
      BY <1>6, <2>1 DEF step, StepInside
    <3>2. QED
      BY <1>3, <1>6, <2>1, <3>1 DEF Outcome, Quiet, Ends, inEpisode, FirstStatement
  <2>2. CASE ~(o.value < Exit[o.kind])
    <3>1. /\ r.action \in {"intensify", "continue"}
          /\ r.closing = None /\ r.state.key = prior.key
      BY <1>6, <2>2 DEF step, StepInside, Outcome
    <3>2. FirstStatement(r) \in {"intensify", "loop"} /\ inEpisode(r.state)
      BY <1>1, <1>3, <1>6, <3>1 DEF FirstStatement, inEpisode
    <3>3. QED
      BY <1>6, <2>2, <3>1, <3>2 DEF GoesOn
  <2>3. QED
    BY <2>1, <2>2
<1>7. QED
  BY <1>4, <1>5, <1>6

-----------------------------------------------------------------------------
(* Kinds a step does not concern. *)
LEMMA KindKept ==
  ASSUME NEW w \in Workers, NEW k \in Kinds, KindOK(w, k),
         OpenRows(k)' = OpenRows(k), wasAnnounced(k)' <=> wasAnnounced(k),
         state'[k] = state[k], writes'[w][k] = writes[w][k], snap'[w][k] = snap[w][k],
         ended'[k] = ended[k], Ahead(w, k)' => Ahead(w, k), Started(w)' => Started(w),
         ~Rewriting(w, k), ~Rewriting(w, k)'
  PROVE  KindOK(w, k)'
<1>1. effective(w, k)' = effective(w, k)
  BY DEF effective
<1>2. rowAgrees(k, effective(w, k))' <=> rowAgrees(k, effective(w, k))
  BY <1>1 DEF rowAgrees
<1>3. Adopted(w, k)' <=> Adopted(w, k)
  BY DEF Adopted
<1>4. Ahead(w, k)' => Untouched(w, k)'
  BY DEF KindOK, Untouched
<1>5. QED
  BY <1>1, <1>2, <1>3, <1>4 DEF KindOK

-----------------------------------------------------------------------------
(* The steps of a cycle, one lemma per action.                             *)
LEMMA CycleTypes ==
  ASSUME IndInv, NEW w \in Workers
  PROVE  /\ NumKinds \in Nat /\ i[w] \in Nat /\ i[w] <= NumKinds + 1
         /\ now[w] \in Nat /\ clock \in Nat
         /\ \A k \in Kinds : k \in Nat
         /\ \A id \in announced : id[1] \in Kinds /\ id[2] \in Keys /\ openedAt(id) \in Nat
BY KindsAssumption, TimeAssumption DEF IndInv, TypeOK, Kinds, Times, Keys, openedAt

LEMMA SerialBegin ==
  ASSUME IndInv, NEW w \in Workers, WorkerInv(w), Begin(w), ended' = ended
  PROVE  WorkerInv(w)'
<1>1. /\ pc[w] = "idle" /\ pc'[w] = "fetch" /\ now[w] < clock /\ now'[w] = clock
      /\ i' = i /\ snap' = snap /\ writes' = writes
      /\ state' = state /\ signals' = signals /\ announced' = announced
  BY DEF Begin, tables, IndInv, TypeOK
<1>2. Stamped(w)'
  BY <1>1, CycleTypes DEF WorkerInv, Stamped
<1>3. ASSUME NEW k \in Kinds PROVE KindOK(w, k)'
  <2>1. OpenRows(k)' = OpenRows(k) /\ (wasAnnounced(k)' <=> wasAnnounced(k))
    BY <1>1, OpenSameTable DEF wasAnnounced
  <2>2. (Ahead(w, k)' => Ahead(w, k)) /\ (Started(w)' => Started(w))
        /\ ~Rewriting(w, k) /\ ~Rewriting(w, k)'
    BY <1>1 DEF Ahead, Started, Rewriting
  <2>3. KindOK(w, k)
    BY DEF WorkerInv
  <2>4. QED
    BY <1>1, <2>1, <2>2, <2>3, KindKept
<1>4. i'[w] = 1
  BY <1>1 DEF WorkerInv, Started
<1>5. QED
  BY <1>2, <1>3, <1>4 DEF WorkerInv

LEMMA SerialFetch ==
  ASSUME IndInv, NEW w \in Workers, WorkerInv(w), Fetch(w), ended' = ended
  PROVE  WorkerInv(w)'
<1>1. /\ pc[w] = "fetch" /\ pc'[w] = "read" /\ now' = now
      /\ i' = i /\ snap' = snap /\ writes' = writes
      /\ state' = state /\ signals' = signals /\ announced' = announced
  BY DEF Fetch, tables, IndInv, TypeOK
<1>2. Stamped(w)'
  BY <1>1 DEF WorkerInv, Stamped
<1>3. ASSUME NEW k \in Kinds PROVE KindOK(w, k)'
  <2>1. OpenRows(k)' = OpenRows(k) /\ (wasAnnounced(k)' <=> wasAnnounced(k))
    BY <1>1, OpenSameTable DEF wasAnnounced
  <2>2. (Ahead(w, k)' => Ahead(w, k)) /\ (Started(w)' => Started(w))
        /\ ~Rewriting(w, k) /\ ~Rewriting(w, k)'
    BY <1>1 DEF Ahead, Started, Rewriting
  <2>3. KindOK(w, k)
    BY DEF WorkerInv
  <2>4. QED
    BY <1>1, <2>1, <2>2, <2>3, KindKept
<1>4. i'[w] = 1
  BY <1>1 DEF WorkerInv, Started
<1>5. QED
  BY <1>2, <1>3, <1>4 DEF WorkerInv

LEMMA SerialRead ==
  ASSUME IndInv, NEW w \in Workers, WorkerInv(w), ReadStates(w), ended' = ended
  PROVE  WorkerInv(w)'
<1>1. /\ pc[w] = "read" /\ pc'[w] = "loop" /\ now' = now
      /\ i' = i /\ snap'[w] = state /\ writes' = writes
      /\ state' = state /\ signals' = signals /\ announced' = announced
  BY DEF ReadStates, tables, IndInv, TypeOK
<1>2. Stamped(w)' /\ Started(w)'
  BY <1>1 DEF WorkerInv, Stamped, Started
<1>3. ASSUME NEW k \in Kinds PROVE KindOK(w, k)'
  <2>1. OpenRows(k)' = OpenRows(k) /\ (wasAnnounced(k)' <=> wasAnnounced(k))
        /\ effective(w, k)' = effective(w, k)
    BY <1>1, OpenSameTable DEF wasAnnounced, effective
  <2>2. (Ahead(w, k)' <=> Ahead(w, k)) /\ ~Rewriting(w, k) /\ ~Rewriting(w, k)'
    BY <1>1 DEF Ahead, Rewriting
  <2>3. KindOK(w, k)
    BY DEF WorkerInv
  <2>4. Ahead(w, k)' => Untouched(w, k)'
    BY <1>1, <2>2, <2>3 DEF KindOK, Untouched
  <2>5. rowAgrees(k, effective(w, k))' /\ Adopted(w, k)'
    BY <1>1, <2>1, <2>2, <2>3 DEF KindOK, rowAgrees, Adopted
  <2>6. QED
    BY <1>1, <2>1, <2>2, <2>3, <2>4, <2>5 DEF KindOK
<1>4. QED
  BY <1>2, <1>3 DEF WorkerInv

LEMMA SerialSkip ==
  ASSUME IndInv, NEW w \in Workers, WorkerInv(w), SkipKind(w), ended' = ended
  PROVE  WorkerInv(w)'
<1>1. /\ pc[w] = "loop" /\ pc' = pc /\ now' = now
      /\ i'[w] = i[w] + 1 /\ snap' = snap /\ writes' = writes
      /\ state' = state /\ signals' = signals /\ announced' = announced
  BY DEF SkipKind, tables, IndInv, TypeOK
<1>2. Stamped(w)' /\ Started(w)'
  BY <1>1, CycleTypes DEF WorkerInv, Stamped, Started
<1>3. ASSUME NEW k \in Kinds PROVE KindOK(w, k)'
  <2>1. OpenRows(k)' = OpenRows(k) /\ (wasAnnounced(k)' <=> wasAnnounced(k))
    BY <1>1, OpenSameTable DEF wasAnnounced
  <2>2. (Ahead(w, k)' => Ahead(w, k)) /\ (Started(w)' => Started(w))
        /\ ~Rewriting(w, k) /\ ~Rewriting(w, k)'
    BY <1>1, CycleTypes DEF Ahead, Started, Rewriting
  <2>3. KindOK(w, k)
    BY DEF WorkerInv
  <2>4. QED
    BY <1>1, <2>1, <2>2, <2>3, KindKept
<1>4. QED
  BY <1>2, <1>3 DEF WorkerInv

(* The upsert of the pending rows: what was going to count, counts. *)
LEMMA SerialPut ==
  ASSUME IndInv, NEW w \in Workers, WorkerInv(w), PutStates(w), ended' = ended
  PROVE  WorkerInv(w)'
<1>1. /\ pc[w] = "loop" /\ pc'[w] = "idle" /\ now' = now /\ i'[w] = 1
      /\ signals' = signals /\ announced' = announced
      /\ \A k \in Kinds : writes'[w][k] = None
      /\ \A k \in Kinds : state'[k] = effective(w, k)
  BY DEF PutStates, Forget, IndInv, TypeOK, effective
<1>2. Stamped(w)'
  BY <1>1 DEF WorkerInv, Stamped
<1>3. ASSUME NEW k \in Kinds PROVE KindOK(w, k)'
  <2>1. OpenRows(k)' = OpenRows(k) /\ (wasAnnounced(k)' <=> wasAnnounced(k))
        /\ effective(w, k)' = effective(w, k)
    BY <1>1, OpenSameTable DEF wasAnnounced, effective
  <2>2. ~Rewriting(w, k) /\ ~Rewriting(w, k)' /\ Untouched(w, k)' /\ Adopted(w, k)'
    BY <1>1 DEF Rewriting, Untouched, Started, Adopted
  <2>3. KindOK(w, k)
    BY DEF WorkerInv
  <2>4. rowAgrees(k, effective(w, k))'
    BY <2>1, <2>2, <2>3 DEF KindOK, rowAgrees
  <2>5. QED
    BY <2>1, <2>2, <2>3, <2>4 DEF KindOK
<1>4. QED
  BY <1>1, <1>2, <1>3 DEF WorkerInv

LEMMA SerialIntensify ==
  ASSUME IndInv, NEW w \in Workers, WorkerInv(w), Intensify(w), ended' = ended
  PROVE  WorkerInv(w)'
<1>1. /\ pc[w] = "intensify" /\ pc'[w] = "loop" /\ now' = now
      /\ i'[w] = i[w] + 1 /\ snap' = snap /\ writes' = writes
      /\ state' = state /\ announced' = announced
  BY DEF Intensify, NextKind, IndInv, TypeOK
<1>2. Stamped(w)' /\ Started(w)'
  BY <1>1, CycleTypes DEF WorkerInv, Stamped, Started
<1>3. ASSUME NEW k \in Kinds PROVE KindOK(w, k)'
  <2>1. OpenRows(k)' = OpenRows(k) /\ (wasAnnounced(k)' <=> wasAnnounced(k))
    <3>1. OpenRows(k)' = OpenRows(k)
      BY OpenIntensify
    <3>2. QED
      BY <1>1, <3>1 DEF wasAnnounced
  <2>2. (Ahead(w, k)' => Ahead(w, k)) /\ (Started(w)' => Started(w))
        /\ ~Rewriting(w, k) /\ ~Rewriting(w, k)'
    BY <1>1, CycleTypes DEF Ahead, Started, Rewriting
  <2>3. KindOK(w, k)
    BY DEF WorkerInv
  <2>4. QED
    BY <1>1, <2>1, <2>2, <2>3, KindKept
<1>4. QED
  BY <1>2, <1>3 DEF WorkerInv

(* After the close nothing of the kind is open. *)
LEMMA SerialSupersede ==
  ASSUME IndInv, NEW w \in Workers, WorkerInv(w), Supersede(w), ended' = ended
  PROVE  WorkerInv(w)'
<1>0. i[w] \in Kinds
  BY DEF Supersede, IndInv, ProgramOK
<1>1. PICK own \in Kinds : own = i[w]
  BY <1>0
<1>2. /\ pc[w] = "supersede" /\ now' = now /\ snap' = snap /\ writes' = writes
      /\ state' = state /\ announced' = announced
      /\ \/ out[w].action = "reopen" /\ pc'[w] = "insert" /\ i' = i /\ out' = out
         \/ out[w].action # "reopen" /\ pc'[w] = "loop" /\ i'[w] = i[w] + 1
  BY DEF Supersede, NextKind, IndInv, TypeOK
<1>3. KindOK(w, own) /\ Rewriting(w, own)
  BY <1>1, <1>2 DEF WorkerInv, Rewriting
<1>4. MidApply(w, own)
  BY <1>3 DEF KindOK
<1>5. Stamped(w)' /\ Started(w)'
  BY <1>2, CycleTypes DEF WorkerInv, Stamped, Started
<1>6. ASSUME NEW k \in Kinds, k # own PROVE KindOK(w, k)'
  <2>1. OpenRows(k)' = OpenRows(k) /\ (wasAnnounced(k)' <=> wasAnnounced(k))
    <3>1. <<i[w], out[w].closing>> \notin OpenRows(k)
      BY <1>1, <1>6 DEF OpenRows
    <3>2. OpenRows(k)' = OpenRows(k) \ {<<i[w], out[w].closing>>}
      BY OpenSupersede
    <3>3. OpenRows(k)' = OpenRows(k)
      BY <3>1, <3>2
    <3>4. QED
      BY <1>2, <3>3 DEF wasAnnounced
  <2>2. (Ahead(w, k)' => Ahead(w, k)) /\ (Started(w)' => Started(w))
        /\ ~Rewriting(w, k) /\ ~Rewriting(w, k)'
    BY <1>1, <1>2, <1>6, CycleTypes DEF Ahead, Started, Rewriting
  <2>3. KindOK(w, k)
    BY DEF WorkerInv
  <2>4. QED
    BY <1>2, <2>1, <2>2, <2>3, KindKept
<1>7. KindOK(w, own)'
  <2>1. OpenRows(own)' = {}
    <3>1. OpenRows(own)' = OpenRows(own) \ {<<own, state[own].key>>}
      BY <1>1, <1>2, <1>4, OpenSupersede DEF MidApply
    <3>2. OpenRows(own) = {<<own, state[own].key>>} \/ OpenRows(own) = {}
      BY <1>2, <1>4 DEF MidApply, rowAgrees
    <3>3. QED
      BY <3>1, <3>2
  <2>2. (wasAnnounced(own)' <=> wasAnnounced(own)) /\ effective(w, own)' = effective(w, own)
        /\ effective(w, own) = writes[w][own]
    BY <1>2, <1>4 DEF wasAnnounced, effective, MidApply
  <2>3. ~Ahead(w, own)'
    BY <1>1, <1>2, CycleTypes DEF Ahead
  <2>4. CASE out[w].action = "reopen"
    <3>1. Rewriting(w, own)'
      BY <1>1, <1>2, <2>4 DEF Rewriting
    <3>2. MidApply(w, own)'
      BY <1>2, <1>4, <2>1, <2>4 DEF MidApply, MayAnnounce
    <3>3. QED
      BY <1>3, <2>2, <2>3, <3>1, <3>2 DEF KindOK
  <2>5. CASE out[w].action # "reopen"
    <3>1. ~Rewriting(w, own)'
      BY <1>1, <1>2, <2>5, CycleTypes DEF Rewriting
    <3>2. ~inEpisode(writes[w][own])
      BY <1>2, <1>4, <2>5 DEF MidApply
    <3>3. rowAgrees(own, effective(w, own))' /\ Adopted(w, own)'
      BY <1>2, <2>1, <2>2, <3>2 DEF rowAgrees, Adopted
    <3>4. QED
      BY <1>3, <2>2, <2>3, <3>1, <3>3 DEF KindOK
  <2>6. QED
    BY <2>4, <2>5
<1>8. QED
  BY <1>5, <1>6, <1>7 DEF WorkerInv

(* The key of the outcome is new, so the insert takes effect. *)
LEMMA InsertIsNew ==
  ASSUME IndInv, NEW w \in Workers, WorkerInv(w), Insert(w)
  PROVE  /\ i[w] \in Kinds /\ out[w].key \in Keys
         /\ <<i[w], out[w].key>> \notin announced
         /\ signals[<<i[w], out[w].key>>] = None
         /\ openedAt(<<i[w], out[w].key>>) = now[w]
<1>. DEFINE own == <<i[w], out[w].key>>
<1>1. i[w] \in Kinds /\ out[w].key \in Keys /\ pc[w] = "insert"
  BY DEF IndInv, ProgramOK, Insert
<1>2. openedAt(own) = now[w]
  BY <1>1 DEF IndInv, KeysAreFresh, Opens, openedAt
<1>3. own \notin announced
  BY <1>1, <1>2, CycleTypes DEF WorkerInv, Stamped
<1>4. signals[own] = None
  BY <1>1, <1>3 DEF IndInv, EverythingRecorded
<1>5. QED
  BY <1>1, <1>2, <1>3, <1>4

LEMMA SerialInsert ==
  ASSUME IndInv, NEW w \in Workers, WorkerInv(w), SInsert(w),
         ended \in [Kinds -> SUBSET Discs]
  PROVE  WorkerInv(w)'
<1>0. /\ i[w] \in Kinds /\ out[w].key \in Keys
      /\ <<i[w], out[w].key>> \notin announced /\ signals[<<i[w], out[w].key>>] = None
      /\ openedAt(<<i[w], out[w].key>>) = now[w]
  BY InsertIsNew DEF SInsert
<1>1. PICK own \in Kinds, key \in Keys : own = i[w] /\ key = out[w].key
  BY <1>0
<1>. DEFINE id == <<own, key>>
<1>2. /\ pc[w] = "insert" /\ pc'[w] = "loop" /\ now' = now /\ i'[w] = i[w] + 1
      /\ snap' = snap /\ writes' = writes /\ state' = state
  BY DEF SInsert, Insert, NextKind, IndInv, TypeOK
<1>3. announced' = announced \cup {id}
  BY <1>0, <1>1 DEF SInsert, Insert
<1>4. KindOK(w, own) /\ Rewriting(w, own)
  BY <1>1, <1>2 DEF WorkerInv, Rewriting
<1>5. MidApply(w, own) /\ MayAnnounce(w, own) /\ OpenRows(own) = {}
  BY <1>2, <1>4 DEF KindOK, MidApply
<1>6. /\ \A k \in Kinds \ {own} : ended'[k] = ended[k]
      /\ ended'[own] = ended[own] \ {discriminatorOf(key)}
  <2>1. announced' \ announced = {id}
    BY <1>0, <1>1, <1>3
  <2>2. \A k \in Kinds : {x \in {id} : x[1] = k} = IF k = own THEN {id} ELSE {}
    OBVIOUS
  <2>3. ended' = [k \in Kinds |-> ended[k] \
                   {discriminatorOf(x[2]) : x \in {y \in {id} : y[1] = k}}]
    BY <2>1 DEF SInsert
  <2>4. {discriminatorOf(x[2]) : x \in {id}} = {discriminatorOf(key)}
    OBVIOUS
  <2>5. {discriminatorOf(x[2]) : x \in {}} = {}
    OBVIOUS
  <2>6. ended'[own] = ended[own] \ {discriminatorOf(key)}
    BY <1>1, <2>2, <2>3, <2>4
  <2>7. ASSUME NEW k \in Kinds \ {own} PROVE ended'[k] = ended[k]
    <3>1. {y \in {id} : y[1] = k} = {}
      BY <2>2
    <3>2. ended'[k] = ended[k] \ {discriminatorOf(x[2]) : x \in {y \in {id} : y[1] = k}}
      BY <2>3
    <3>3. QED
      BY <2>5, <3>1, <3>2
  <2>8. QED
    BY <2>6, <2>7
<1>7. Stamped(w)' /\ Started(w)'
  <2>1. Started(w)'
    BY <1>2 DEF Started
  <2>2. ASSUME NEW x \in announced'
        PROVE  openedAt(x) <= now[w] /\ (openedAt(x) = now[w] => x[1] < own + 1)
    <3>1. CASE x \in announced
      <4>1. openedAt(x) <= now[w] /\ (openedAt(x) = now[w] => x[1] < i[w])
        BY <1>2, <3>1 DEF WorkerInv, Stamped
      <4>2. x[1] \in Nat /\ i[w] \in Nat
        BY <3>1, CycleTypes
      <4>3. QED
        BY <1>1, <4>1, <4>2
    <3>2. CASE x = id
      BY <1>0, <1>1, <3>2, CycleTypes
    <3>3. QED
      BY <1>3, <3>1, <3>2
  <2>3. QED
    BY <1>1, <1>2, <2>1, <2>2 DEF Stamped, openedAt
<1>8. ASSUME NEW k \in Kinds, k # own PROVE KindOK(w, k)'
  <2>1. OpenRows(k)' = OpenRows(k)
    BY <1>0, <1>1, <1>8, OpenInsert DEF SInsert
  <2>2. wasAnnounced(k)' <=> wasAnnounced(k)
    BY <1>3, <1>8 DEF wasAnnounced
  <2>3. (Ahead(w, k)' => Ahead(w, k)) /\ (Started(w)' => Started(w))
        /\ ~Rewriting(w, k) /\ ~Rewriting(w, k)'
    BY <1>1, <1>2, <1>8, CycleTypes DEF Ahead, Started, Rewriting
  <2>4. KindOK(w, k)
    BY DEF WorkerInv
  <2>5. QED
    BY <1>2, <1>6, <1>8, <2>1, <2>2, <2>3, <2>4, KindKept
<1>9. KindOK(w, own)'
  <2>1. OpenRows(own)' = {id}
    BY <1>0, <1>1, <1>5, OpenInsert DEF SInsert
  <2>2. /\ effective(w, own)' = writes[w][own] /\ writes[w][own] # None
        /\ writes[w][own].key = key /\ inEpisode(writes[w][own])
    <3>1. writes[w][own] # None /\ writes[w][own].key = key
      BY <1>1, <1>5 DEF MidApply, MayAnnounce
    <3>2. key # None
      BY NoneAssumption
    <3>3. QED
      BY <1>2, <3>1, <3>2 DEF effective, inEpisode
  <2>3. ~Ahead(w, own)' /\ ~Rewriting(w, own)'
    BY <1>1, <1>2, CycleTypes DEF Ahead, Rewriting
  <2>4. \A d \in Discs \ ended'[own] : discriminatorOf(writes[w][own].key) = d
    BY <1>5, <1>6, <2>2 DEF MayAnnounce
  <2>5. rowAgrees(own, writes[w][own])' /\ Adopted(w, own)'
    BY <1>2, <2>1, <2>2 DEF rowAgrees, Adopted
  <2>6. rowAgrees(own, effective(w, own))'
    BY <1>2, <2>1, <2>2 DEF rowAgrees
  <2>7. QED
    BY <2>2, <2>3, <2>4, <2>5, <2>6 DEF KindOK
<1>10. QED
  BY <1>7, <1>8, <1>9 DEF WorkerInv

(* A reading of the loop: whatever the machine answers, the row it leaves  *)
(* pending is the one the table agrees with, now or after apply().         *)
LEMMA SerialObserve ==
  ASSUME IndInv, NEW w \in Workers, WorkerInv(w), ended \in [Kinds -> SUBSET Discs],
         NEW o \in Observations(i[w]), NEW trusted \in BOOLEAN, SObserve(w, o, trusted)
  PROVE  WorkerInv(w)'
<1>0. i[w] \in Kinds
  BY KindsAssumption DEF SObserve, Observe, IndInv, TypeOK, Kinds
<1>1. PICK own \in Kinds : own = i[w]
  BY <1>0
<1>2. PICK reading \in Readings : reading = Suppress(o, trusted)
  BY <1>1, ObservedReading
<1>3. reading.kind = own
  BY <1>1, <1>2 DEF Suppress, Observations
<1>4. KindOK(w, own) /\ Ahead(w, own) /\ ~Rewriting(w, own) /\ Started(w)
  BY <1>1 DEF WorkerInv, SObserve, Observe, Ahead, Rewriting, Started
<1>5. writes[w][own] = None /\ snap[w][own] = state[own] /\ effective(w, own) = state[own]
  BY <1>4 DEF KindOK, Untouched, effective
<1>6. PICK prior \in StateRows \cup {None} : prior = state[own]
  BY DEF IndInv, TypeOK
<1>7. PICK r \in Outcomes : r = step(reading, prior, now[w])
  <2>1. now[w] \in Times
    BY DEF IndInv, TypeOK
  <2>2. QED
    BY <2>1, StepType
<1>8. \/ StaysOut(reading, prior, r) \/ StartsNew(reading, prior, r)
      \/ Restarts(reading, prior, r) \/ Ends(reading, prior, r) \/ GoesOn(reading, prior, r)
  <2>1. now[w] \in Times
    BY DEF IndInv, TypeOK
  <2>2. QED
    BY <1>7, <2>1, StepMeaning
<1>9. PICK target : target = IF AdoptSilently(prior, own, r) THEN "loop" ELSE FirstStatement(r)
  OBVIOUS
<1>10. /\ pc[w] = "loop" /\ now' = now /\ pc'[w] = target
       /\ writes'[w][own] = r.state
       /\ \A k \in Kinds \ {own} : writes'[w][k] = writes[w][k] /\ snap'[w][k] = snap[w][k]
       /\ IF target = "loop" THEN i'[w] = own + 1 ELSE i'[w] = own /\ out'[w] = r
       /\ state' = state /\ signals' = signals /\ announced' = announced
       /\ ended'[own] = ended[own] \cup EndedBy(reading)
       /\ \A k \in Kinds \ {own} : ended'[k] = ended[k]
  <2>1. step(Suppress(o, trusted), snap[w][i[w]], now[w]) = r
    BY <1>1, <1>2, <1>5, <1>6, <1>7
  <2>2. Observe(w, o, trusted) /\ o.kind = own
        /\ ended' = [ended EXCEPT ![own] = @ \cup EndedBy(reading)]
    BY <1>1, <1>2 DEF SObserve, Observations
  <2>3. /\ pc[w] = "loop" /\ now' = now /\ state' = state
        /\ signals' = signals /\ announced' = announced
        /\ pc' = [pc EXCEPT ![w] = target]
        /\ writes' = [writes EXCEPT ![w][own] = r.state]
        /\ snap' = [snap EXCEPT ![w][own] = None]
        /\ IF target = "loop" THEN i' = [i EXCEPT ![w] = @ + 1] ELSE out' = [out EXCEPT ![w] = r] /\ i' = i
    BY <1>1, <1>5, <1>6, <1>9, <2>1, <2>2 DEF Observe, tables
  <2>4. /\ pc \in [Workers -> Labels] /\ i \in [Workers -> 1 .. NumKinds + 1]
        /\ out \in [Workers -> Outcomes]
        /\ snap \in [Workers -> [Kinds -> StateRows \cup {None}]]
        /\ writes \in [Workers -> [Kinds -> StateRows \cup {None}]]
    BY DEF IndInv, TypeOK
  <2>5. QED
    BY <1>1, <2>2, <2>3, <2>4
<1>11. Stamped(w)' /\ Started(w)'
  <2>1. target \notin {"idle", "fetch", "read"}
    BY <1>9 DEF FirstStatement
  <2>2. \A x \in announced : x[1] < i[w] => x[1] < i'[w]
    BY <1>1, <1>10, CycleTypes
  <2>3. QED
    BY <1>10, <2>1, <2>2 DEF WorkerInv, Stamped, Started
<1>12. ASSUME NEW k \in Kinds, k # own PROVE KindOK(w, k)'
  <2>1. OpenRows(k)' = OpenRows(k) /\ (wasAnnounced(k)' <=> wasAnnounced(k))
    BY <1>10, OpenSameTable DEF wasAnnounced
  <2>2. (Ahead(w, k)' => Ahead(w, k)) /\ (Started(w)' => Started(w))
        /\ ~Rewriting(w, k) /\ ~Rewriting(w, k)'
    BY <1>1, <1>4, <1>10, <1>12, CycleTypes DEF Ahead, Rewriting
  <2>3. KindOK(w, k)
    BY DEF WorkerInv
  <2>4. QED
    BY <1>10, <1>12, <2>1, <2>2, <2>3, KindKept
<1>13. KindOK(w, own)'
  <2>1. OpenRows(own)' = OpenRows(own) /\ (wasAnnounced(own)' <=> wasAnnounced(own))
    BY <1>10, OpenSameTable DEF wasAnnounced
  <2>2. r.state # None /\ effective(w, own)' = r.state
    BY <1>10, AbsentAssumption DEF Outcomes, effective
  <2>3. rowAgrees(own, prior) /\ (wasAnnounced(own) => prior # None)
        /\ \A d \in Discs \ ended[own] : inEpisode(prior) /\ discriminatorOf(prior.key) = d
    BY <1>4, <1>5, <1>6 DEF KindOK
  <2>4. EndedBy(reading) = IF reading.value < Exit[own] THEN Discs ELSE Discs \ {reading.disc}
    BY <1>3 DEF EndedBy
  <2>5. CASE StaysOut(reading, prior, r)
    <3>1. target = "loop"
      BY <1>9, <2>5 DEF StaysOut
    <3>2. ~Rewriting(w, own)' /\ ~Ahead(w, own)'
      BY <1>10, <3>1, CycleTypes DEF Rewriting, Ahead
    <3>3. rowAgrees(own, r.state)' /\ Adopted(w, own)'
      BY <1>10, <2>1, <2>3, <2>5 DEF StaysOut, rowAgrees, Adopted
    <3>4. \A d \in Discs \ ended'[own] : FALSE
      BY <1>10, <2>3, <2>5 DEF StaysOut
    <3>5. rowAgrees(own, effective(w, own))'
      BY <2>2, <3>3 DEF rowAgrees
    <3>6. QED
      BY <2>2, <3>2, <3>3, <3>4, <3>5 DEF KindOK
  <2>6. CASE StartsNew(reading, prior, r)
    <3>1. \A d \in Discs : d \in ended'[own]
      BY <1>10, <2>3, <2>6 DEF StartsNew
    <3>2. OpenRows(own) = {} /\ target \in {"loop", "insert"}
      BY <1>9, <2>3, <2>6 DEF StartsNew, rowAgrees
    <3>3. CASE target = "loop"
      <4>1. prior = None /\ own \in StateKinds
        BY <1>9, <2>6, <3>3 DEF StartsNew, AdoptSilently
      <4>2. ~Rewriting(w, own)' /\ ~Ahead(w, own)'
        BY <1>10, <3>3, CycleTypes DEF Rewriting, Ahead
      <4>3. rowAgrees(own, effective(w, own))'
        BY <2>1, <2>2, <2>3, <3>2, <4>1 DEF rowAgrees
      <4>4. Adopted(w, own)'
        BY <1>6, <1>10, <4>1 DEF Adopted
      <4>5. QED
        BY <2>2, <3>1, <4>2, <4>3, <4>4 DEF KindOK
    <3>4. CASE target = "insert"
      <4>1. pc'[w] = "insert" /\ i'[w] = own /\ out'[w] = r
        BY <1>10, <3>4
      <4>2. Rewriting(w, own)' /\ ~Ahead(w, own)'
        BY <4>1, CycleTypes DEF Rewriting, Ahead
      <4>3. MidApply(w, own)'
        BY <1>6, <1>10, <2>1, <2>2, <2>6, <3>1, <3>2, <4>1 DEF StartsNew, MidApply, MayAnnounce
      <4>4. QED
        BY <2>2, <3>1, <4>2, <4>3 DEF KindOK
    <3>5. QED
      BY <3>2, <3>3, <3>4
  <2>7. CASE Restarts(reading, prior, r) \/ Ends(reading, prior, r)
    <3>1. \A d \in Discs : d \in ended'[own]
      BY <1>3, <1>10, <2>3, <2>4, <2>7 DEF Restarts, Ends
    <3>2. target = "supersede"
      BY <1>9, <2>7 DEF Restarts, Ends, AdoptSilently
    <3>3. pc'[w] = "supersede" /\ i'[w] = own /\ out'[w] = r
      BY <1>10, <3>2
    <3>4. Rewriting(w, own)' /\ ~Ahead(w, own)'
      BY <3>3, CycleTypes DEF Rewriting, Ahead
    <3>5. rowAgrees(own, state[own])' /\ inEpisode(state'[own]) /\ state'[own] = prior
      BY <1>6, <1>10, <2>1, <2>3, <2>7 DEF rowAgrees, Restarts, Ends
    <3>6. MidApply(w, own)'
      <4>1. r.closing = prior.key
        BY <2>7 DEF Restarts, Ends
      <4>2. r.action = "reopen" =>
              /\ r.state.key = r.key
              /\ discriminatorOf(prior.key) # discriminatorOf(r.key)
        BY <2>7 DEF Restarts, Ends
      <4>3. r.action # "reopen" => ~inEpisode(r.state)
        BY <2>7 DEF Restarts, Ends
      <4>4. r.action = "reopen" => MayAnnounce(w, own)'
        BY <1>10, <3>1, <3>3, <3>5, <4>2 DEF MayAnnounce
      <4>5. QED
        BY <1>10, <2>2, <3>3, <3>5, <4>1, <4>3, <4>4 DEF MidApply
    <3>7. QED
      BY <2>2, <3>1, <3>4, <3>6 DEF KindOK
  <2>8. CASE GoesOn(reading, prior, r)
    <3>1. target \in {"loop", "intensify"}
      BY <1>9, <2>8 DEF GoesOn
    <3>2. ~Rewriting(w, own)' /\ ~Ahead(w, own)'
      BY <1>10, <3>1, CycleTypes DEF Rewriting, Ahead
    <3>3. inEpisode(r.state) /\ r.state.key = prior.key /\ inEpisode(prior)
      BY <2>8 DEF GoesOn
    <3>4. rowAgrees(own, effective(w, own))'
      BY <2>1, <2>2, <2>3, <3>3 DEF rowAgrees
    <3>5. Adopted(w, own)'
      BY <1>6, <1>10, <3>3 DEF Adopted
    <3>6. \A d \in Discs \ ended'[own] : discriminatorOf(r.state.key) = d
      BY <1>10, <2>3, <3>3
    <3>7. QED
      BY <2>2, <3>2, <3>3, <3>4, <3>5, <3>6 DEF KindOK
  <2>9. QED
    BY <1>8, <2>5, <2>6, <2>7, <2>8
<1>14. QED
  BY <1>11, <1>12, <1>13 DEF WorkerInv

(* The sweep, the clock and a stuttering step disturb nobody. *)
LEMMA SerialQuiet ==
  ASSUME IndInv, NEW w \in Workers, WorkerInv(w), Tick \/ Prune \/ UNCHANGED vars,
         ended' = ended
  PROVE  WorkerInv(w)'
<1>1. UNCHANGED <<state, announced, pc, now, asOf, snap, i, out, writes>>
  BY DEF Tick, Prune, vars, tables, locals
<1>2. ASSUME NEW k \in Kinds PROVE KindOK(w, k)'
  <2>1. OpenRows(k)' = OpenRows(k)
    BY OpenSameTable, OpenPrune DEF Tick, vars, tables
  <2>2. effective(w, k)' = effective(w, k) /\ (wasAnnounced(k)' <=> wasAnnounced(k))
        /\ (Ahead(w, k)' <=> Ahead(w, k)) /\ (Untouched(w, k)' <=> Untouched(w, k))
        /\ (Rewriting(w, k)' <=> Rewriting(w, k))
    BY <1>1 DEF effective, wasAnnounced, Ahead, Untouched, Started, Rewriting
  <2>3. (rowAgrees(k, effective(w, k))' <=> rowAgrees(k, effective(w, k)))
        /\ (rowAgrees(k, state[k])' <=> rowAgrees(k, state[k]))
        /\ (Adopted(w, k)' <=> Adopted(w, k))
    BY <1>1, <2>1, <2>2 DEF rowAgrees, Adopted
  <2>4. MidApply(w, k) => MidApply(w, k)'
    BY <1>1, <2>1, <2>3 DEF MidApply, MayAnnounce
  <2>5. KindOK(w, k)
    BY DEF WorkerInv
  <2>6. QED
    BY <2>2, <2>3, <2>4, <2>5 DEF KindOK
<1>3. Stamped(w)'
  BY <1>1 DEF WorkerInv, Stamped
<1>4. QED
  BY <1>1, <1>2, <1>3 DEF WorkerInv, Started

LEMMA SerialWorkerStep ==
  ASSUME NEW W, Workers = {W}, IndInv, SerialInv, [SNext]_svars
  PROVE  WorkerInv(W)'
<1>1. W \in Workers /\ WorkerInv(W) /\ ended \in [Kinds -> SUBSET Discs]
  BY DEF SerialInv
<1>2. CASE (Tick \/ Prune) /\ UNCHANGED ended
  BY <1>1, <1>2, SerialQuiet
<1>3. CASE UNCHANGED svars
  BY <1>1, <1>3, SerialQuiet DEF svars
<1>4. CASE \E o \in Observations(i[W]), t \in BOOLEAN : SObserve(W, o, t)
  BY <1>1, <1>4, SerialObserve
<1>5. CASE SInsert(W)
  BY <1>1, <1>5, SerialInsert
<1>6. CASE SOther(W)
  BY <1>1, <1>6, SerialBegin, SerialFetch, SerialRead, SerialSkip, SerialSupersede,
     SerialIntensify, SerialPut DEF SOther
<1>7. QED
  BY <1>2, <1>3, <1>4, <1>5, <1>6 DEF SNext

LEMMA HistoriesStep ==
  ASSUME IndInv, IsFiniteSet(announced), ended \in [Kinds -> SUBSET Discs], [SNext]_svars
  PROVE  IsFiniteSet(announced') /\ ended' \in [Kinds -> SUBSET Discs]
<1>1. ASSUME NEW w \in Workers, NEW o \in Observations(i[w]), NEW t \in BOOLEAN,
             SObserve(w, o, t)
      PROVE  announced' = announced /\ ended' \in [Kinds -> SUBSET Discs]
  <2>1. announced' = announced
    BY <1>1 DEF SObserve, Observe, tables
  <2>2. ended' = [ended EXCEPT ![o.kind] = @ \cup EndedBy(Suppress(o, t))]
    BY <1>1 DEF SObserve
  <2>3. EndedBy(Suppress(o, t)) \subseteq Discs
    BY DEF EndedBy
  <2>4. QED
    BY <2>1, <2>2, <2>3
<1>2. ASSUME NEW w \in Workers, SInsert(w)
      PROVE  IsFiniteSet(announced') /\ ended' \in [Kinds -> SUBSET Discs]
  <2>1. announced' = announced \cup {<<i[w], out[w].key>>} \/ announced' = announced
    BY <1>2 DEF SInsert, Insert
  <2>. DEFINE id == <<i[w], out[w].key>>
  <2>2. IsFiniteSet(announced \cup {id})
    <3>. HIDE DEF id
    <3>1. QED
      BY FS_AddElement
  <2>3. IsFiniteSet(announced')
    BY <2>1, <2>2
  <2>4. QED
    BY <1>2, <2>3 DEF SInsert
<1>3. ASSUME NEW w \in Workers, SOther(w)
      PROVE  announced' = announced /\ ended' = ended
  BY <1>3 DEF SOther, Begin, Fetch, ReadStates, SkipKind, Supersede, Intensify, PutStates, tables
<1>4. ASSUME Tick \/ Prune \/ UNCHANGED vars, ended' = ended
      PROVE  announced' = announced /\ ended' = ended
  BY <1>4 DEF Tick, Prune, vars, tables
<1>5. QED
  BY <1>1, <1>2, <1>3, <1>4 DEF SNext, svars

LEMMA SerialInit == SInit => SerialInv
<1>. SUFFICES ASSUME SInit PROVE SerialInv
  OBVIOUS
<1>1. IsFiniteSet(announced)
  BY FS_EmptySet DEF SInit, Init
<1>2. \A k \in Kinds : OpenRows(k) = {}
  BY DEF SInit, Init, OpenRows, isOpen
<1>3. ASSUME NEW w \in Workers PROVE WorkerInv(w)
  BY <1>2 DEF SInit, Init, WorkerInv, Started, Stamped, KindOK, Ahead, Untouched, wasAnnounced,
     effective, Rewriting, rowAgrees, Adopted, inEpisode
<1>4. QED
  BY <1>1, <1>3 DEF SerialInv, SInit

(* The inductive invariant of the serial engine. *)
THEOREM SerialInvariant ==
  ASSUME NEW CONSTANT W, Workers = {W}
  PROVE  SSpec => [](IndInv /\ SerialInv)
<1>1. SInit => IndInv /\ SerialInv
  BY InvInit, SerialInit DEF SInit
<1>2. IndInv /\ SerialInv /\ [SNext]_svars => (IndInv /\ SerialInv)'
  <2>. SUFFICES ASSUME IndInv, SerialInv, [SNext]_svars PROVE IndInv' /\ SerialInv'
    OBVIOUS
  <2>1. IndInv'
    BY InvStep, SerialStep
  <2>2. WorkerInv(W)'
    BY SerialWorkerStep
  <2>3. IsFiniteSet(announced') /\ ended' \in [Kinds -> SUBSET Discs]
    BY HistoriesStep DEF SerialInv
  <2>4. QED
    BY <2>1, <2>2, <2>3 DEF SerialInv
<1>3. QED
  BY <1>1, <1>2, PTL DEF SSpec

(* With cycles run one after another, the two tables agree between cycles: *)
(* the open signal of a kind is the episode the machine tracks.            *)
THEOREM SerialTablesAgree ==
  ASSUME NEW CONSTANT W, Workers = {W}
  PROVE  SSpec => []TablesAgree
<1>1. IndInv /\ SerialInv => TablesAgree
  <2>. SUFFICES ASSUME IndInv, SerialInv, allIdle, NEW k \in Kinds
                PROVE  rowAgrees(k, state[k])
    BY DEF TablesAgree
  <2>1. W \in Workers /\ pc[W] = "idle" /\ WorkerInv(W)
    BY DEF SerialInv, allIdle
  <2>2. Ahead(W, k) /\ ~Rewriting(W, k) /\ KindOK(W, k)
    BY <2>1, CycleTypes, KindsAssumption DEF WorkerInv, Started, Ahead, Rewriting, Kinds
  <2>3. QED
    BY <2>2 DEF KindOK, Untouched, effective
<1>2. QED
  BY <1>1, SerialInvariant, PTL

(* ... and nothing is said twice: an announcement of a kind and            *)
(* discriminator follows a reading that ended the previous one.            *)
THEOREM SerialNoChatter ==
  ASSUME NEW CONSTANT W, Workers = {W}
  PROVE  SSpec => NoChatter
<1>. DEFINE Ended == \A k \in Kinds, d \in Discs, t \in Times :
              <<k, <<d, t>>>> \in announced' \ announced => d \in ended[k]
<1>1. IndInv /\ SerialInv /\ [SNext]_svars => [Ended]_svars
  <2>. SUFFICES ASSUME IndInv, SerialInv, SNext, NEW k \in Kinds, NEW d \in Discs, NEW t \in Times,
                       <<k, <<d, t>>>> \in announced' \ announced
                PROVE  d \in ended[k]
    OBVIOUS
  <2>1. W \in Workers /\ WorkerInv(W)
    BY DEF SerialInv
  <2>2. SInsert(W)
    BY DEF SNext, SObserve, SOther, Begin, Fetch, ReadStates, SkipKind, Observe, Supersede,
       Intensify, PutStates, Tick, Prune, tables
  <2>3. pc[W] = "insert" /\ k = i[W]
    BY <2>2 DEF SInsert, Insert
  <2>4. Discs \subseteq ended[k]
    BY <2>1, <2>3 DEF WorkerInv, KindOK, Rewriting, MidApply, MayAnnounce
  <2>5. QED
    BY <2>4
<1>2. QED
  BY <1>1, SerialInvariant, PTL DEF SSpec, NoChatter

-----------------------------------------------------------------------------
(* The cycle implements Episodes: each step of the engine announces, lets  *)
(* items settle, or changes nothing a reader is promised.                  *)

LEMMA PromiseInit == SInit => Promise!Init
<1>. SUFFICES ASSUME SInit PROVE Promise!Init
  OBVIOUS
<1>1. announced = {} /\ \A k \in Kinds : state[k] = None /\ OpenRows(k) = {}
  BY DEF SInit, Init, OpenRows, isOpen
<1>2. standing = [k \in Kinds |-> None]
  BY <1>1 DEF standing, StandingItem, isTracked, inEpisode
<1>3. announcements = [k \in Kinds |-> 0]
  <2>1. \A k \in Kinds : {id \in announced : id[1] = k} = {}
    BY <1>1
  <2>2. QED
    BY <2>1, FS_EmptySet DEF announcements
<1>4. lookedAt = {}
  BY <1>1 DEF lookedAt
<1>5. QED
  BY <1>2, <1>3, <1>4 DEF Promise!Init

(* A step that leaves the machine's rows and the open signals alone. *)
LEMMA PromiseStutter ==
  ASSUME state' = state, announced' = announced,
         \A k \in Kinds : OpenRows(k)' = OpenRows(k)
  PROVE  UNCHANGED Promise!vars
<1>1. ASSUME NEW k \in Kinds PROVE StandingItem(k)' = StandingItem(k)
  <2>1. OpenRows(k)' = OpenRows(k)
    OBVIOUS
  <2>2. QED
    BY <2>1 DEF StandingItem, isTracked
<1>2. standing' = standing
  BY <1>1 DEF standing
<1>3. announcements' = announcements /\ lookedAt' = lookedAt
  BY DEF announcements, lookedAt
<1>4. QED
  BY <1>2, <1>3 DEF Promise!vars

(* A standing item is a discriminator. *)
LEMMA StandingType ==
  ASSUME TypeOK, NEW k \in Kinds
  PROVE  StandingItem(k) \in Discs \cup {None}
<1>1. CASE OpenRows(k) # {}
  <2>1. PICK id \in OpenRows(k) : id = CHOOSE x \in OpenRows(k) : TRUE
    BY <1>1
  <2>2. discriminatorOf(id[2]) \in Discs
    BY <2>1 DEF OpenRows, Keys, discriminatorOf
  <2>3. QED
    BY <1>1, <2>1, <2>2 DEF StandingItem
<1>2. CASE OpenRows(k) = {} /\ isTracked(k)
  <2>1. state[k].key \in Keys
    BY <1>2 DEF TypeOK, isTracked, inEpisode, StateRows
  <2>2. QED
    BY <1>2, <2>1 DEF StandingItem, Keys, discriminatorOf
<1>3. QED
  BY <1>1, <1>2 DEF StandingItem

StandingTyped == \A k \in Kinds : StandingItem(k) \in Discs \cup {None}

LEMMA StandingTypeNext == TypeOK' => StandingTyped'
<1>1. TypeOK => StandingTyped
  BY StandingType DEF StandingTyped
<1>2. QED
  BY <1>1, PTL

LEMMA PromiseInsert ==
  ASSUME IndInv, IsFiniteSet(announced), NEW w \in Workers, WorkerInv(w), Insert(w)
  PROVE  Promise!Next
<1>0. /\ i[w] \in Kinds /\ out[w].key \in Keys
      /\ <<i[w], out[w].key>> \notin announced /\ signals[<<i[w], out[w].key>>] = None
  BY InsertIsNew
<1>1. PICK own \in Kinds, key \in Keys : own = i[w] /\ key = out[w].key
  BY <1>0
<1>. DEFINE id == <<own, key>>
            d  == discriminatorOf(key)
<1>2. announced' = announced \cup {id} /\ state' = state
  BY <1>0, <1>1 DEF Insert
<1>3. MidApply(w, own) /\ MayAnnounce(w, own) /\ OpenRows(own) = {}
  BY <1>1 DEF Insert, WorkerInv, Rewriting, KindOK, MidApply
<1>4. d \in Discs
  BY DEF Keys, discriminatorOf
<1>5. StandingItem(own) # d
  BY <1>1, <1>3, <1>4, AbsentAssumption DEF StandingItem, MayAnnounce, isTracked
<1>6. StandingItem(own)' = d
  <2>1. OpenRows(own)' = {id}
    BY <1>0, <1>1, <1>3, OpenInsert
  <2>2. (CHOOSE x \in {id} : TRUE) = id
    OBVIOUS
  <2>3. QED
    BY <2>1, <2>2 DEF StandingItem
<1>7. ASSUME NEW k \in Kinds, k # own PROVE StandingItem(k)' = StandingItem(k)
  <2>1. OpenRows(k)' = OpenRows(k)
    BY <1>0, <1>1, <1>7, OpenInsert
  <2>2. <<k, state[k].key>> \in announced' <=> <<k, state[k].key>> \in announced
    BY <1>2, <1>7
  <2>3. QED
    BY <1>2, <2>1, <2>2 DEF StandingItem, isTracked
<1>8. standing' = [standing EXCEPT ![own] = d]
  BY <1>6, <1>7 DEF standing
<1>9. announcements' = [announcements EXCEPT ![own] = @ + 1]
  <2>1. \A k \in Kinds \ {own} : {x \in announced' : x[1] = k} = {x \in announced : x[1] = k}
    BY <1>2
  <2>2. {x \in announced' : x[1] = own} = {x \in announced : x[1] = own} \cup {id}
    BY <1>2
  <2>3. IsFiniteSet({x \in announced : x[1] = own}) /\ id \notin {x \in announced : x[1] = own}
    <3>1. {x \in announced : x[1] = own} \in SUBSET announced
      OBVIOUS
    <3>2. QED
      BY <1>0, <1>1, <3>1, FS_Subset
  <2>4. Cardinality({x \in announced' : x[1] = own}) = Cardinality({x \in announced : x[1] = own}) + 1
    <3>. DEFINE S == {x \in announced : x[1] = own}
    <3>1. IsFiniteSet(S) /\ id \notin S
      BY <2>3
    <3>. HIDE DEF S, id
    <3>2. Cardinality(S \cup {id}) = Cardinality(S) + 1
      BY <3>1, FS_AddElement
    <3>3. QED
      BY <2>2, <3>2 DEF S
  <2>5. QED
    BY <2>1, <2>4 DEF announcements
<1>10. lookedAt' = lookedAt
  BY <1>2 DEF lookedAt
<1>11. standing[own] # d
  BY <1>5 DEF standing
<1>12. Promise!Announce(own, d)
  BY <1>8, <1>9, <1>10, <1>11 DEF Promise!Announce
<1>13. QED
  BY <1>4, <1>12 DEF Promise!Next

LEMMA PromiseSupersede ==
  ASSUME IndInv, IndInv', NEW w \in Workers, WorkerInv(w), Supersede(w)
  PROVE  Promise!Next
<1>1. state' = state /\ announced' = announced /\ pc[w] = "supersede" /\ i[w] \in Kinds
  BY DEF Supersede, IndInv, ProgramOK
<1>2. ASSUME NEW k \in Kinds PROVE StandingItem(k)' \in {None, StandingItem(k)}
  <2>1. CASE k # i[w]
    <3>1. <<i[w], out[w].closing>> \notin OpenRows(k)
      BY <2>1 DEF OpenRows
    <3>2. OpenRows(k)' = OpenRows(k)
      <4>1. OpenRows(k)' = OpenRows(k) \ {<<i[w], out[w].closing>>}
        BY OpenSupersede
      <4>2. QED
        BY <3>1, <4>1
    <3>3. QED
      BY <1>1, <3>2 DEF StandingItem, isTracked
  <2>2. CASE k = i[w]
    <3>1. MidApply(w, k)
      BY <1>1, <2>2 DEF WorkerInv, KindOK, Rewriting
    <3>2. rowAgrees(k, state[k]) /\ inEpisode(state[k]) /\ out[w].closing = state[k].key
      BY <1>1, <3>1 DEF MidApply
    <3>3. OpenRows(k)' = OpenRows(k) \ {<<k, state[k].key>>}
      BY <2>2, <3>2, OpenSupersede
    <3>4. OpenRows(k)' = {}
      BY <3>2, <3>3 DEF rowAgrees
    <3>5. CASE <<k, state[k].key>> \in announced
      BY <1>1, <3>2, <3>4, <3>5 DEF StandingItem, isTracked
    <3>6. CASE <<k, state[k].key>> \notin announced
      <4>1. OpenRows(k) = {}
        <5>1. \A id \in OpenRows(k) : id \in announced
          BY DEF OpenRows, isOpen, IndInv, EverythingRecorded
        <5>2. QED
          BY <3>2, <3>6, <5>1 DEF rowAgrees
      <4>2. QED
        BY <1>1, <3>4, <4>1 DEF StandingItem, isTracked
    <3>7. QED
      BY <3>5, <3>6
  <2>3. QED
    BY <2>1, <2>2
<1>3. standing' \in [Kinds -> Discs \cup {None}]
  <2>1. \A k \in Kinds : StandingItem(k)' \in Discs \cup {None}
    BY <1>2, StandingType DEF IndInv
  <2>2. QED
    BY <2>1 DEF standing
<1>4. \A k \in Kinds : standing'[k] \in {None, standing[k]}
  BY <1>2 DEF standing
<1>5. announcements' = announcements /\ lookedAt' = lookedAt /\ lookedAt' \in SUBSET Kinds
  BY <1>1 DEF announcements, lookedAt
<1>6. Promise!Settle
  BY <1>3, <1>4, <1>5 DEF Promise!Settle, Promise!MaySettle
<1>7. QED
  BY <1>6 DEF Promise!Next

LEMMA PromisePut ==
  ASSUME IndInv, IndInv', NEW w \in Workers, WorkerInv(w), PutStates(w)
  PROVE  Promise!Next
<1>1. /\ pc[w] = "loop" /\ announced' = announced /\ signals' = signals
      /\ \A k \in Kinds : state'[k] = effective(w, k)
  BY DEF PutStates, effective
<1>2. ASSUME NEW k \in Kinds
      PROVE  \/ StandingItem(k)' \in {None, StandingItem(k)}
             \/ k \in StateKinds /\ state[k] = None /\ state'[k] # None
  <2>1. OpenRows(k)' = OpenRows(k)
    BY <1>1, OpenSameTable
  <2>2. rowAgrees(k, effective(w, k)) /\ Adopted(w, k)
    BY <1>1 DEF WorkerInv, KindOK, Rewriting
  <2>3. CASE OpenRows(k) # {}
    BY <2>1, <2>3 DEF StandingItem
  <2>4. CASE OpenRows(k) = {} /\ ~inEpisode(effective(w, k))
    BY <1>1, <2>1, <2>4 DEF StandingItem, isTracked
  <2>5. CASE OpenRows(k) = {} /\ inEpisode(effective(w, k))
    <3>1. k \in StateKinds /\ effective(w, k) # None
      BY <2>2, <2>5 DEF rowAgrees, inEpisode
    <3>2. CASE writes[w][k] = None
      BY <1>1, <2>1, <3>2 DEF StandingItem, isTracked, effective
    <3>3. CASE writes[w][k] # None /\ state[k] = None
      BY <1>1, <3>1, <3>3
    <3>4. CASE writes[w][k] # None /\ state[k] # None
      <4>1. inEpisode(state[k]) /\ state[k].key = effective(w, k).key
        BY <2>2, <2>5, <3>4 DEF Adopted, effective
      <4>2. QED
        BY <1>1, <2>1, <2>5, <4>1 DEF StandingItem, isTracked
    <3>5. QED
      BY <3>2, <3>3, <3>4
  <2>6. QED
    BY <2>3, <2>4, <2>5
<1>3. standing' \in [Kinds -> Discs \cup {None}]
  <2>1. \A k \in Kinds : StandingItem(k)' \in Discs \cup {None}
    BY StandingTypeNext DEF IndInv, StandingTyped
  <2>2. QED
    BY <2>1 DEF standing
<1>4. ASSUME NEW k \in Kinds
      PROVE  \/ standing'[k] \in {None, standing[k]}
             \/ k \in StateKinds /\ k \notin lookedAt /\ k \in lookedAt'
  <2>1. StandingItem(k)' \in {None, StandingItem(k)} => standing'[k] \in {None, standing[k]}
    BY DEF standing
  <2>2. state[k] = None /\ state'[k] # None => k \notin lookedAt /\ k \in lookedAt'
    BY DEF lookedAt
  <2>3. QED
    BY <1>2, <2>1, <2>2
<1>5. /\ announcements' = announcements
      /\ lookedAt' \in SUBSET Kinds /\ lookedAt \subseteq lookedAt'
  BY <1>1 DEF announcements, lookedAt, effective
<1>6. Promise!Settle
  BY <1>3, <1>4, <1>5 DEF Promise!Settle, Promise!MaySettle
<1>7. QED
  BY <1>6 DEF Promise!Next

LEMMA PromiseStep ==
  ASSUME NEW W, Workers = {W}, IndInv, SerialInv, IndInv', [SNext]_svars
  PROVE  [Promise!Next]_(Promise!vars)
<1>1. W \in Workers /\ WorkerInv(W) /\ IsFiniteSet(announced)
  BY DEF SerialInv
<1>2. CASE SInsert(W)
  BY <1>1, <1>2, PromiseInsert DEF SInsert
<1>3. CASE Supersede(W)
  BY <1>1, <1>3, PromiseSupersede
<1>4. CASE PutStates(W)
  BY <1>1, <1>4, PromisePut
<1>5. CASE Intensify(W)
  <2>1. state' = state /\ announced' = announced
    BY <1>5 DEF Intensify
  <2>2. \A k \in Kinds : OpenRows(k)' = OpenRows(k)
    BY <1>1, <1>5, OpenIntensify
  <2>3. QED
    BY <2>1, <2>2, PromiseStutter
<1>6. CASE Prune
  <2>1. state' = state /\ announced' = announced
    BY <1>6 DEF Prune
  <2>2. \A k \in Kinds : OpenRows(k)' = OpenRows(k)
    BY <1>6, OpenPrune
  <2>3. QED
    BY <2>1, <2>2, PromiseStutter
<1>7. CASE UNCHANGED tables
  <2>1. state' = state /\ announced' = announced /\ signals' = signals
    BY <1>7 DEF tables
  <2>2. \A k \in Kinds : OpenRows(k)' = OpenRows(k)
    BY <2>1, OpenSameTable
  <2>3. QED
    BY <2>1, <2>2, PromiseStutter
<1>8. ASSUME \/ UNCHANGED vars \/ Tick \/ Begin(W) \/ Fetch(W) \/ ReadStates(W) \/ SkipKind(W)
             \/ \E o \in Observations(i[W]), t \in BOOLEAN : Observe(W, o, t)
      PROVE  UNCHANGED tables
  BY <1>8 DEF vars, Tick, Begin, Fetch, ReadStates, SkipKind, Observe
<1>9. QED
  BY <1>2, <1>3, <1>4, <1>5, <1>6, <1>7, <1>8 DEF SNext, SObserve, SOther, svars

(* One cycle after another, the detection engine is an implementation of   *)
(* what Episodes promises a reader.                                        *)
THEOREM SerialImplementsEpisodes ==
  ASSUME NEW CONSTANT W, Workers = {W}
  PROVE  SSpec => ImplementsEpisodes
<1>1. SInit => Promise!Init
  BY PromiseInit
<1>2. (IndInv /\ SerialInv) /\ (IndInv /\ SerialInv)' /\ [SNext]_svars
        => [Promise!Next]_(Promise!vars)
  BY PromiseStep
<1>3. QED
  BY <1>1, <1>2, SerialInvariant, PTL DEF SSpec, ImplementsEpisodes, Promise!Spec
=============================================================================
