----------------------------- MODULE UserProofs -----------------------------
(***************************************************************************)
(* Theorems about what one user writes (db/userRepo.ts): Lists, for any    *)
(* number of browsers, requests, symbols and keys and any limit of the     *)
(* list; and Watermarks, for any number of devices and signals, any        *)
(* lookbacks, with or without the rewind route.                            *)
(***************************************************************************)
EXTENDS Lists, Watermarks, FiniteSetTheorems, TLAPS

USE DEF Versions, Idle, Asked, Got, Steps

OneOf(r) == req[r] # None

(* A request past the lock holds it, and what it found is still so. *)
LockHolds ==
  \A r \in Requests : Busy(r, "locked") =>
    /\ lock = r /\ version # 0
    /\ req[r].op = "add" => Count(items) < MaxSymbols
    /\ req[r].version # None => req[r].version = version

(* A browser whose copy is the version of the list shows the list, unless  *)
(* it is reloading or says that something failed.                          *)
PageFits ==
  \A b \in Browsers : (copy[b] # None /\ copy[b] = version) =>
    /\ (load[b] = Idle /\ ~error[b]) => rows[b] = items
    /\ load[b].step = "read" => load[b].got = items

(* What a load has read are rows. *)
LoadsRows == \A b \in Browsers : load[b].step = "read" => load[b].got \in Contents

(* So does what a request saw when it was sent. *)
SawFits ==
  \A r \in Requests : (OneOf(r) /\ req[r].saw # None) =>
    /\ req[r].version # None
    /\ req[r].version = version => req[r].saw = items

(* Nobody knows a version that is still to come. *)
IsPast(v, n) == v # None => n = 0 \/ v <= n
NoFuture ==
  /\ \A b \in Browsers : /\ IsPast(copy[b], version)
                         /\ lists[b].step = "read" => IsPast(lists[b].got, version)
  /\ \A r \in Requests : OneOf(r) => IsPast(req[r].version, version) /\ IsPast(req[r].got, version)

(* An answer given, or about to be, is stored, unless the key was another  *)
(* user's.  WillBeKept is Kept after the step.                             *)
Kept(k) == stored[k] \in Symbols \/ k \in clashed
WillBeKept(k) == stored'[k] \in Symbols \/ k \in clashed'
AnswersStored ==
  /\ \A k \in answered : Kept(k)
  /\ \A r \in Requests :
       (Busy(r, "answered") /\ req[r].answer = "ok" /\ req[r].key # None) => Kept(req[r].key)

(* A request with a key adds a symbol, and only such a one is "done".       *)
KeysHaveSymbols ==
  \A r \in Requests : OneOf(r) =>
    /\ req[r].key # None => req[r].symbol \in Symbols /\ req[r].op = "add"
    /\ req[r].phase = "done" => req[r].key # None

IInv ==
  /\ KeysHaveSymbols /\ TypeOK /\ LockHolds /\ LoadsRows /\ PageFits /\ SawFits
  /\ NoFuture /\ AnswersStored

-----------------------------------------------------------------------------
(* How much a change of the contents changes their number. *)

LEMMA CountGrows ==
  ASSUME NEW c \in Contents, NEW d \in Contents, NEW s \in Symbols,
         \A t \in Symbols : t # s => d[t] = c[t]
  PROVE  Count(d) \in Nat /\ Count(c) \in Nat /\ Count(d) <= Count(c) + 1
<1> DEFINE C == {t \in Symbols : c[t] # None}
           D == {t \in Symbols : d[t] # None}
<1>1. IsFiniteSet(C)
  BY PrefsAssumption, FS_Subset
<1>2. IsFiniteSet(C \cup {s}) /\ Cardinality(C \cup {s}) <= Cardinality(C) + 1
      /\ Cardinality(C) \in Nat
  BY <1>1, FS_AddElement, FS_CardinalityType
<1>3. D \subseteq C \cup {s}
  OBVIOUS
<1>4. IsFiniteSet(D) /\ Cardinality(D) <= Cardinality(C \cup {s}) /\ Cardinality(D) \in Nat
      /\ Cardinality(C \cup {s}) \in Nat
  BY <1>2, <1>3, FS_Subset, FS_CardinalityType
<1>5. QED
  BY <1>2, <1>4 DEF Count

LEMMA CountShrinks ==
  ASSUME NEW c \in Contents, NEW d \in Contents,
         \A t \in Symbols : c[t] = None => d[t] = None
  PROVE  Count(d) \in Nat /\ Count(c) \in Nat /\ Count(d) <= Count(c)
<1> DEFINE C == {t \in Symbols : c[t] # None}
           D == {t \in Symbols : d[t] # None}
<1>1. IsFiniteSet(C) /\ D \subseteq C
  BY PrefsAssumption, FS_Subset
<1>2. IsFiniteSet(D) /\ Cardinality(D) <= Cardinality(C) /\ Cardinality(D) \in Nat
      /\ Cardinality(C) \in Nat
  BY <1>1, FS_Subset, FS_CardinalityType
<1>3. QED
  BY <1>2 DEF Count

LEMMA EmptyCount == Empty \in Contents /\ Count(Empty) <= MaxSymbols
<1>1. Empty \in Contents
  BY DEF Empty, Contents
<1>2. {s \in Symbols : Empty[s] # None} = {}
  BY DEF Empty
<1>3. Count(Empty) = 0
  BY <1>2, FS_EmptySet DEF Count
<1>4. QED
  BY <1>1, <1>3, LimitAssumption

-----------------------------------------------------------------------------
LEMMA AtType ==
  ASSUME NEW q \in Request, NEW phase \in Phases, NEW answer \in Answers,
         NEW got \in Versions \cup {None}
  PROVE  /\ At(q, phase, answer, got) \in Request
         /\ At(q, phase, answer, got).phase = phase
         /\ At(q, phase, answer, got).answer = answer
         /\ At(q, phase, answer, got).got = got
         /\ At(q, phase, answer, got).op = q.op
         /\ At(q, phase, answer, got).symbol = q.symbol
         /\ At(q, phase, answer, got).version = q.version
         /\ At(q, phase, answer, got).key = q.key
         /\ At(q, phase, answer, got).saw = q.saw
         /\ At(q, phase, answer, got).client = q.client
  BY DEF At, Request

(* What a Send adds is a request. *)
LEMMA SendType ==
  ASSUME TypeOK, NEW r \in Requests, NEW b \in Browsers \cup {None}, NEW op \in Ops,
         NEW s \in Symbols \cup {None}, NEW v \in Versions \cup {None},
         NEW k \in Keys \cup {None}, Send(r, b, op, s, v, k), b # None => b \in Browsers
  PROVE  /\ req' \in [Requests -> Request \cup {None}]
         /\ \A q \in Requests : q # r => req'[q] = req[q]
         /\ req'[r].version = v /\ req'[r].key = k /\ req'[r].got = None
         /\ req'[r].phase \in {"sent", "tx"} /\ req'[r].symbol = s /\ req'[r].op = op
         /\ req'[r].saw = IF b # None /\ load[b] = Idle /\ ~error[b] THEN rows[b] ELSE None
<1> DEFINE saw == IF b # None /\ load[b] = Idle /\ ~error[b] THEN rows[b] ELSE None
           q0 == [client |-> b, op |-> op, symbol |-> s, version |-> v, key |-> k,
                  phase |-> IF op = "add" THEN "sent" ELSE "tx", answer |-> "none",
                  got |-> None, saw |-> saw]
<1>1. saw \in Contents \cup {None}
  BY DEF TypeOK
<1>2. req' = [req EXCEPT ![r] = q0] /\ req \in [Requests -> Request \cup {None}]
  BY DEF Send, TypeOK
<1> HIDE DEF saw
<1>3. q0 \in Request
  BY <1>1 DEF Request, Phases, Answers
<1>4. /\ q0.version = v /\ q0.key = k /\ q0.got = None /\ q0.saw = saw
      /\ q0.phase \in {"sent", "tx"} /\ q0.symbol = s /\ q0.op = op
  OBVIOUS
<1> HIDE DEF q0
<1>5. req'[r] = q0 /\ req' \in [Requests -> Request \cup {None}]
      /\ \A q \in Requests : q # r => req'[q] = req[q]
  BY <1>2, <1>3
<1>6. QED
  BY <1>4, <1>5 DEF saw

(* A request that moves on is still the same request. *)
Moves(r, phase, answer, got) == req' = [req EXCEPT ![r] = At(req[r], phase, answer, got)]

LEMMA MovesType ==
  ASSUME TypeOK, NEW r \in Requests, OneOf(r), NEW phase \in Phases, NEW answer \in Answers,
         NEW got \in Versions \cup {None}, Moves(r, phase, answer, got)
  PROVE  /\ req' \in [Requests -> Request \cup {None}]
         /\ req'[r] \in Request /\ req[r] \in Request
         /\ req'[r].phase = phase /\ req'[r].answer = answer /\ req'[r].got = got
         /\ req'[r].op = req[r].op /\ req'[r].symbol = req[r].symbol
         /\ req'[r].version = req[r].version /\ req'[r].key = req[r].key
         /\ req'[r].saw = req[r].saw
         /\ \A q \in Requests : q # r => req'[q] = req[q]
<1>1. req[r] \in Request
  BY DEF TypeOK, OneOf
<1>2. req'[r] = At(req[r], phase, answer, got) /\ \A q \in Requests : q # r => req'[q] = req[q]
  BY DEF Moves, TypeOK
<1>3. At(req[r], phase, answer, got) \in Request
  BY <1>1, AtType
<1>4. req' \in [Requests -> Request \cup {None}]
  BY <1>3 DEF Moves, TypeOK
<1> DEFINE m == At(req[r], phase, answer, got)
<1>5. /\ m.phase = phase /\ m.answer = answer /\ m.got = got
      /\ m.op = req[r].op /\ m.symbol = req[r].symbol
      /\ m.version = req[r].version /\ m.key = req[r].key
      /\ m.saw = req[r].saw
  BY <1>1, AtType
<1>6. req'[r] = m /\ m \in Request
  BY <1>2, <1>3
<1> HIDE DEF m
<1>7. QED
  BY <1>1, <1>2, <1>4, <1>5, <1>6

(* Every step of the handler is a move. *)
LEMMA HandlerMoves ==
  ASSUME TypeOK, NEW r \in Requests,
         \/ Replay(r) \/ Handle(r) \/ requireOwned(r)
         \/ Write(r) \/ EmptyPatch(r) \/ NotOnList(r) \/ putIdempotent(r)
  PROVE  /\ OneOf(r)
         /\ \E phase \in Phases, answer \in Answers, got \in Versions \cup {None} :
              Moves(r, phase, answer, got)
<1>1. OneOf(r) /\ req[r] \in Request
  BY DEF Replay, Handle, requireOwned, Write, EmptyPatch, NotOnList, putIdempotent, Busy, OneOf,
         TypeOK
<1>2. req[r].answer \in Answers /\ req[r].got \in Versions \cup {None}
  BY <1>1 DEF Request
<1>3. CASE Replay(r) \/ NotOnList(r) \/ EmptyPatch(r)
  BY <1>1, <1>3 DEF Replay, NotOnList, EmptyPatch, Answer, Moves, Phases, Answers
<1>4. CASE Handle(r)
  BY <1>1, <1>2, <1>4 DEF Handle, To, Answer, Moves, Phases, Answers
<1>5. CASE requireOwned(r)
  BY <1>1, <1>2, <1>5 DEF requireOwned, To, Answer, Moves, Phases, Answers
<1>6. CASE Write(r)
  BY <1>1, <1>6 DEF Write, Moves, Phases, Answers
<1>7. CASE putIdempotent(r)
  BY <1>1, <1>2, <1>7 DEF putIdempotent, To, Moves, Phases
<1>8. QED
  BY <1>1, <1>3, <1>4, <1>5, <1>6, <1>7

(* What a Write does to the contents and the version. *)
LEMMA WriteType ==
  ASSUME TypeOK, LockHolds, NEW r \in Requests, Write(r)
  PROVE  /\ items' \in Contents /\ Count(items') <= MaxSymbols
         /\ version' \in Versions /\ version \in Versions
         /\ version' = version + 1 \/ (version' = version /\ items' = items)
<1>1. /\ OneOf(r) /\ req[r] \in Request /\ req[r].phase = "locked"
      /\ version # 0
      /\ req[r].op = "add" => Count(items) < MaxSymbols
  BY DEF Write, Busy, OneOf, TypeOK, LockHolds
<1>2. version \in Versions /\ version' \in Versions
  BY <1>1 DEF Write, TypeOK
<1>3. version' = version + 1 \/ (version' = version /\ items' = items)
  <2>1. version' = IF Bumps(r) THEN version + 1 ELSE version
    BY DEF Write
  <2>2. QED
    BY <2>1 DEF Bumps
<1>4. req[r].symbol \in Symbols \cup {None} /\ items \in Contents /\ Count(items) <= MaxSymbols
  BY <1>1 DEF Request, TypeOK
<1> DEFINE s == req[r].symbol
<1>5. items' \in Contents /\ Count(items') <= MaxSymbols
  <2>1. CASE /\ req[r].op = "add"
             /\ items' = IF items[s] # None THEN items ELSE [items EXCEPT ![s] = Plain]
    <3>1. items' \in Contents /\ \A t \in Symbols : t # s => items'[t] = items[t]
      BY <1>4, <2>1, PrefsAssumption DEF Contents
    <3>2. CASE s \in Symbols
      <4>1. Count(items) < MaxSymbols
        BY <1>1, <2>1
      <4>2. Count(items') \in Nat /\ Count(items) \in Nat /\ Count(items') <= Count(items) + 1
        BY <3>1, <3>2, <1>4, CountGrows
      <4>3. QED
        BY <3>1, <4>1, <4>2, LimitAssumption
    <3>3. CASE s = None
      <4>1. \A t \in Symbols : t # s
        BY <3>3, NoneAssumption
      <4>2. \A t \in Symbols : items[t] = None => items'[t] = None
        BY <3>1, <4>1
      <4>3. QED
        BY <3>1, <4>2, <1>4, CountShrinks, LimitAssumption
    <3>4. QED
      BY <3>1, <3>2, <3>3, <1>4
  <2>2. CASE items' = [items EXCEPT ![s] = None]
    <3>1. items' \in Contents /\ \A t \in Symbols : items[t] = None => items'[t] = None
      BY <1>4, <2>2 DEF Contents
    <3>2. QED
      BY <3>1, <1>4, CountShrinks, LimitAssumption
  <2>3. CASE items[s] # None /\ \E p \in Prefs : items' = [items EXCEPT ![s] = p]
    <3>1. items' \in Contents /\ \A t \in Symbols : items[t] = None => items'[t] = None
      BY <1>4, <2>3 DEF Contents
    <3>2. QED
      BY <3>1, <1>4, CountShrinks, LimitAssumption
  <2>4. CASE items' \in {c \in Contents : \A t \in Symbols : (c[t] = None) = (items[t] = None)}
    <3>1. items' \in Contents /\ \A t \in Symbols : items[t] = None => items'[t] = None
      BY <2>4
    <3>2. QED
      BY <3>1, <1>4, CountShrinks, LimitAssumption
  <2>5. QED
    BY <2>1, <2>2, <2>3, <2>4 DEF Write
<1>6. QED
  BY <1>2, <1>3, <1>5

-----------------------------------------------------------------------------
(* A step of the page of one browser. *)
PageStep(b) ==
  \/ watchlists(b) \/ ListsRead(b) \/ GotLists(b) \/ ListsFail(b)
  \/ StartLoad(b) \/ LoadReads(b) \/ LoadDone(b) \/ LoadFails(b)

LEMMA PageKeeps ==
  ASSUME IInv, NEW b \in Browsers, PageStep(b)
  PROVE  IInv'
<1>1. UNCHANGED <<items, version, lock, stored, req, answered, clashed>>
  BY DEF PageStep, watchlists, ListsRead, GotLists, ListsFail, StartLoad, LoadReads,
         LoadDone, LoadFails, server, told
<1>2. /\ copy \in [Browsers -> Versions \cup {None}]
      /\ lists \in [Browsers -> [step : Steps, got : Versions \cup {None}]]
      /\ rows \in [Browsers -> Contents]
      /\ load \in [Browsers -> [step : Steps, got : Contents \cup {None}]]
      /\ error \in [Browsers -> BOOLEAN]
      /\ version \in Versions \cup {0} /\ items \in Contents
  BY DEF IInv, TypeOK
<1>3. /\ IsPast(version, version) /\ IsPast(IF version = 0 THEN None ELSE version, version)
      /\ (IF version = 0 THEN None ELSE version) \in Versions \cup {None}
  BY <1>2 DEF IsPast
<1>4. /\ copy' \in [Browsers -> Versions \cup {None}]
      /\ lists' \in [Browsers -> [step : Steps, got : Versions \cup {None}]]
      /\ \A c \in Browsers \ {b} : copy'[c] = copy[c] /\ lists'[c] = lists[c]
  <2>1. CASE watchlists(b) \/ ListsFail(b)
    BY <2>1, <1>2 DEF watchlists, ListsFail
  <2>2. CASE ListsRead(b)
    <3> DEFINE v == IF version = 0 THEN None ELSE version
    <3>1. v \in Versions \cup {None} /\ lists' = [lists EXCEPT ![b] = Got(v)]
          /\ copy' = copy
      BY <2>2, <1>3 DEF ListsRead
    <3> HIDE DEF v
    <3>2. QED
      BY <3>1, <1>2
  <2>3. CASE GotLists(b)
    BY <2>3, <1>2 DEF GotLists
  <2>4. CASE StartLoad(b) \/ LoadReads(b) \/ LoadDone(b) \/ LoadFails(b)
    BY <2>4, <1>2 DEF StartLoad, LoadReads, LoadDone, LoadFails
  <2>5. QED
    BY <2>1, <2>2, <2>3, <2>4 DEF PageStep
<1>5. /\ rows' \in [Browsers -> Contents]
      /\ load' \in [Browsers -> [step : Steps, got : Contents \cup {None}]]
      /\ error' \in [Browsers -> BOOLEAN]
      /\ \A c \in Browsers \ {b} :
           rows'[c] = rows[c] /\ load'[c] = load[c] /\ error'[c] = error[c]
  <2>1. CASE watchlists(b) \/ ListsRead(b) \/ ListsFail(b)
    BY <2>1, <1>2 DEF watchlists, ListsRead, ListsFail
  <2>2. CASE GotLists(b) \/ StartLoad(b)
    BY <2>2, <1>2 DEF GotLists, StartLoad
  <2>3. CASE LoadReads(b)
    BY <2>3, <1>2 DEF LoadReads
  <2>4. CASE LoadDone(b)
    <3>1. load[b].got \in Contents
      BY <2>4 DEF LoadDone, IInv, LoadsRows
    <3>2. QED
      BY <3>1, <2>4, <1>2 DEF LoadDone
  <2>5. CASE LoadFails(b)
    BY <2>5, <1>2 DEF LoadFails
  <2>6. QED
    BY <2>1, <2>2, <2>3, <2>4, <2>5 DEF PageStep
<1>6. TypeOK'
  BY <1>1, <1>4, <1>5 DEF IInv, TypeOK
<1>7. LockHolds' /\ SawFits' /\ AnswersStored' /\ KeysHaveSymbols'
  BY <1>1 DEF IInv, KeysHaveSymbols, LockHolds, SawFits, AnswersStored, Kept, Busy, OneOf
<1>8. PageFits'
  <2> SUFFICES ASSUME NEW c \in Browsers, copy'[c] # None, copy'[c] = version'
               PROVE  /\ (load'[c] = Idle /\ ~error'[c]) => rows'[c] = items'
                      /\ load'[c].step = "read" => load'[c].got = items'
    BY DEF PageFits
  <2>1. CASE c # b
    BY <2>1, <1>1, <1>4, <1>5 DEF IInv, PageFits
  <2>2. CASE c = b
    <3>1. CASE watchlists(b) \/ ListsRead(b) \/ ListsFail(b)
      BY <3>1, <2>2, <1>1 DEF IInv, PageFits, watchlists, ListsRead, ListsFail
    <3>2. CASE GotLists(b) \/ StartLoad(b)
      BY <3>2, <2>2, <1>2 DEF GotLists, StartLoad
    <3>3. CASE LoadReads(b)
      BY <3>3, <2>2, <1>1, <1>2 DEF LoadReads
    <3>4. CASE LoadDone(b)
      BY <3>4, <2>2, <1>1, <1>2 DEF IInv, PageFits, LoadDone
    <3>5. CASE LoadFails(b)
      BY <3>5, <2>2, <1>1, <1>2 DEF LoadFails
    <3>6. QED
      BY <3>1, <3>2, <3>3, <3>4, <3>5 DEF PageStep
  <2>3. QED
    BY <2>1, <2>2
<1>9. LoadsRows'
  <2> SUFFICES ASSUME NEW c \in Browsers, load'[c].step = "read"
               PROVE  load'[c].got \in Contents
    BY DEF LoadsRows
  <2>1. CASE c # b \/ UNCHANGED load
    BY <2>1, <1>5 DEF IInv, LoadsRows
  <2>2. CASE c = b /\ ~UNCHANGED load
    <3>1. CASE LoadReads(b)
      BY <3>1, <2>2, <1>2 DEF LoadReads
    <3>2. CASE ~LoadReads(b)
      BY <3>2, <2>2, <1>2 DEF PageStep, watchlists, ListsRead, GotLists, ListsFail,
                              StartLoad, LoadDone, LoadFails
    <3>3. QED
      BY <3>1, <3>2
  <2>3. QED
    BY <2>1, <2>2
<1>10. NoFuture'
  <2> SUFFICES ASSUME NEW c \in Browsers
               PROVE  /\ IsPast(copy'[c], version')
                      /\ lists'[c].step = "read" => IsPast(lists'[c].got, version')
    BY <1>1 DEF IInv, NoFuture, IsPast, OneOf
  <2>1. IsPast(copy[c], version) /\ (lists[c].step = "read" => IsPast(lists[c].got, version))
    BY DEF IInv, NoFuture
  <2>2. CASE copy'[c] = copy[c] /\ lists'[c] = lists[c]
    BY <2>1, <2>2, <1>1
  <2>3. CASE c = b /\ ListsRead(b)
    <3> DEFINE v == IF version = 0 THEN None ELSE version
    <3>1. IsPast(v, version) /\ lists' = [lists EXCEPT ![b] = Got(v)] /\ copy' = copy
      BY <2>3, <1>3 DEF ListsRead
    <3> HIDE DEF v
    <3>2. QED
      BY <3>1, <2>1, <2>3, <1>1, <1>2
  <2>4. CASE c = b /\ ~ListsRead(b)
    BY <2>1, <2>4, <1>1, <1>2 DEF PageStep, watchlists, GotLists, ListsFail, StartLoad, LoadReads,
                            LoadDone, LoadFails
  <2>5. QED
    BY <2>2, <2>3, <2>4, <1>4
<1>11. QED
  BY <1>6, <1>7, <1>8, <1>10, <1>9 DEF IInv

(* A request is sent. *)
LEMMA SendKeeps ==
  ASSUME IInv, NEW r \in Requests, NEW b \in Browsers \cup {None}, NEW op \in Ops,
         NEW s \in Symbols \cup {None}, NEW v \in Versions \cup {None},
         NEW k \in Keys \cup {None}, Send(r, b, op, s, v, k),
         b # None => b \in Browsers /\ v = copy[b] /\ v # None,
         b = None => v = None, k # None => s \in Symbols /\ op = "add"
  PROVE  IInv'
<1> DEFINE saw == IF b # None /\ load[b] = Idle /\ ~error[b] THEN rows[b] ELSE None
<1>1. /\ req' \in [Requests -> Request \cup {None}]
      /\ \A q \in Requests : q # r => req'[q] = req[q]
      /\ req'[r].version = v /\ req'[r].key = k /\ req'[r].got = None
      /\ req'[r].phase \in {"sent", "tx"} /\ req'[r].symbol = s /\ req'[r].op = op
      /\ req'[r].saw = saw
  BY SendType DEF IInv
<1>2. UNCHANGED <<items, version, lock, stored, copy, lists, rows, load, error, answered, clashed>>
  BY DEF Send, server, page, told
<1>3. TypeOK'
  BY <1>1, <1>2 DEF IInv, TypeOK
<1>4. LockHolds' /\ AnswersStored' /\ KeysHaveSymbols'
  BY <1>1, <1>2 DEF IInv, LockHolds, AnswersStored, Kept, KeysHaveSymbols, Busy, OneOf
<1>5. PageFits' /\ LoadsRows'
  BY <1>2 DEF IInv, PageFits, LoadsRows
<1>6. SawFits'
  <2>1. saw # None => v # None /\ (v = version => saw = items)
    BY DEF IInv, PageFits
  <2> HIDE DEF saw
  <2>2. QED
    BY <2>1, <1>1, <1>2 DEF IInv, SawFits, OneOf
<1>7. NoFuture'
  <2>1. IsPast(v, version) /\ IsPast(None, version)
    BY DEF IInv, NoFuture, IsPast
  <2>2. QED
    BY <2>1, <1>1, <1>2 DEF IInv, NoFuture, OneOf, IsPast
<1>8. QED
  BY <1>3, <1>4, <1>5, <1>6, <1>7 DEF IInv

(* A request moves on, and the list stays what it is. *)
LEMMA MoveKeeps ==
  ASSUME IInv, NEW r \in Requests, OneOf(r), NEW phase \in Phases, NEW answer \in Answers,
         NEW got \in Versions \cup {None}, Moves(r, phase, answer, got),
         UNCHANGED <<items, version, page, answered>>,
         lock' \in Requests \cup {None}, stored' \in [Keys -> Symbols \cup {None, Foreign}],
         \A q \in Requests : (q # r /\ lock = q) => lock' = q,
         clashed' \subseteq Keys, \A k \in Keys : Kept(k) => WillBeKept(k),
         phase = "locked" =>
           /\ lock' = r /\ version # 0
           /\ req[r].op = "add" => Count(items) < MaxSymbols
           /\ req[r].version # None => req[r].version = version,
         phase = "done" => req[r].key # None,
         IsPast(got, version),
         (phase = "answered" /\ answer = "ok" /\ req[r].key # None) =>
           WillBeKept(req[r].key)
  PROVE  IInv'
<1>1. /\ req' \in [Requests -> Request \cup {None}]
      /\ req'[r] \in Request /\ req[r] \in Request
      /\ req'[r].phase = phase /\ req'[r].answer = answer /\ req'[r].got = got
      /\ req'[r].op = req[r].op /\ req'[r].symbol = req[r].symbol
      /\ req'[r].version = req[r].version /\ req'[r].key = req[r].key
      /\ req'[r].saw = req[r].saw
      /\ \A q \in Requests : q # r => req'[q] = req[q]
  BY MovesType DEF IInv
<1>2. UNCHANGED <<items, version, copy, lists, rows, load, error, answered>>
  BY DEF page
<1>3. TypeOK'
  BY <1>1, <1>2 DEF IInv, TypeOK
<1>4. LockHolds'
  <2> SUFFICES ASSUME NEW q \in Requests, Busy(q, "locked")'
               PROVE  /\ lock' = q /\ version' # 0
                      /\ req'[q].op = "add" => Count(items') < MaxSymbols
                      /\ req'[q].version # None => req'[q].version = version'
    BY <1>2 DEF LockHolds, Count
  <2>1. CASE q = r
    BY <2>1, <1>1, <1>2 DEF Busy
  <2>2. CASE q # r
    BY <2>2, <1>1, <1>2 DEF Busy, IInv, LockHolds
  <2>3. QED
    BY <2>1, <2>2
<1>5. PageFits' /\ LoadsRows'
  BY <1>2 DEF IInv, PageFits, LoadsRows
<1>6. SawFits' /\ NoFuture' /\ KeysHaveSymbols'
  BY <1>1, <1>2 DEF IInv, SawFits, NoFuture, KeysHaveSymbols, OneOf, IsPast
<1>7. AnswersStored'
  <2>1. \A k \in answered' : WillBeKept(k)
    BY <1>2 DEF IInv, TypeOK, AnswersStored
  <2>2. ASSUME NEW q \in Requests, Busy(q, "answered")', req'[q].answer = "ok",
               req'[q].key # None
        PROVE  WillBeKept(req'[q].key)
    <3>1. CASE q = r
      BY <2>2, <3>1, <1>1 DEF Busy, Kept, WillBeKept
    <3>2. CASE q # r
      <4>1. req[q].key \in Keys
        BY <2>2, <3>2, <1>1 DEF Busy, IInv, TypeOK, Request
      <4>2. QED
        BY <4>1, <2>2, <3>2, <1>1 DEF Busy, IInv, AnswersStored, Kept, WillBeKept
    <3>3. QED
      BY <3>1, <3>2
  <2>3. QED
    BY <2>1, <2>2 DEF AnswersStored, Kept, WillBeKept
<1>8. QED
  BY <1>3, <1>4, <1>5, <1>6, <1>7 DEF IInv

LEMMA ReplayKeeps ==
  ASSUME IInv, NEW r \in Requests,
         Replay(r) \/ Handle(r) \/ NotOnList(r) \/ EmptyPatch(r)
  PROVE  IInv'
<1>1. OneOf(r) /\ req[r] \in Request /\ IsPast(req[r].got, version) /\ IsPast(None, version)
  BY DEF Replay, Handle, NotOnList, EmptyPatch, Busy, OneOf, IInv, TypeOK, NoFuture, IsPast
<1>2. req[r].answer \in Answers /\ req[r].got \in Versions \cup {None}
  BY <1>1 DEF Request
<1>3. /\ lock \in Requests \cup {None} /\ stored \in [Keys -> Symbols \cup {None, Foreign}]
      /\ clashed \subseteq Keys
      /\ UNCHANGED <<stored, clashed>> => \A k \in Keys : Kept(k) => WillBeKept(k)
  BY DEF IInv, TypeOK, Kept, WillBeKept
<1>4. CASE Replay(r)
  <2>1. UNCHANGED <<items, version, lock, stored, page, answered, clashed>>
        /\ WillBeKept(req[r].key)
    BY <1>4 DEF Replay, server, Known, Kept, WillBeKept, told
  <2>2. Moves(r, "answered", "ok", None) \/ Moves(r, "answered", "error", None)
    BY <1>4 DEF Replay, Answer, Moves
  <2>3. QED
    BY <2>1, <2>2, <1>1, <1>3, MoveKeeps DEF Phases, Answers
<1>5. CASE Handle(r)
  <2>1. UNCHANGED <<items, version, lock, stored, page, answered, clashed>>
    BY <1>5 DEF Handle, server, told
  <2>2. Moves(r, "tx", req[r].answer, req[r].got) \/ Moves(r, "answered", "error", None)
    BY <1>5 DEF Handle, To, Answer, Moves
  <2>3. QED
    BY <2>1, <2>2, <1>1, <1>2, <1>3, MoveKeeps DEF Phases, Answers
<1>6. CASE NotOnList(r)
  <2>1. UNCHANGED <<items, version, stored, page, answered, clashed>>
        /\ lock' = IF lock = r THEN None ELSE lock
    BY <1>6 DEF NotOnList, Rollback, told
  <2>2. Moves(r, "answered", "error", None)
    BY <1>6 DEF NotOnList, Answer, Moves
  <2>3. QED
    BY <2>1, <2>2, <1>1, <1>3, MoveKeeps DEF Phases, Answers
<1>7. CASE EmptyPatch(r)
  <2>1. /\ UNCHANGED <<items, version, stored, page, answered, clashed>>
        /\ lock = r /\ lock' = None
    BY <1>7 DEF EmptyPatch, told, IInv, LockHolds
  <2>2. Moves(r, "answered", "ok", None)
    BY <1>7 DEF EmptyPatch, Answer, Moves
  <2>3. req[r].key = None
    BY <1>7, <1>1 DEF EmptyPatch, IInv, KeysHaveSymbols
  <2>4. QED
    BY <2>1, <2>2, <2>3, <1>1, <1>3, MoveKeeps DEF Phases, Answers
<1>8. QED
  BY <1>4, <1>5, <1>6, <1>7

LEMMA RequireOwnedKeeps ==
  ASSUME IInv, NEW r \in Requests, requireOwned(r)
  PROVE  IInv'
<1>1. OneOf(r) /\ req[r] \in Request /\ IsPast(req[r].got, version) /\ IsPast(None, version)
  BY DEF requireOwned, Busy, OneOf, IInv, TypeOK, NoFuture, IsPast
<1>2. req[r].answer \in Answers /\ req[r].got \in Versions \cup {None}
  BY <1>1 DEF Request
<1>3. /\ lock = None /\ stored \in [Keys -> Symbols \cup {None, Foreign}]
      /\ UNCHANGED <<items, version, stored, page, answered, clashed>>
      /\ clashed \subseteq Keys /\ \A k \in Keys : Kept(k) => WillBeKept(k)
  BY DEF requireOwned, Locks, IInv, TypeOK, told, Kept, WillBeKept
<1>4. CASE version = 0 \/ Full(r) \/ Conflict(r)
  <2>1. /\ lock' = lock
        /\ Moves(r, "answered", "conflict", None) \/ Moves(r, "answered", "error", None)
    BY <1>4 DEF requireOwned, Answer, Moves
  <2>2. QED
    BY <2>1, <1>1, <1>3, MoveKeeps DEF Phases, Answers
<1>5. CASE ~(version = 0 \/ Full(r) \/ Conflict(r))
  <2>1. lock' = r /\ Moves(r, "locked", req[r].answer, req[r].got)
    BY <1>5 DEF requireOwned, To, Moves
  <2>2. /\ version # 0
        /\ req[r].version # None => req[r].version = version
    BY <1>5 DEF Conflict
  <2>3. req[r].op = "add" => Count(items) < MaxSymbols
    <3>1. Count(items) \in Nat
      BY CountShrinks DEF IInv, TypeOK
    <3>2. QED
      BY <3>1, <1>5, LimitAssumption DEF Full
  <2>4. \A q \in Requests : (q # r /\ lock = q) => lock' = q
    BY <1>3, NoneAssumption
  <2>5. QED
    BY <2>1, <2>2, <2>3, <2>4, <1>1, <1>2, <1>3, MoveKeeps DEF Phases, Answers
<1>6. QED
  BY <1>4, <1>5

LEMMA PutIdempotentKeeps ==
  ASSUME IInv, NEW r \in Requests, putIdempotent(r)
  PROVE  IInv'
<1>1. OneOf(r) /\ req[r] \in Request /\ IsPast(req[r].got, version) /\ req[r].phase = "done"
  BY DEF putIdempotent, Busy, OneOf, IInv, TypeOK, NoFuture
<1>2. /\ req[r].answer \in Answers /\ req[r].got \in Versions \cup {None}
      /\ req[r].key \in Keys /\ req[r].symbol \in Symbols /\ req[r].symbol # None
  BY <1>1, NoneAssumption DEF Request, IInv, KeysHaveSymbols
<1>3. /\ lock \in Requests \cup {None} /\ stored \in [Keys -> Symbols \cup {None, Foreign}]
      /\ UNCHANGED <<items, version, lock, page, answered>>
      /\ Moves(r, "answered", req[r].answer, req[r].got)
  BY DEF putIdempotent, To, Moves, IInv, TypeOK
<1> DEFINE k == req[r].key
<1>4. /\ stored' = IF stored[k] # None THEN stored ELSE [stored EXCEPT ![k] = req[r].symbol]
      /\ clashed' = IF stored[k] = Foreign THEN clashed \cup {k} ELSE clashed \ {k}
  BY DEF putIdempotent
<1>5. /\ stored' \in [Keys -> Symbols \cup {None, Foreign}] /\ clashed' \subseteq Keys
      /\ WillBeKept(k) /\ \A j \in Keys : Kept(j) => WillBeKept(j)
  <2>1. /\ stored' \in [Keys -> Symbols \cup {None, Foreign}] /\ clashed' \subseteq Keys
    BY <1>2, <1>3, <1>4 DEF IInv, TypeOK
  <2>2. stored'[k] \in Symbols \/ k \in clashed'
    BY <1>2, <1>3, <1>4
  <2>3. \A j \in Keys \ {k} : stored'[j] = stored[j] /\ (j \in clashed => j \in clashed')
    BY <1>2, <1>3, <1>4
  <2>4. QED
    BY <2>1, <2>2, <2>3 DEF Kept, WillBeKept
<1> HIDE DEF k
<1> DEFINE phase == "answered"
           answer == req[r].answer
           got == req[r].got
<1>6. /\ OneOf(r) /\ phase \in Phases /\ answer \in Answers /\ got \in Versions \cup {None}
      /\ Moves(r, phase, answer, got) /\ IsPast(got, version)
  BY <1>1, <1>2, <1>3 DEF Phases
<1>7. /\ UNCHANGED <<items, version, page, answered>>
      /\ lock' \in Requests \cup {None} /\ stored' \in [Keys -> Symbols \cup {None, Foreign}]
      /\ \A q \in Requests : (q # r /\ lock = q) => lock' = q
      /\ clashed' \subseteq Keys
  BY <1>3, <1>5
<1>8. /\ \A j \in Keys : Kept(j) => WillBeKept(j)
      /\ WillBeKept(req[r].key)
  BY <1>5 DEF k, Kept, WillBeKept
<1>9. phase # "locked" /\ phase # "done"
  OBVIOUS
<1> HIDE DEF phase, answer, got
<1>10. QED
  BY <1>6, <1>7, <1>8, <1>9, MoveKeeps

(* The commit of a transaction. *)
LEMMA WriteKeeps ==
  ASSUME IInv, NEW r \in Requests, Write(r)
  PROVE  IInv'
<1>1. /\ OneOf(r) /\ req[r] \in Request /\ req[r].phase = "locked" /\ lock = r
  BY DEF Write, Busy, OneOf, IInv, TypeOK, LockHolds
<1>2. /\ items' \in Contents /\ Count(items') <= MaxSymbols
      /\ version' \in Versions /\ version \in Versions
      /\ version' = version + 1 \/ (version' = version /\ items' = items)
  BY WriteType DEF IInv
<1>3. UNCHANGED <<stored, copy, lists, rows, load, error, answered, clashed>> /\ lock' = None
  BY DEF Write, page, told
<1> DEFINE phase == IF req[r].key = None THEN "answered" ELSE "done"
           answer == IF req[r].op = "remove" /\ items[req[r].symbol] = None THEN "error" ELSE "ok"
           got == IF req[r].client = None THEN None ELSE version'
<1>4. /\ phase \in Phases /\ answer \in Answers /\ got \in Versions \cup {None}
      /\ Moves(r, phase, answer, got)
  BY <1>2 DEF Write, Phases, Answers, Moves
<1>5. /\ (phase = "answered" <=> req[r].key = None) /\ (phase = "done" <=> req[r].key # None)
      /\ phase # "locked" /\ (got = None \/ got = version')
  OBVIOUS
<1> HIDE DEF phase, answer, got
<1>6. /\ req' \in [Requests -> Request \cup {None}]
      /\ req'[r].phase = phase /\ req'[r].got = got
      /\ req'[r].symbol = req[r].symbol /\ req'[r].op = req[r].op
      /\ req'[r].version = req[r].version /\ req'[r].key = req[r].key
      /\ req'[r].saw = req[r].saw
      /\ \A q \in Requests : q # r => req'[q] = req[q]
  BY <1>1, <1>4, MovesType DEF IInv
<1>7. TypeOK'
  BY <1>2, <1>3, <1>6 DEF IInv, TypeOK, Count
<1>8. LockHolds'
  BY <1>1, <1>5, <1>6 DEF IInv, LockHolds, Busy
<1>9. /\ \A v \in Versions : (IsPast(v, version) /\ v # None /\ v = version') =>
           v = version /\ items' = items
      /\ \A v \in Versions \cup {None} : IsPast(v, version) => IsPast(v, version')
  <2>1. ASSUME NEW v \in Versions, IsPast(v, version), v # None
        PROVE  v <= version /\ v <= version' /\ (v = version' => v = version /\ items' = items)
    BY <2>1, <1>2, LimitAssumption DEF IsPast
  <2>2. QED
    BY <2>1 DEF IsPast
<1>10. PageFits' /\ LoadsRows'
  <2>1. LoadsRows'
    BY <1>3 DEF IInv, LoadsRows
  <2>2. \A b \in Browsers : copy[b] \in Versions \cup {None} /\ IsPast(copy[b], version)
    BY DEF IInv, TypeOK, NoFuture
  <2>3. QED
    BY <2>1, <2>2, <1>3, <1>9 DEF IInv, PageFits
<1>11. SawFits' /\ KeysHaveSymbols'
  <2>1. KeysHaveSymbols'
    BY <1>1, <1>5, <1>6 DEF IInv, KeysHaveSymbols, OneOf
  <2>2. \A q \in Requests : OneOf(q) =>
          req[q].version \in Versions \cup {None} /\ IsPast(req[q].version, version)
    BY DEF IInv, TypeOK, NoFuture, OneOf, Request
  <2>3. ASSUME NEW q \in Requests, OneOf(q)', req'[q].saw # None
        PROVE  req'[q].version # None /\ (req'[q].version = version' => req'[q].saw = items')
    <3>1. OneOf(q) /\ req'[q].saw = req[q].saw /\ req'[q].version = req[q].version
      BY <2>3, <1>1, <1>6 DEF OneOf
    <3>2. req[q].version # None /\ (req[q].version = version => req[q].saw = items)
      BY <3>1, <2>3 DEF IInv, SawFits
    <3>3. QED
      BY <3>1, <3>2, <2>2, <1>9
  <2>4. QED
    BY <2>1, <2>3 DEF SawFits
<1>12. NoFuture'
  <2>1. IsPast(got, version')
    BY <1>2, <1>5 DEF IsPast
  <2>2. \A b \in Browsers : /\ IsPast(copy'[b], version')
                            /\ lists'[b].step = "read" => IsPast(lists'[b].got, version')
    BY <1>3, <1>9 DEF IInv, TypeOK, NoFuture
  <2>3. \A q \in Requests : OneOf(q)' =>
          IsPast(req'[q].version, version') /\ IsPast(req'[q].got, version')
    BY <2>1, <1>1, <1>6, <1>9 DEF IInv, TypeOK, NoFuture, OneOf, Request
  <2>4. QED
    BY <2>2, <2>3 DEF NoFuture, IsPast
<1>13. AnswersStored'
  BY <1>3, <1>5, <1>6 DEF IInv, AnswersStored, Kept, WillBeKept, Busy
<1>14. QED
  BY <1>7, <1>8, <1>10, <1>11, <1>12, <1>13 DEF IInv

(* A request ends. *)
LEMMA LoseKeeps ==
  ASSUME IInv, NEW r \in Requests, Lose(r)
  PROVE  IInv'
<1>1. /\ req' = [req EXCEPT ![r] = None] /\ lock' = IF lock = r THEN None ELSE lock
      /\ UNCHANGED <<items, version, stored, copy, lists, rows, load, answered, clashed>>
      /\ lock \in Requests \cup {None}
      /\ req \in [Requests -> Request \cup {None}]
  BY DEF Lose, Rollback, IInv, TypeOK, told
<1>2. /\ req' \in [Requests -> Request \cup {None}] /\ req'[r] = None
      /\ \A q \in Requests : q # r => req'[q] = req[q]
  BY <1>1
<1>3. /\ error' \in [Browsers -> BOOLEAN]
      /\ \A b \in Browsers : ~error'[b] => ~error[b]
  BY DEF Lose, IInv, TypeOK
<1>4. TypeOK'
  BY <1>1, <1>2, <1>3 DEF IInv, TypeOK, Count
<1>5. LockHolds'
  BY <1>1, <1>2 DEF IInv, LockHolds, Busy, Count
<1>6. PageFits' /\ LoadsRows'
  BY <1>1, <1>3 DEF IInv, PageFits, LoadsRows
<1>7. SawFits' /\ NoFuture' /\ AnswersStored' /\ KeysHaveSymbols'
  BY <1>1, <1>2 DEF IInv, SawFits, NoFuture, AnswersStored, Kept, KeysHaveSymbols, Busy, OneOf,
                     IsPast
<1>8. QED
  BY <1>4, <1>5, <1>6, <1>7 DEF IInv

(* What an answer does to the page: it takes the version, or asks for the  *)
(* list, or shows the error.                                               *)
LEMMA ReceivePage ==
  ASSUME IInv, NEW r \in Requests, Receive(r)
  PROVE  /\ UNCHANGED rows
         /\ copy' \in [Browsers -> Versions \cup {None}]
         /\ lists' \in [Browsers -> [step : Steps, got : Versions \cup {None}]]
         /\ load' \in [Browsers -> [step : Steps, got : Contents \cup {None}]]
         /\ error' \in [Browsers -> BOOLEAN]
         /\ \A c \in Browsers :
              /\ IsPast(copy'[c], version)
              /\ lists'[c].step = "read" => IsPast(lists'[c].got, version)
              /\ \/ load'[c] = Asked
                 \/ copy'[c] = copy[c] /\ load'[c] = load[c] /\ (~error'[c] => ~error[c])
<1>1. /\ req[r] \in Request /\ IsPast(req[r].got, version)
  BY DEF Receive, Busy, OneOf, IInv, TypeOK, NoFuture
<1> DEFINE b == req[r].client
<1>2. b \in Browsers \cup {None} /\ req[r].got \in Versions \cup {None}
  BY <1>1 DEF Request
<1>3. /\ copy \in [Browsers -> Versions \cup {None}]
      /\ lists \in [Browsers -> [step : Steps, got : Versions \cup {None}]]
      /\ load \in [Browsers -> [step : Steps, got : Contents \cup {None}]]
      /\ error \in [Browsers -> BOOLEAN]
      /\ \A c \in Browsers :
           /\ IsPast(copy[c], version)
           /\ lists[c].step = "read" => IsPast(lists[c].got, version)
  BY DEF IInv, TypeOK, NoFuture
<1>4. CASE UNCHANGED page
  BY <1>3, <1>4 DEF page
<1>5. CASE /\ b \in Browsers /\ copy' = [copy EXCEPT ![b] = req[r].got]
           /\ load' = [load EXCEPT ![b] = Asked] /\ UNCHANGED <<lists, error, rows>>
  BY <1>1, <1>2, <1>3, <1>5
<1>6. CASE /\ b \in Browsers /\ lists' = [lists EXCEPT ![b] = Asked]
           /\ UNCHANGED <<copy, load, error, rows>>
  BY <1>3, <1>6
<1>7. CASE /\ b \in Browsers /\ error' = [error EXCEPT ![b] = @ \/ req[r].op # "add"]
           /\ UNCHANGED <<copy, lists, load, rows>>
  <2>1. error' \in [Browsers -> BOOLEAN] /\ \A c \in Browsers : ~error'[c] => ~error[c]
    BY <1>3, <1>7
  <2>2. QED
    BY <2>1, <1>3, <1>7
<1>8. QED
  BY <1>2, <1>4, <1>5, <1>6, <1>7 DEF Receive, AfterConflict

LEMMA ReceiveKeeps ==
  ASSUME IInv, NEW r \in Requests, Receive(r)
  PROVE  IInv'
<1>1. /\ Busy(r, "answered") /\ req' = [req EXCEPT ![r] = None]
      /\ UNCHANGED <<items, version, lock, stored, clashed>>
      /\ answered' = IF req[r].key # None /\ req[r].answer = "ok"
                     THEN answered \cup {req[r].key} ELSE answered
      /\ req \in [Requests -> Request \cup {None}]
  BY DEF Receive, server, IInv, TypeOK
<1>2. /\ req' \in [Requests -> Request \cup {None}] /\ req'[r] = None
      /\ \A q \in Requests : q # r => req'[q] = req[q]
      /\ req[r] \in Request
  BY <1>1 DEF Busy
<1>3. answered' \subseteq Keys /\ \A k \in answered' : WillBeKept(k)
  <2>1. req[r].key \in Keys \cup {None}
    BY <1>2 DEF Request
  <2>2. QED
    BY <2>1, <1>1 DEF IInv, TypeOK, AnswersStored, Kept, WillBeKept
<1>4. TypeOK'
  BY <1>1, <1>2, <1>3, ReceivePage DEF IInv, TypeOK, Count
<1>5. LockHolds' /\ SawFits' /\ KeysHaveSymbols'
  BY <1>1, <1>2 DEF IInv, LockHolds, SawFits, KeysHaveSymbols, Busy, OneOf, Count
<1>6. AnswersStored'
  BY <1>1, <1>2, <1>3 DEF IInv, AnswersStored, Kept, WillBeKept, Busy
<1>7. PageFits' /\ LoadsRows'
  BY <1>1, ReceivePage DEF IInv, PageFits, LoadsRows
<1>8. NoFuture'
  BY <1>1, <1>2, ReceivePage DEF IInv, NoFuture, OneOf
<1>9. QED
  BY <1>4, <1>5, <1>6, <1>7, <1>8 DEF IInv

(* Old answers are pruned. *)
LEMMA PruneKeeps ==
  ASSUME IInv, NEW k \in Keys, OthersStore(k) \/ pruneIdempotent(k)
  PROVE  IInv'
<1>1. UNCHANGED <<items, version, lock, req, copy, lists, rows, load, error>>
  BY DEF OthersStore, pruneIdempotent, page
<1>2. /\ stored \in [Keys -> Symbols \cup {None, Foreign}]
      /\ answered \subseteq Keys /\ clashed \subseteq Keys
  BY DEF IInv, TypeOK
<1>3. /\ stored' \in [Keys -> Symbols \cup {None, Foreign}]
      /\ \A j \in Keys : j # k => stored'[j] = stored[j]
      /\ answered' \subseteq answered /\ clashed' \subseteq clashed
      /\ \A j \in clashed : j # k => j \in clashed'
  BY <1>2 DEF OthersStore, pruneIdempotent, told
<1>4. \/ /\ stored[k] \notin Symbols /\ UNCHANGED <<answered, clashed>>
      \/ k \notin answered' /\ \A r \in Requests : req[r] # None => req[r].key # k
  BY <1>2, NoneAssumption, ForeignAssumption DEF OthersStore, pruneIdempotent, told
<1>5. \A j \in Keys : (j # k \/ (stored[k] \notin Symbols /\ UNCHANGED clashed)) =>
                       (Kept(j) => WillBeKept(j))
  BY <1>3 DEF Kept, WillBeKept
<1>6. TypeOK'
  BY <1>1, <1>2, <1>3 DEF IInv, TypeOK, Count
<1>7. LockHolds' /\ SawFits' /\ KeysHaveSymbols'
  BY <1>1 DEF IInv, LockHolds, SawFits, KeysHaveSymbols, Busy, OneOf, Count
<1>8. PageFits' /\ LoadsRows' /\ NoFuture'
  BY <1>1 DEF IInv, PageFits, LoadsRows, NoFuture, OneOf
<1>9. AnswersStored'
  <2>1. \A j \in answered' : WillBeKept(j)
    BY <1>2, <1>3, <1>4, <1>5 DEF IInv, AnswersStored
  <2>2. ASSUME NEW r \in Requests, Busy(r, "answered"), req[r].answer = "ok", req[r].key # None
        PROVE  WillBeKept(req[r].key)
    <3>1. req[r].key \in Keys /\ Kept(req[r].key) /\ req[r] # None
      BY <2>2 DEF Busy, IInv, TypeOK, Request, AnswersStored
    <3>2. QED
      BY <3>1, <1>1, <1>4, <1>5 DEF Kept, WillBeKept
  <2>3. QED
    BY <2>1, <2>2, <1>1 DEF AnswersStored, Busy, Kept, WillBeKept
<1>10. QED
  BY <1>6, <1>7, <1>8, <1>9 DEF IInv

(* The list is deleted: nobody holds it, and nobody knows version 0. *)
LEMMA DeleteKeeps ==
  ASSUME IInv, deleteWatchlist
  PROVE  IInv'
<1>1. /\ UNCHANGED <<lock, stored, req, copy, lists, rows, load, error, answered, clashed>>
      /\ version' = 0 /\ items' = Empty /\ lock = None
  BY DEF deleteWatchlist, page, told
<1>2. TypeOK'
  <2>1. items' \in Contents /\ Count(items') <= MaxSymbols
    BY <1>1, EmptyCount
  <2>2. QED
    BY <2>1, <1>1 DEF IInv, TypeOK, Count
<1>3. LockHolds'
  BY <1>1, NoneAssumption DEF IInv, LockHolds, Busy
<1>4. PageFits' /\ LoadsRows'
  BY <1>1 DEF IInv, TypeOK, PageFits, LoadsRows
<1>5. SawFits'
  <2>1. \A q \in Requests : OneOf(q) => req[q].version \in Versions \cup {None}
    BY DEF IInv, TypeOK, OneOf, Request
  <2>2. QED
    BY <2>1, <1>1 DEF IInv, SawFits, OneOf
<1>6. NoFuture' /\ KeysHaveSymbols' /\ AnswersStored'
  BY <1>1 DEF IInv, NoFuture, KeysHaveSymbols, AnswersStored, Kept, Busy, OneOf, IsPast
<1>7. QED
  BY <1>2, <1>3, <1>4, <1>5, <1>6 DEF IInv

-----------------------------------------------------------------------------
LEMMA InitIInv == Init => IInv
<1> SUFFICES ASSUME Init PROVE IInv
  OBVIOUS
<1>1. /\ items \in Contents /\ Count(items) = MaxSymbols /\ version = 1 /\ lock = None
      /\ stored = [k \in Keys |-> None] /\ req = [r \in Requests |-> None]
      /\ copy = [b \in Browsers |-> None] /\ lists = [b \in Browsers |-> Idle]
      /\ rows = [b \in Browsers |-> Empty] /\ load = [b \in Browsers |-> Idle]
      /\ error = [b \in Browsers |-> FALSE] /\ answered = {}
      /\ clashed = {}
  BY PrefsAssumption DEF Init, Contents
<1>2. TypeOK
  BY <1>1, EmptyCount, LimitAssumption DEF TypeOK
<1>3. QED
  BY <1>1, <1>2 DEF IInv, LockHolds, LoadsRows, PageFits, SawFits, NoFuture, IsPast,
                    AnswersStored, KeysHaveSymbols, Busy, OneOf

LEMMA StepIInv == IInv /\ [Next]_vars => IInv'
<1> SUFFICES ASSUME IInv, [Next]_vars PROVE IInv'
  OBVIOUS
<1>1. CASE UNCHANGED vars
  <2>1. UNCHANGED <<items, version, lock, stored, req, copy, lists, rows, load, error,
                    answered, clashed>>
    BY <1>1 DEF vars, server, page, told
  <2>2. QED
    BY <2>1 DEF IInv, TypeOK, LockHolds, LoadsRows, PageFits, SawFits, NoFuture,
                AnswersStored, Kept, KeysHaveSymbols, Busy, OneOf, Count
<1>2. ASSUME NEW b \in Browsers, PageStep(b) PROVE IInv'
  BY <1>2, PageKeeps
<1>3. ASSUME NEW b \in Browsers, NEW r \in Requests, NEW s \in Symbols,
             NEW op \in Ops \ {"reorder"}, Click(r, b, op, s)
      PROVE  IInv'
  <2>1. /\ Send(r, b, op, s, copy[b], None) /\ copy[b] # None
        /\ copy[b] \in Versions \cup {None} /\ op \in Ops
    BY <1>3 DEF Click, IInv, TypeOK
  <2>2. QED
    BY <2>1, SendKeeps, NoneAssumption
<1>4. ASSUME NEW r \in Requests, NEW s \in Symbols, NEW op \in Ops, Script(r, op, s)
      PROVE  IInv'
  <2>1. CASE op = "add" /\ \E k \in Keys : Send(r, None, op, s, None, k)
    BY <2>1, SendKeeps
  <2>2. CASE Send(r, None, op, s, None, None) \/ Send(r, None, op, None, None, None)
    BY <2>2, SendKeeps
  <2>3. QED
    BY <1>4, <2>1, <2>2 DEF Script
<1>5. ASSUME NEW r \in Requests,
             Replay(r) \/ Handle(r) \/ NotOnList(r) \/ EmptyPatch(r)
      PROVE  IInv'
  BY <1>5, ReplayKeeps
<1>6. ASSUME NEW r \in Requests,
             requireOwned(r) \/ Write(r) \/ putIdempotent(r) \/ Receive(r) \/ Lose(r)
      PROVE  IInv'
  BY <1>6, RequireOwnedKeeps, WriteKeeps, PutIdempotentKeeps, ReceiveKeeps, LoseKeeps
<1>7. CASE deleteWatchlist \/ \E k \in Keys : OthersStore(k) \/ pruneIdempotent(k)
  BY <1>7, PruneKeeps, DeleteKeeps
<1>8. QED
  BY <1>1, <1>2, <1>3, <1>4, <1>5, <1>6, <1>7 DEF Next, PageStep

LEMMA Inductive == Spec => []IInv
BY InitIInv, StepIInv, PTL DEF Spec

(* However many requests add at once, the list keeps to its limit: they    *)
(* count under the lock of the row (userRepo.ts, addItem).                 *)
THEOREM ListsTypes == Spec => []TypeOK
<1>1. IInv => TypeOK
  BY DEF IInv
<1>2. QED
  BY <1>1, Inductive, PTL

(* A version that still fits when the row is locked means that the page    *)
(* showed what the list holds (userRepo.ts, requireOwned; App.tsx,         *)
(* mutateList).                                                            *)
THEOREM NothingBlind == Spec => NoBlindWrite
<1>1. IInv /\ [Next]_vars =>
        [\A r \in Requests :
           (/\ Busy(r, "locked") /\ req[r].saw # None
            /\ req'[r] # None /\ req'[r].answer = "ok") => req[r].saw = items]_vars
  BY DEF IInv, LockHolds, SawFits, Busy, OneOf
<1>2. QED
  BY <1>1, Inductive, PTL DEF Spec, NoBlindWrite

(* A key that has been answered is found again, until it is pruned, unless *)
(* another user held it at the answer (server.ts, withIdempotency).        *)
THEOREM AnswersOnce == Spec => AnsweredOnce
<1>1. ASSUME IInv, [Next]_vars, NEW r \in Requests,
             Busy(r, "sent"), req'[r] # None, req'[r].phase = "tx"
      PROVE  req[r].key \notin answered \ clashed
  <2>1. Handle(r) /\ ~Known(r)
    <3>1. req \in [Requests -> Request \cup {None}] /\ req'[r] # req[r]
      BY <1>1 DEF Busy, IInv, TypeOK
    <3>2. ~UNCHANGED req /\ req[r].phase = "sent" /\ req[r] \in Request
      BY <1>1, <3>1 DEF Busy
    <3>3. ~UNCHANGED vars
      BY <3>2 DEF vars
    <3>4. \A b \in Browsers : ~PageStep(b)
      BY <3>2 DEF PageStep, watchlists, ListsRead, GotLists, ListsFail, StartLoad, LoadReads,
                  LoadDone, LoadFails
    <3>5. ~deleteWatchlist /\ \A k \in Keys : ~OthersStore(k) /\ ~pruneIdempotent(k)
      BY <3>2 DEF OthersStore, pruneIdempotent, deleteWatchlist
    <3>6. ASSUME NEW q \in Requests, NEW b, NEW op, NEW s, NEW v, NEW k,
                 Send(q, b, op, s, v, k)
          PROVE  FALSE
      BY <3>6, <3>1, <1>1 DEF Send, Busy
    <3>7. ASSUME NEW q \in Requests, Receive(q) \/ Lose(q) PROVE FALSE
      BY <3>7, <3>1, <1>1 DEF Receive, Lose
    <3>8. ASSUME NEW q \in Requests,
                 \/ Replay(q) \/ Handle(q) \/ requireOwned(q)
                 \/ Write(q) \/ EmptyPatch(q) \/ NotOnList(q) \/ putIdempotent(q)
          PROVE  q = r /\ (Replay(r) \/ Handle(r))
      <4>1. \E phase \in Phases, answer \in Answers, got \in Versions \cup {None} :
              OneOf(q) /\ Moves(q, phase, answer, got)
        BY <3>8, HandlerMoves, <1>1 DEF IInv
      <4>2. q = r
        BY <4>1, <3>1 DEF Moves
      <4>3. QED
        BY <4>2, <3>8, <3>2 DEF requireOwned, Write, EmptyPatch, NotOnList, putIdempotent, Busy
    <3>9. ~Replay(r)
      <4>1. SUFFICES ASSUME Replay(r) PROVE FALSE
        OBVIOUS
      <4>2. Moves(r, "answered", "ok", None) \/ Moves(r, "answered", "error", None)
        BY <4>1 DEF Replay, Answer, Moves
      <4>3. req'[r].phase = "answered"
        BY <4>2, <1>1, MovesType DEF IInv, OneOf, Busy, Phases, Answers
      <4>4. QED
        BY <4>3, <1>1
    <3>10. Next
      BY <1>1, <3>3
    <3>11. Handle(r)
      BY <3>4, <3>5, <3>6, <3>7, <3>8, <3>9, <3>10 DEF Next, PageStep, Click, Script
    <3>12. QED
      BY <3>11 DEF Handle
  <2>2. answered \subseteq Keys /\ \A k \in answered \ clashed : stored[k] \in Symbols
    BY <1>1 DEF IInv, TypeOK, AnswersStored, Kept
  <2>3. QED
    BY <2>1, <2>2, NoneAssumption DEF Known
<1>2. IInv /\ [Next]_vars =>
        [\A r \in Requests :
           (Busy(r, "sent") /\ req'[r] # None /\ req'[r].phase = "tx") =>
             req[r].key \notin answered \ clashed]_vars
  BY <1>1
<1>3. QED
  BY <1>2, Inductive, PTL DEF Spec, AnsweredOnce

-----------------------------------------------------------------------------
(* The checkpoint of one symbol, of Watermarks. *)

USE DEF Times, Optional

(* A briefing in progress starts no earlier than what its user had         *)
(* acknowledged when it was requested.                                     *)
CutoffCovers ==
  \A d \in Devices : pc[d] = "reading" => \A at \in covered[d] : at <= cutoff[d]

MarksInv == MTypeOK /\ SettlesOnLatest /\ PrevIsOlder /\ CutoffCovers

-----------------------------------------------------------------------------
LEMMA WindowStartType ==
  ASSUME MTypeOK
  PROVE  WindowStart \in Times /\ (mark # Absent => mark.seenAt <= WindowStart)
<1>1. sessionsAgo(Lookback) \in Times /\ sessionsAgo(MaxLookback) \in Times
  BY BoundsAssumption DEF sessionsAgo, MTypeOK
<1>2. mark # Absent => mark.seenAt \in Times
  BY DEF MTypeOK, Marks
<1>3. QED
  BY <1>1, <1>2, BoundsAssumption DEF WindowStart

(* What an undo leaves is a row whose previous checkpoint is used up, or none. *)
LEMMA UndoType ==
  ASSUME NEW m \in Marks
  PROVE  /\ Cleared(Restored(m)) \in Optional(Marks)
         /\ Cleared(Restored(m)) = Absent \/ Cleared(Restored(m)).prevSeenAt = Absent
<1>1. CASE m.prevSeenAt = Absent
  BY <1>1 DEF Cleared, Restored
<1>2. CASE m.prevSeenAt # Absent
  BY <1>2, AbsentAssumption DEF Cleared, Restored, Marks
<1>3. QED
  BY <1>1, <1>2

LEMMA AdvancedType ==
  ASSUME MTypeOK, NEW at \in Times, NEW p \in Optional(Prices)
  PROVE  /\ Advanced(at, p) \in Marks /\ Advanced(at, p) # Absent
         /\ Advanced(at, p).seenAt = at
         /\ mark = Absent => Advanced(at, p).prevSeenAt = Absent
         /\ mark # Absent => Advanced(at, p).prevSeenAt = mark.seenAt
<1>1. Advanced(at, p) \in Marks
  BY DEF Advanced, Marks, MTypeOK
<1>2. QED
  BY <1>1, AbsentAssumption DEF Advanced

LEMMA CheckpointType == MTypeOK => checkpoint \in Optional(Checkpoints)
  BY DEF MTypeOK, checkpoint, Marks, Checkpoints

-----------------------------------------------------------------------------
LEMMA MarksInit == MInit => MarksInv
  BY BoundsAssumption
  DEF MInit, MarksInv, MTypeOK, SettlesOnLatest, PrevIsOlder, CutoffCovers, Labels, NoUndo,
      Marks, primary

LEMMA StepTypeOK == MTypeOK /\ [MNext]_mvars => MTypeOK'
<1> SUFFICES ASSUME MTypeOK, [MNext]_mvars PROVE MTypeOK'
  OBVIOUS
<1> USE DEF MTypeOK, Labels, request, history
<1>1. CASE Tick
  BY <1>1, BoundsAssumption DEF Tick
<1>2. CASE Requote
  BY <1>2 DEF Requote
<1>3. CASE Undo
  <2>1. mark' \in Optional(Marks)
    BY <1>3, UndoType DEF Undo
  <2>2. QED
    BY <1>3, <2>1 DEF Undo, TakenBack, NoUndo
<1>4. CASE Rewind
  <2>1. PICK at \in 0 .. clock - 1, p \in Optional(Prices) :
          /\ mark' = [seenAt |-> at, seenPrice |-> p,
                      prevSeenAt |-> Absent, prevSeenPrice |-> Absent]
          /\ TakenBack(NoUndo, {at})
          /\ UNCHANGED <<clock, quote, cycle, signals, replica, request>>
    BY <1>4 DEF Rewind
  <2>2. at \in Times
    BY BoundsAssumption
  <2>3. mark' \in Marks
    BY <2>1, <2>2 DEF Marks
  <2>4. QED
    BY <2>1, <2>2, <2>3 DEF TakenBack, NoUndo
<1>5. ASSUME NEW s \in Signals, Detect(s) PROVE MTypeOK'
  BY <1>5 DEF Detect
<1>6. ASSUME NEW s \in Signals, InsertSignal(s) PROVE MTypeOK'
  BY <1>6 DEF InsertSignal
<1>7. ASSUME NEW d \in Devices, AckBegin(d) PROVE MTypeOK'
  BY <1>7 DEF AckBegin
<1>8. ASSUME NEW d \in Devices, AckPrice(d) PROVE MTypeOK'
  BY <1>8 DEF AckPrice
<1>9. ASSUME NEW d \in Devices, AckWrite(d) PROVE MTypeOK'
  <2>1. Advanced(now[d], price[d]) \in Marks
    BY AdvancedType
  <2>2. now[d] \in Times /\ 0 \in Times
    BY BoundsAssumption
  <2>3. [known |-> TRUE, to |-> checkpoint] \in [known : BOOLEAN, to : Optional(Checkpoints)]
    BY CheckpointType
  <2>4. CASE NotOlder(now[d])
    BY <1>9, <2>1, <2>2, <2>3, <2>4 DEF AckWrite, Done
  <2>5. CASE ~NotOlder(now[d])
    BY <1>9, <2>2, <2>5 DEF AckWrite, Done
  <2>6. QED
    BY <2>4, <2>5
<1>10. ASSUME NEW d \in Devices, DigestMarks(d) PROVE MTypeOK'
  BY <1>10, WindowStartType DEF DigestMarks
<1>11. ASSUME NEW d \in Devices, DigestSignals(d) PROVE MTypeOK'
  BY <1>11, BoundsAssumption DEF DigestSignals, Done
<1>12. CASE Replicate
  BY <1>12 DEF Replicate, primary
<1>13. CASE UNCHANGED mvars
  BY <1>13 DEF mvars
<1>14. QED
  BY <1>1, <1>2, <1>3, <1>4, <1>5, <1>6, <1>7, <1>8, <1>9, <1>10, <1>11, <1>12, <1>13 DEF MNext

(* Only the acknowledgements and what takes them back touch the row, and   *)
(* only the start of a briefing sets its cutoff.                           *)
LEMMA MarksStep == MarksInv /\ [MNext]_mvars => MarksInv'
<1> SUFFICES ASSUME MarksInv, [MNext]_mvars PROVE MarksInv'
  OBVIOUS
<1>t. MTypeOK /\ MTypeOK'
  BY StepTypeOK DEF MarksInv
<1> DEFINE Rest == SettlesOnLatest /\ PrevIsOlder /\ CutoffCovers
<1> USE DEF SettlesOnLatest, PrevIsOlder, CutoffCovers
<1>r. Rest
  BY DEF MarksInv
<1>1. ASSUME UNCHANGED <<mark, since, covered, pc, cutoff>> PROVE Rest'
  BY <1>1, <1>r
<1>2. ASSUME Undo PROVE Rest'
  <2>1. mark' = Absent \/ mark'.prevSeenAt = Absent
    BY <1>2, <1>t, UndoType DEF Undo, MTypeOK
  <2>2. since' = {} /\ covered' = [d \in Devices |-> {}]
    BY <1>2 DEF Undo, TakenBack
  <2>3. QED
    BY <2>1, <2>2
<1>3. ASSUME Rewind PROVE Rest'
  <2>1. PICK at \in 0 .. clock - 1, p \in Optional(Prices) :
          /\ mark' = [seenAt |-> at, seenPrice |-> p,
                      prevSeenAt |-> Absent, prevSeenPrice |-> Absent]
          /\ TakenBack(NoUndo, {at})
    BY <1>3 DEF Rewind
  <2>2. mark' \in Marks
    BY <2>1, <1>t, BoundsAssumption DEF Marks, MTypeOK
  <2>3. QED
    BY <2>1, <2>2, <1>t, AbsentAssumption DEF TakenBack, MTypeOK
<1>4. ASSUME NEW d \in Devices, AckBegin(d) \/ AckPrice(d) PROVE Rest'
  <2>1. /\ UNCHANGED <<mark, since, covered, cutoff>>
        /\ \A e \in Devices : pc'[e] = "reading" => pc[e] = "reading"
    BY <1>4, <1>t DEF AckBegin, AckPrice, history, MTypeOK
  <2>2. QED
    BY <2>1, <1>r
<1>5. ASSUME NEW d \in Devices, AckWrite(d) PROVE Rest'
  <2>1. CutoffCovers'
    <3>1. /\ covered' = covered
          /\ \A e \in Devices : pc'[e] = "reading" => pc[e] = "reading" /\ cutoff'[e] = cutoff[e]
      BY <1>5, <1>t DEF AckWrite, Done, MTypeOK
    <3>2. QED
      BY <3>1, <1>r
  <2>2. CASE ~NotOlder(now[d])
    BY <1>5, <2>1, <2>2, <1>r DEF AckWrite
  <2>3. CASE NotOlder(now[d])
    <3>1. mark' = Advanced(now[d], price[d]) /\ since' = since \cup {now[d]}
      BY <1>5, <2>3 DEF AckWrite
    <3>2. now[d] \in Times /\ price[d] \in Optional(Prices)
      BY <1>t DEF MTypeOK
    <3>3. /\ mark' # Absent /\ mark'.seenAt = now[d]
          /\ mark = Absent => mark'.prevSeenAt = Absent
          /\ mark # Absent => mark'.prevSeenAt = mark.seenAt
      BY <3>1, <3>2, <1>t, AdvancedType
    <3>4. mark # Absent => mark.seenAt \in Times /\ mark.seenAt <= now[d]
      BY <2>3, <1>t DEF NotOlder, MTypeOK, Marks
    <3>5. SettlesOnLatest'
      <4>1. \A at \in since : at <= now[d]
        BY <3>2, <3>4, <1>r, <1>t DEF MTypeOK
      <4>2. QED
        BY <4>1, <3>1, <3>2, <3>3
    <3>6. PrevIsOlder'
      BY <3>3, <3>4
    <3>7. QED
      BY <2>1, <3>5, <3>6
  <2>4. QED
    BY <2>2, <2>3
<1>6. ASSUME NEW d \in Devices, DigestMarks(d) PROVE Rest'
  <2>1. UNCHANGED <<mark, since>>
    BY <1>6 DEF DigestMarks
  <2>2. \A at \in since : at <= WindowStart
    <3>1. mark # Absent => mark.seenAt \in Times /\ mark.seenAt <= WindowStart
      BY <1>t, WindowStartType DEF MTypeOK, Marks
    <3>2. WindowStart \in Times /\ since \subseteq Times
      BY <1>t, WindowStartType DEF MTypeOK
    <3>3. ASSUME NEW at \in since PROVE at <= WindowStart
      <4>1. mark # Absent /\ at <= mark.seenAt
        BY <3>3, <1>r
      <4>2. at \in Int /\ mark.seenAt \in Int /\ WindowStart \in Int
        BY <3>1, <3>2, <3>3, <4>1, BoundsAssumption
      <4>3. QED
        BY <3>1, <4>1, <4>2
    <3>4. QED
      BY <3>3
  <2>3. \A e \in Devices :
          IF e = d THEN covered'[e] = since /\ cutoff'[e] = WindowStart
          ELSE covered'[e] = covered[e] /\ cutoff'[e] = cutoff[e] /\ pc'[e] = pc[e]
    BY <1>6, <1>t DEF DigestMarks, MTypeOK
  <2>4. CutoffCovers'
    BY <2>2, <2>3, <1>r
  <2>5. QED
    BY <2>1, <2>4, <1>r
<1>7. ASSUME NEW d \in Devices, DigestSignals(d) PROVE Rest'
  <2>1. /\ UNCHANGED <<mark, since, covered>>
        /\ \A e \in Devices : pc'[e] = "reading" => pc[e] = "reading" /\ cutoff'[e] = cutoff[e]
    BY <1>7, <1>t DEF DigestSignals, Done, history, MTypeOK
  <2>2. QED
    BY <2>1, <1>r
<1>8. Rest'
  <2>1. ASSUME \/ Tick \/ Requote \/ Replicate \/ UNCHANGED mvars
               \/ \E s \in Signals : Detect(s) \/ InsertSignal(s)
        PROVE  UNCHANGED <<mark, since, covered, pc, cutoff>>
    BY <2>1 DEF Tick, Requote, Replicate, Detect, InsertSignal, mvars, request, history
  <2>2. QED
    BY <1>1, <1>2, <1>3, <1>4, <1>5, <1>6, <1>7, <2>1 DEF MNext
<1>9. QED
  BY <1>t, <1>8 DEF MarksInv

-----------------------------------------------------------------------------
LEMMA MarksInvariant == MSpec => []MarksInv
  BY MarksInit, MarksStep, PTL DEF MSpec

(* The row, the requests and the history keep their types. *)
THEOREM MarksTypes == MSpec => []MTypeOK
<1>1. MarksInv => MTypeOK
  BY DEF MarksInv
<1>2. QED
  BY <1>1, MarksInvariant, PTL

(* advanceMarks: however the statements of devices that acknowledge at once *)
(* interleave, the checkpoint ends at the latest of their instants, and the *)
(* one that undo would bring back is not after it.                          *)
THEOREM ConcurrentAcks == MSpec => [](SettlesOnLatest /\ PrevIsOlder)
<1>1. MarksInv => SettlesOnLatest /\ PrevIsOlder
  BY DEF MarksInv
<1>2. QED
  BY <1>1, MarksInvariant, PTL

(* GET /api/digest: marks and signals are read apart, yet no briefing shows *)
(* what an acknowledgement had covered when it was requested.               *)
THEOREM BriefingsDoNotRepeat == MSpec => []NotReshown
<1>1. MarksInv => NotReshown
  <2> SUFFICES ASSUME MarksInv, NEW d \in Devices, pc[d] = "reading",
                      NEW s \in Briefing(cutoff[d]), NEW at \in covered[d]
               PROVE  replica.signals[s] > at
    BY DEF NotReshown
  <2>1. s \in Signals /\ replica.signals[s] # Absent /\ replica.signals[s] > cutoff[d]
    BY DEF Briefing
  <2>2. replica.signals[s] \in Times /\ cutoff[d] \in Times /\ at \in Times
    BY <2>1 DEF MarksInv, MTypeOK
  <2>3. at <= cutoff[d]
    BY DEF MarksInv, CutoffCovers
  <2>4. QED
    BY <2>1, <2>2, <2>3
<1>2. QED
  BY <1>1, MarksInvariant, PTL
=============================================================================
