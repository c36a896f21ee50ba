-------------------------- MODULE DetectionSerial --------------------------
(***************************************************************************)
(* Detection as the scheduler runs it when nothing goes wrong: cycles of a *)
(* symbol one after another.  The module adds a history variable, relates  *)
(* the two tables to each other, and shows that the engine implements      *)
(* Episodes.  It is meant for one worker and Faults = FALSE; with more the *)
(* statements below are false (README, section 6).                         *)
(***************************************************************************)
EXTENDS Detection

VARIABLE
  ended   \* history: kind -> discriminators some reading has ended, or
          \* that were never announced

svars == <<vars, ended>>

SInit == Init /\ ended = [k \in Kinds |-> Discs]

(* Reading o, as the machine sees it, ends every condition when it is     *)
(* below exit and every other condition when it is not.                   *)
EndedBy(o) == IF o.value < Exit[o.kind] THEN Discs ELSE Discs \ {o.disc}

SObserve(w, o, trusted) ==
  /\ Observe(w, o, trusted)
  /\ ended' = [ended EXCEPT ![o.kind] = @ \cup EndedBy(Suppress(o, trusted))]

SInsert(w) ==
  /\ Insert(w)
  /\ ended' = [k \in Kinds |->
       ended[k] \ {discriminatorOf(id[2]) : id \in {x \in announced' \ announced : x[1] = k}}]

SOther(w) ==
  /\ \/ Begin(w) \/ Fetch(w) \/ ReadStates(w) \/ SkipKind(w)
     \/ Supersede(w) \/ Intensify(w) \/ PutStates(w)
  /\ UNCHANGED ended

SNext ==
  \/ (Tick \/ Prune) /\ UNCHANGED ended
  \/ \E w \in Workers :
       \/ \E o \in Observations(i[w]), t \in BOOLEAN : SObserve(w, o, t)
       \/ SInsert(w)
       \/ SOther(w)

SSpec == SInit /\ [][SNext]_svars

(* An absent value is no discriminator, no row of the machine, no instant. *)
ASSUME AbsentAssumption == None \notin Discs \cup StateRows \cup Times
-----------------------------------------------------------------------------
allIdle == \A w \in Workers : pc[w] = "idle"
wasAnnounced(k) == \E id \in announced : id[1] = k

(* The open rows of a kind are exactly the row of the episode `row` tracks, *)
(* or none when that episode was adopted silently, which happens before any *)
(* announcement of the kind.                                                *)
rowAgrees(k, row) ==
  IF ~inEpisode(row) THEN OpenRows(k) = {}
  ELSE \/ OpenRows(k) = {<<k, row.key>>}
       \/ k \in StateKinds /\ OpenRows(k) = {} /\ ~wasAnnounced(k)

(* Between cycles the two tables agree: what is open in `signals` is what  *)
(* the machine tracks in `signal_state`, kind by kind.                     *)
TablesAgree == allIdle => \A k \in Kinds : rowAgrees(k, state[k])

(* A value hovering around one threshold does not chatter: between two     *)
(* announcements of the same kind and discriminator lies a reading that    *)
(* ended the first, one below exit or of another discriminator.  A         *)
(* suppressed reading counts as zero, so a stale feed ends episodes too.   *)
NoChatter ==
  [][\A k \in Kinds, d \in Discs, t \in Times :
       <<k, <<d, t>>>> \in announced' \ announced => d \in ended[k]]_svars

(* Refinement mapping: the standing item of a kind is its open row, or the *)
(* tracked episode that has no row because it was adopted silently.        *)
StandingItem(k) ==
  IF OpenRows(k) # {} THEN discriminatorOf((CHOOSE id \in OpenRows(k) : TRUE)[2])
  ELSE IF isTracked(k) THEN IF <<k, state[k].key>> \in announced THEN None
                            ELSE discriminatorOf(state[k].key)
       ELSE None

standing == [k \in Kinds |-> StandingItem(k)]
announcements == [k \in Kinds |-> Cardinality({id \in announced : id[1] = k})]
lookedAt == {k \in Kinds : state[k] # None}

Promise == INSTANCE Episodes WITH
  open <- standing, told <- announcements, known <- lookedAt

(* The cycle implements what Episodes promises. *)
ImplementsEpisodes == Promise!Spec
-----------------------------------------------------------------------------
(* The inductive invariant behind the three statements, for the one worker *)
(* there is.  Within a cycle the row that counts for a kind is the one the *)
(* cycle is going to write, else the stored one.                           *)
effective(w, k) == IF writes[w][k] = None THEN state[k] ELSE writes[w][k]

Started(w) == pc[w] \notin {"idle", "fetch", "read"}

(* apply() has yet to close or insert the row of kind k. *)
Rewriting(w, k) == k = i[w] /\ pc[w] \in {"supersede", "insert"}

(* Kinds the loop has not reached: nothing to write, the snapshot current. *)
Ahead(w, k) == k > i[w] \/ (k = i[w] /\ pc[w] \notin {"supersede", "insert", "intensify"})

Untouched(w, k) ==
  writes[w][k] = None /\ (Started(w) => snap[w][k] = state[k])

(* An episode without an open row was adopted in this cycle or before it.  *)
Adopted(w, k) ==
  (writes[w][k] # None /\ inEpisode(writes[w][k]) /\ OpenRows(k) = {})
    => state[k] = None \/ (inEpisode(state[k]) /\ state[k].key = writes[w][k].key)

(* What the insert of the outcome relies on: the episode to announce is    *)
(* the one to be written, in another character than the standing one, and  *)
(* whatever was announced before has ended.                                *)
MayAnnounce(w, k) ==
  /\ writes[w][k].key = out[w].key
  /\ inEpisode(state[k]) => discriminatorOf(state[k].key) # discriminatorOf(out[w].key)
  /\ Discs \subseteq ended[k]

MidApply(w, k) ==
  /\ writes[w][k] # None
  /\ pc[w] = "insert" => MayAnnounce(w, k) /\ OpenRows(k) = {}
  /\ pc[w] = "supersede" =>
       /\ inEpisode(state[k]) /\ rowAgrees(k, state[k])
       /\ out[w].closing = state[k].key
       /\ IF out[w].action = "reopen" THEN MayAnnounce(w, k) ELSE ~inEpisode(writes[w][k])

KindOK(w, k) ==
  /\ Ahead(w, k) => Untouched(w, k)
  /\ wasAnnounced(k) => effective(w, k) # None
  /\ \A d \in Discs \ ended[k] :
       inEpisode(effective(w, k)) /\ discriminatorOf(effective(w, k).key) = d
  /\ IF Rewriting(w, k) THEN MidApply(w, k)
     ELSE rowAgrees(k, effective(w, k)) /\ Adopted(w, k)

(* Keys are stamped with the cycle's instant: a key of this instant is of  *)
(* a kind the loop has passed, so an insert never meets an existing row.   *)
Stamped(w) ==
  \A id \in announced :
    /\ openedAt(id) <= now[w]
    /\ pc[w] # "idle" /\ openedAt(id) = now[w] => id[1] < i[w]

WorkerInv(w) ==
  /\ ~Started(w) => i[w] = 1
  /\ Stamped(w)
  /\ \A k \in Kinds : KindOK(w, k)

SerialInv ==
  /\ IsFiniteSet(announced)
  /\ ended \in [Kinds -> SUBSET Discs]
  /\ \A w \in Workers : WorkerInv(w)
=============================================================================
