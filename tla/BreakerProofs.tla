--------------------------- MODULE BreakerProofs ---------------------------
(***************************************************************************)
(* Theorems about the safety of Breaker, by itself and as the registry     *)
(* uses it, for any number of calls and callers and any limits, as long as *)
(* a call ends before the cooldown does.                                   *)
(***************************************************************************)
EXTENDS Registry, FiniteSetTheorems, WellFoundedInduction, TLAPS

(* The types of what the breaker decides by, the rolling window aside. *)
CoreTypes ==
  /\ state \in {"closed", "open", "half_open"}
  /\ openAge \in 0 .. OpenFor
  /\ probesInFlight \in Nat /\ probeSuccesses \in Nat
  /\ calls \in [Calls -> Idle .. CallTime]
  /\ proofs \in Nat

(* A call under way while the breaker is open was admitted before it opened. *)
OpenAdmitsNobody ==
  state = "open" => \A c \in InFlight : openAge <= calls[c]

(* Half-open, a call under way holds the only probe slot ... *)
SlotIsHeld ==
  state = "half_open" =>
    /\ InFlight # {} => probesInFlight >= 1
    /\ \A c, d \in InFlight : c = d

(* ... and was admitted since the cooldown, as were the successes counted. *)
SuccessesAreProofs ==
  state = "half_open" => InFlight \subseteq probes /\ probeSuccesses <= proofs

IInv == CoreTypes /\ OpenAdmitsNobody /\ SlotIsHeld /\ SuccessesAreProofs

USE DEF Idle

-----------------------------------------------------------------------------
LEMMA FinishEnds ==
  ASSUME CoreTypes, NEW c \in Calls, Finish(c)
  PROVE  /\ InFlight' = InFlight \ {c}
         /\ \A d \in InFlight' : calls'[d] = calls[d]
         /\ calls' \in [Calls -> Idle .. CallTime]
<1>1. calls' = [calls EXCEPT ![c] = Idle] /\ Idle \in Idle .. CallTime
  BY LimitsAssumption DEF Finish
<1>2. QED
  BY <1>1 DEF CoreTypes, InFlight

LEMMA AdmitAdds ==
  ASSUME CoreTypes, NEW c \in Calls, Admit(c)
  PROVE  /\ InFlight' = InFlight \cup {c}
         /\ calls' \in [Calls -> Idle .. CallTime]
<1>1. calls' = [calls EXCEPT ![c] = 0] /\ 0 \in Idle .. CallTime
  BY LimitsAssumption DEF Admit
<1>2. QED
  BY <1>1 DEF CoreTypes, InFlight

(* Whenever the breaker trips, every call under way is at least as old. *)
LEMMA TripStep ==
  ASSUME IInv, Trip, InFlight' \subseteq InFlight,
         \A d \in InFlight' : calls'[d] = calls[d],
         calls' \in [Calls -> Idle .. CallTime], proofs' = proofs
  PROVE  IInv'
<1>1. CoreTypes'
  BY LimitsAssumption DEF IInv, CoreTypes, Trip
<1>2. \A d \in InFlight' : calls'[d] \in Nat
  BY LimitsAssumption DEF InFlight
<1>3. OpenAdmitsNobody'
  BY <1>2 DEF OpenAdmitsNobody, Trip
<1>4. SlotIsHeld' /\ SuccessesAreProofs'
  BY DEF Trip, SlotIsHeld, SuccessesAreProofs
<1>5. QED
  BY <1>1, <1>3, <1>4 DEF IInv

LEMMA InitIInv == Init => IInv
  BY LimitsAssumption
  DEF Init, IInv, CoreTypes, OpenAdmitsNobody, SlotIsHeld, SuccessesAreProofs

LEMMA SucceedStep ==
  ASSUME IInv, NEW c \in Calls, Succeed(c)
  PROVE  IInv'
<1>1. /\ InFlight' = InFlight \ {c} /\ c \in InFlight
      /\ \A d \in InFlight' : calls'[d] = calls[d]
      /\ calls' \in [Calls -> Idle .. CallTime]
  BY FinishEnds DEF Succeed, IInv, InFlight
<1>2. /\ RecordSuccess /\ openAge' = openAge
      /\ proofs' = IF c \in probes THEN proofs + 1 ELSE proofs
      /\ probes' = probes \ {c}
  BY DEF Succeed, RecordSuccess
<1>3. CASE state # "half_open"
  <2>1. UNCHANGED <<state, probesInFlight, probeSuccesses>>
    BY <1>2, <1>3 DEF RecordSuccess
  <2>2. CoreTypes'
    BY <1>1, <1>2, <2>1 DEF IInv, CoreTypes
  <2>3. OpenAdmitsNobody'
    BY <1>1, <1>2, <2>1 DEF IInv, OpenAdmitsNobody
  <2>4. QED
    BY <1>3, <2>1, <2>2, <2>3 DEF IInv, SlotIsHeld, SuccessesAreProofs
<1>4. CASE state = "half_open"
  <2>1. /\ probesInFlight' = IF probesInFlight > 0 THEN probesInFlight - 1 ELSE 0
        /\ probeSuccesses' = probeSuccesses + 1
        /\ state' = IF Proven THEN "closed" ELSE state
    BY <1>2, <1>4 DEF RecordSuccess
  <2>2. CoreTypes'
    BY <1>1, <1>2, <2>1 DEF IInv, CoreTypes
  <2>3. InFlight' = {}
    BY <1>1, <1>4 DEF IInv, SlotIsHeld
  <2>4. c \in probes /\ probeSuccesses' <= proofs'
    BY <1>1, <1>2, <1>4, <2>1 DEF IInv, SuccessesAreProofs, CoreTypes
  <2>5. QED
    BY <2>2, <2>3, <2>4 DEF IInv, OpenAdmitsNobody, SlotIsHeld, SuccessesAreProofs
<1>5. QED
  BY <1>3, <1>4

LEMMA FailStep ==
  ASSUME IInv, NEW c \in Calls, Fail(c)
  PROVE  IInv'
<1>1. /\ InFlight' = InFlight \ {c}
      /\ \A d \in InFlight' : calls'[d] = calls[d]
      /\ calls' \in [Calls -> Idle .. CallTime]
  BY FinishEnds DEF Fail, IInv
<1>2. RecordFailure /\ probes' = probes \ {c} /\ proofs' = proofs
  BY DEF Fail
<1>3. CASE Trip
  BY <1>1, <1>2, <1>3, TripStep
<1>4. CASE ~Trip
  <2>1. /\ state # "half_open"
        /\ UNCHANGED <<state, openAge, probesInFlight, probeSuccesses>>
    BY <1>2, <1>4 DEF RecordFailure
  <2>2. CoreTypes'
    BY <1>1, <1>2, <2>1 DEF IInv, CoreTypes
  <2>3. OpenAdmitsNobody'
    BY <1>1, <2>1 DEF IInv, OpenAdmitsNobody
  <2>4. QED
    BY <2>1, <2>2, <2>3 DEF IInv, SlotIsHeld, SuccessesAreProofs
<1>5. QED
  BY <1>3, <1>4

LEMMA NotFoundStep ==
  ASSUME IInv, NEW c \in Calls, NotFound(c)
  PROVE  IInv'
<1>1. /\ InFlight' = InFlight \ {c}
      /\ \A d \in InFlight' : calls'[d] = calls[d]
      /\ calls' \in [Calls -> Idle .. CallTime]
  BY FinishEnds DEF NotFound, IInv
<1>2. /\ probes' = probes \ {c}
      /\ UNCHANGED <<state, openAge, probesInFlight, probeSuccesses, proofs>>
  BY DEF NotFound, breaker
<1>3. CoreTypes'
  BY <1>1, <1>2 DEF IInv, CoreTypes
<1>4. OpenAdmitsNobody' /\ SlotIsHeld' /\ SuccessesAreProofs'
  BY <1>1, <1>2 DEF IInv, OpenAdmitsNobody, SlotIsHeld, SuccessesAreProofs
<1>5. QED
  BY <1>3, <1>4 DEF IInv

LEMMA AttemptStep ==
  ASSUME IInv, NEW c \in Calls, Attempt(c)
  PROVE  IInv'
<1>t. CoreTypes
  BY DEF IInv
<1>1. CASE AttemptClosed(c)
  <2>1. /\ calls' \in [Calls -> Idle .. CallTime] /\ state = "closed"
        /\ UNCHANGED <<state, openAge, probesInFlight, probeSuccesses, proofs>>
    BY <1>1, <1>t, AdmitAdds DEF AttemptClosed, breaker, history
  <2>2. QED
    BY <1>t, <2>1 DEF IInv, CoreTypes, OpenAdmitsNobody, SlotIsHeld, SuccessesAreProofs
<1>2. CASE AttemptAfterCooldown(c)
  <2>1. InFlight = {}
    <3>1. ASSUME NEW d \in InFlight PROVE FALSE
      <4>1. openAge <= calls[d] /\ calls[d] <= CallTime /\ calls[d] \in Int
        BY <1>2 DEF AttemptAfterCooldown, IInv, OpenAdmitsNobody, CoreTypes, InFlight
      <4>2. openAge \in Int /\ openAge >= OpenFor
        BY <1>2, <1>t DEF AttemptAfterCooldown, CoreTypes
      <4>3. QED
        BY <4>1, <4>2, CallsEndInTime, LimitsAssumption
    <3>2. QED
      BY <3>1
  <2>2. /\ InFlight' = {c} /\ calls' \in [Calls -> Idle .. CallTime]
        /\ state' = "half_open" /\ openAge' = openAge
        /\ probesInFlight' = 1 /\ probeSuccesses' = 0
        /\ probes' = {c} /\ proofs' = 0
    BY <1>2, <1>t, <2>1, AdmitAdds DEF AttemptAfterCooldown
  <2>3. QED
    BY <1>t, <2>2 DEF IInv, CoreTypes, OpenAdmitsNobody, SlotIsHeld, SuccessesAreProofs
<1>3. CASE AttemptProbe(c)
  <2>1. InFlight = {}
    BY <1>3, <1>t DEF AttemptProbe, IInv, SlotIsHeld, CoreTypes
  <2>2. /\ InFlight' = {c} /\ calls' \in [Calls -> Idle .. CallTime]
        /\ state = "half_open" /\ probesInFlight' = probesInFlight + 1
        /\ probes' = probes \cup {c}
        /\ UNCHANGED <<state, openAge, probeSuccesses, proofs>>
    BY <1>3, <1>t, <2>1, AdmitAdds DEF AttemptProbe
  <2>3. CoreTypes'
    BY <1>t, <2>2 DEF CoreTypes
  <2>4. SlotIsHeld'
    BY <1>t, <2>2 DEF CoreTypes, SlotIsHeld
  <2>5. OpenAdmitsNobody' /\ SuccessesAreProofs'
    BY <2>2 DEF IInv, OpenAdmitsNobody, SuccessesAreProofs
  <2>6. QED
    BY <2>3, <2>4, <2>5 DEF IInv
<1>4. QED
  BY <1>1, <1>2, <1>3 DEF Attempt

LEMMA TickStep ==
  ASSUME IInv, Tick
  PROVE  IInv'
<1>1. /\ UNCHANGED <<state, probesInFlight, probeSuccesses, probes, proofs>>
      /\ openAge' = IF state = "open" /\ openAge < OpenFor THEN openAge + 1 ELSE openAge
      /\ calls' = [c \in Calls |-> IF calls[c] = Idle THEN Idle ELSE calls[c] + 1]
  BY DEF Tick, history
<1>2. \A c \in Calls : calls[c] \in Idle .. CallTime /\ calls[c] < CallTime
  BY DEF Tick, IInv, CoreTypes
<1>3. InFlight' = InFlight /\ \A c \in InFlight : calls'[c] = calls[c] + 1
  BY <1>1, <1>2 DEF InFlight
<1>4. calls' \in [Calls -> Idle .. CallTime]
  BY <1>1, <1>2, LimitsAssumption
<1>5. CoreTypes'
  BY <1>1, <1>4, LimitsAssumption DEF IInv, CoreTypes
<1>6. OpenAdmitsNobody'
  <2> SUFFICES ASSUME state = "open", NEW c \in InFlight PROVE openAge' <= calls'[c]
    BY <1>1, <1>3 DEF OpenAdmitsNobody
  <2>1. openAge <= calls[c] /\ openAge \in Int /\ calls[c] \in Int
    BY <1>2 DEF IInv, OpenAdmitsNobody, CoreTypes, InFlight
  <2>2. QED
    BY <1>1, <1>3, <2>1
<1>7. SlotIsHeld' /\ SuccessesAreProofs'
  BY <1>1, <1>3 DEF IInv, SlotIsHeld, SuccessesAreProofs
<1>8. QED
  BY <1>5, <1>6, <1>7 DEF IInv

LEMMA StepIInv == IInv /\ [Next]_vars => IInv'
<1> SUFFICES ASSUME IInv, [Next]_vars PROVE IInv'
  OBVIOUS
<1>1. CASE Tick
  BY <1>1, TickStep
<1>2. CASE forceOpen
  <2>1. Trip /\ UNCHANGED <<calls, proofs>>
    BY <1>2 DEF forceOpen, history
  <2>2. InFlight' = InFlight
    BY <2>1 DEF InFlight
  <2>3. QED
    BY <2>1, <2>2, TripStep DEF IInv, CoreTypes
<1>3. CASE reset
  <2>1. /\ state' = "closed" /\ probesInFlight' = 0 /\ probeSuccesses' = 0
        /\ UNCHANGED <<openAge, calls, proofs>>
    BY <1>3 DEF reset, history
  <2>2. QED
    BY <2>1 DEF IInv, CoreTypes, OpenAdmitsNobody, SlotIsHeld, SuccessesAreProofs
<1>4. CASE Flip \/ UNCHANGED vars
  <2>1. UNCHANGED <<breaker, calls, history>>
    BY <1>4 DEF Flip, vars
  <2>2. InFlight' = InFlight
    BY <2>1 DEF InFlight
  <2>3. QED
    BY <2>1, <2>2
    DEF IInv, CoreTypes, OpenAdmitsNobody, SlotIsHeld, SuccessesAreProofs, breaker, history
<1>5. ASSUME NEW c \in Calls, Attempt(c) PROVE IInv'
  BY <1>5, AttemptStep
<1>6. ASSUME NEW c \in Calls, Complete(c) PROVE IInv'
  BY <1>6, SucceedStep, FailStep, NotFoundStep DEF Complete
<1>7. QED
  BY <1>1, <1>2, <1>3, <1>4, <1>5, <1>6 DEF Next

LEMMA Invariant == Spec => []IInv
  BY InitIInv, StepIInv, PTL DEF Spec

-----------------------------------------------------------------------------
LEMMA ProbeAlone == IInv => OneProbe
<1> SUFFICES ASSUME IInv, state = "half_open" PROVE Cardinality(InFlight) <= 1
  BY DEF OneProbe
<1>1. CASE InFlight = {}
  BY <1>1, FS_EmptySet
<1>2. ASSUME NEW c \in InFlight PROVE Cardinality(InFlight) <= 1
  <2>1. InFlight = {c}
    BY DEF IInv, SlotIsHeld
  <2>2. Cardinality({c}) = 1
    BY FS_Singleton
  <2>3. QED
    BY <2>1, <2>2
<1>3. QED
  BY <1>1, <1>2

LEMMA ClosingStep ==
  IInv /\ [Next]_vars =>
    [(state = "half_open" /\ state' = "closed") => (reset \/ proofs' >= HalfOpenProbes)]_vars
<1> SUFFICES ASSUME IInv, Next, state = "half_open", state' = "closed", ~reset
             PROVE  proofs' >= HalfOpenProbes
  OBVIOUS
<1>1. PICK c \in Calls : Succeed(c)
  BY DEF Next, Tick, Flip, forceOpen, Trip, Attempt, AttemptClosed, AttemptAfterCooldown,
         AttemptProbe, Complete, Fail, RecordFailure, NotFound, breaker
<1>2. c \in InFlight /\ c \in probes
  BY <1>1 DEF Succeed, InFlight, IInv, SuccessesAreProofs
<1>3. Proven /\ proofs' = proofs + 1
  BY <1>1, <1>2 DEF Succeed, RecordSuccess
<1>4. QED
  BY <1>3, LimitsAssumption DEF Proven, IInv, SuccessesAreProofs, CoreTypes

(* canAttempt: half-open, the provider sees at most one request at a time, *)
(* although calls admitted before it opened may be answered late.          *)
THEOREM OneProbeAtATime == Spec => []OneProbe
  BY ProbeAlone, Invariant, PTL

(* recordSuccess: the breaker closes by itself only after HalfOpenProbes    *)
(* requests that were all sent after the cooldown have been answered.       *)
THEOREM ClosingIsEarned == Spec => ClosesOnProof
  BY ClosingStep, Invariant, PTL DEF Spec, ClosesOnProof

-----------------------------------------------------------------------------
(* Type correctness: the rolling window. *)

(* Events are recorded in order of time. *)
InOrder == \A i, j \in 1 .. Len(events) : i < j => events[i].age >= events[j].age

(* The bound on the events counts what calls under way will record. *)
Room == IsFiniteSet(InFlight) /\ Len(events) + Cardinality(InFlight) <= MaxEvents

(* Half-open, the breaker is still waiting for a success. *)
Unproven == state = "half_open" => probeSuccesses < HalfOpenProbes

WindowInv == TypeOK /\ InOrder /\ Room /\ Unproven

(* A nonempty set of natural numbers has a least member. *)
LEMMA Least ==
  ASSUME NEW S \in SUBSET Nat, S # {}
  PROVE  \E x \in S : \A y \in S : x <= y
<1> DEFINE R == OpToRel(<, Nat)
<1>1. \E x \in S : \A y \in S : ~(<<y, x>> \in R)
  <2> HIDE DEF R
  <2>1. IsWellFoundedOn(R, Nat)
    BY NatLessThanWellFounded DEF R
  <2>2. QED
    BY <2>1, WFMin
<1>2. PICK x \in S : \A y \in S : ~(<<y, x>> \in R)
  BY <1>1
<1>3. \A y \in S : ~(y < x)
  BY <1>2 DEF OpToRel
<1>4. QED
  BY <1>3

(* What leaves a window of ages that do not grow is a first part of it. *)
LEMMA OldIsPrefix ==
  ASSUME NEW n \in Nat, NEW age, \A i \in 1 .. n : age[i] \in Int,
         \A i, j \in 1 .. n : i < j => age[i] >= age[j]
  PROVE  LET old == {k \in 1 .. n : age[k] > Window}
         IN /\ Cardinality(old) \in 0 .. n
            /\ \A k \in 1 .. n : age[k] > Window <=> k <= Cardinality(old)
<1> DEFINE old == {k \in 1 .. n : age[k] > Window}
           rest == {k \in Nat : k >= 1 /\ k <= n + 1 /\ k \notin old}
<1>1. n + 1 \in rest /\ rest \in SUBSET Nat
  OBVIOUS
<1>2. PICK m \in rest : \A y \in rest : m <= y
  <2> HIDE DEF rest
  <2>1. QED
    BY <1>1, Least
<1>3. m \in Nat /\ m >= 1 /\ m <= n + 1 /\ m \notin old
  BY <1>2
<1>4. ASSUME NEW k \in 1 .. n PROVE k \in old <=> k <= m - 1
  <2>1. CASE k <= m - 1
    <3>1. k \in Nat /\ k >= 1 /\ k <= n + 1 /\ ~(m <= k)
      BY <1>3, <2>1
    <3>2. k \notin rest
      BY <1>2, <3>1
    <3>3. QED
      BY <2>1, <3>1, <3>2
  <2>2. CASE ~(k <= m - 1)
    <3>1. m \in 1 .. n /\ (m = k \/ m < k)
      BY <1>3, <2>2
    <3>2. ~(age[m] > Window)
      BY <1>3, <3>1
    <3>3. age[k] \in Int /\ age[m] \in Int /\ Window \in Int
      BY <3>1, LimitsAssumption
    <3>4. ~(age[k] > Window)
      BY <3>1, <3>2, <3>3
    <3>5. QED
      BY <2>2, <3>4
  <2>3. QED
    BY <2>1, <2>2
<1>5. old = 1 .. m - 1
  <2>1. \A k : k \in 1 .. m - 1 => k \in 1 .. n
    BY <1>3
  <2>2. \A k : k \in old => k \in 1 .. n /\ k \in Int /\ k >= 1
    OBVIOUS
  <2> HIDE DEF old
  <2>3. \A k : k \in old => k \in 1 .. m - 1
    BY <1>3, <1>4, <2>2
  <2>4. \A k : k \in 1 .. m - 1 => k \in old
    BY <1>3, <1>4, <2>1
  <2>5. QED
    BY <2>3, <2>4
<1>6. Cardinality(old) = m - 1
  <2>1. PICK p \in Int : p = m - 1 /\ p >= 0
    BY <1>3
  <2>2. Cardinality(1 .. p) = IF 1 > p THEN 0 ELSE p - 1 + 1
    BY <2>1, FS_Interval
  <2>3. Cardinality(1 .. p) = p
    BY <2>1, <2>2
  <2> HIDE DEF old
  <2>4. QED
    BY <1>5, <2>1, <2>3
<1>7. Cardinality(old) \in 0 .. n
  BY <1>3, <1>6
<1>8. \A k \in 1 .. n : age[k] > Window <=> k <= Cardinality(old)
  BY <1>4, <1>6
<1>9. QED
  BY <1>7, <1>8

(* Events, in or out of the window. *)
Recorded == [age : Nat, ok : BOOLEAN]

(* prune keeps the events that are in the window and no other. *)
LEMMA InWindowIsFilter ==
  ASSUME NEW es, es \in Seq(Recorded),
         \A i, j \in 1 .. Len(es) : i < j => es[i].age >= es[j].age
  PROVE  /\ InWindow(es) \in Seq(Events) /\ Len(InWindow(es)) <= Len(es)
         /\ \A i, j \in 1 .. Len(InWindow(es)) :
              i < j => InWindow(es)[i].age >= InWindow(es)[j].age
         /\ \A k \in 1 .. Len(es) :
              es[k].age <= Window <=> \E i \in 1 .. Len(InWindow(es)) :
                                        k = Len(es) - Len(InWindow(es)) + i
<1> DEFINE n == Len(es)
           age == [k \in 1 .. n |-> es[k].age]
<1>1. n \in Nat /\ DOMAIN es = 1 .. n /\ \A k \in 1 .. n : es[k] \in Recorded
  OBVIOUS
<1>2. \A k \in 1 .. n : age[k] = es[k].age /\ age[k] \in Nat /\ age[k] \in Int
  BY <1>1 DEF Recorded
<1>3. PICK g : g = Cardinality({k \in 1 .. n : age[k] > Window})
  OBVIOUS
<1>4. {k \in 1 .. n : age[k] > Window} = {k \in DOMAIN es : es[k].age > Window}
  BY <1>1, <1>2
<1>5. InWindow(es) = SubSeq(es, g + 1, n)
  BY <1>3, <1>4 DEF InWindow
<1>6. \A i, j \in 1 .. n : i < j => age[i] >= age[j]
  BY <1>2
<1>7. g \in 0 .. n /\ \A k \in 1 .. n : age[k] > Window <=> k <= g
  <2> HIDE DEF age, n
  <2>1. QED
    BY <1>1, <1>2, <1>3, <1>6, OldIsPrefix
<1>8. /\ Len(SubSeq(es, g + 1, n)) = n - g
      /\ \A i \in 1 .. n - g : SubSeq(es, g + 1, n)[i] = es[g + i]
      /\ SubSeq(es, g + 1, n) \in Seq(Recorded)
  BY <1>1, <1>7
<1>9. \A i \in 1 .. n - g : g + i \in 1 .. n /\ ~(g + i <= g)
  BY <1>1, <1>7
<1> DEFINE left == SubSeq(es, g + 1, n)
<1>10. \A i \in 1 .. n - g : left[i] = es[g + i] /\ ~(es[g + i].age > Window)
  BY <1>2, <1>7, <1>8, <1>9
<1>11. \A i \in 1 .. n - g : left[i] \in Events
  <2> SUFFICES ASSUME NEW i \in 1 .. n - g PROVE left[i] \in Events
    OBVIOUS
  <2>1. left[i] = es[g + i] /\ ~(es[g + i].age > Window) /\ g + i \in 1 .. n
    BY <1>9, <1>10
  <2>2. es[g + i] \in Recorded
    BY <1>1, <2>1
  <2>3. es[g + i].age \in 0 .. Window
    BY <2>1, <2>2, LimitsAssumption DEF Recorded
  <2>4. es[g + i] \in Events
    BY <2>2, <2>3 DEF Events, Recorded
  <2>5. QED
    BY <2>1, <2>4
<1>12. left \in Seq(Events) /\ Len(left) = n - g
  <2> HIDE DEF n
  <2>1. Len(left) = n - g /\ left \in Seq(Recorded)
    BY <1>8
  <2> HIDE DEF left
  <2>2. QED
    BY <1>11, <2>1
<1>13. \A i, j \in 1 .. n - g : i < j => left[i].age >= left[j].age
  <2> SUFFICES ASSUME NEW i \in 1 .. n - g, NEW j \in 1 .. n - g, i < j
               PROVE  left[i].age >= left[j].age
    OBVIOUS
  <2>1. g + i \in 1 .. n /\ g + j \in 1 .. n /\ g + i < g + j
    BY <1>7, <1>9
  <2>2. es[g + i].age >= es[g + j].age
    BY <2>1
  <2>3. QED
    BY <1>10, <2>2
<1>14. ASSUME NEW k \in 1 .. n
       PROVE  es[k].age <= Window <=> \E i \in 1 .. n - g : k = n - (n - g) + i
  <2>1. es[k].age \in Int /\ Window \in Int /\ (es[k].age > Window <=> k <= g)
    BY <1>2, <1>7, LimitsAssumption
  <2>2. es[k].age <= Window <=> ~(k <= g)
    BY <2>1
  <2>3. ASSUME ~(k <= g) PROVE k - g \in 1 .. n - g /\ k = n - (n - g) + (k - g)
    BY <1>1, <1>7, <2>3
  <2>4. \A i \in 1 .. n - g : k = n - (n - g) + i => ~(k <= g)
    BY <1>1, <1>7
  <2>5. QED
    BY <2>2, <2>3, <2>4
<1>15. QED
  <2>1. InWindow(es) = left
    BY <1>5
  <2>2. n - g <= n
    BY <1>1, <1>7
  <2>3. QED
    BY <1>12, <1>13, <1>14, <2>1, <2>2

LEMMA WindowInt ==
  /\ Window \in Nat \ {0} /\ HalfOpenProbes \in Nat \ {0} /\ MaxEvents \in Nat \ {0}
  /\ OpenFor \in Nat \ {0} /\ CallTime \in Nat \ {0} /\ MaxForced \in Nat
  BY LimitsAssumption

LEMMA EventsLength ==
  ASSUME TypeOK, Room
  PROVE  /\ Len(events) \in Nat /\ Cardinality(InFlight) \in Nat
         /\ Len(events) + Cardinality(InFlight) <= MaxEvents
  BY FS_CardinalityType DEF TypeOK, Room

(* A call that ends makes room for the event it records. *)
LEMMA FinishRoom ==
  ASSUME TypeOK, Room, NEW c \in Calls, calls[c] # Idle, Finish(c)
  PROVE  /\ calls' \in [Calls -> Idle .. CallTime] /\ IsFiniteSet(InFlight')
         /\ Len(events) + 1 + Cardinality(InFlight') <= MaxEvents
         /\ Len(events) + Cardinality(InFlight') <= MaxEvents /\ Len(events) + 1 <= MaxEvents
         /\ Cardinality(InFlight') \in Nat /\ Len(events) \in Nat
<1>1. calls' = [calls EXCEPT ![c] = Idle] /\ Idle \in Idle .. CallTime
  BY WindowInt DEF Finish
<1>2. calls' \in [Calls -> Idle .. CallTime] /\ InFlight' = InFlight \ {c} /\ c \in InFlight
  BY <1>1 DEF TypeOK, InFlight
<1>3. IsFiniteSet(InFlight) /\ IsFiniteSet(InFlight')
  BY <1>2, FS_RemoveElement DEF Room
<1>4. Cardinality(InFlight') = Cardinality(InFlight) - 1
  BY <1>2, <1>3, FS_RemoveElement
<1>5. Cardinality(InFlight') \in Nat
  BY <1>3, FS_CardinalityType
<1>6. QED
  BY <1>2, <1>3, <1>4, <1>5, EventsLength, WindowInt

LEMMA AppendEvent ==
  ASSUME TypeOK, InOrder, NEW e \in Events, e.age = 0
  PROVE  LET es == Append(events, e)
         IN /\ es \in Seq(Events) /\ Len(es) = Len(events) + 1
            /\ \A i, j \in 1 .. Len(es) : i < j => es[i].age >= es[j].age
<1> DEFINE es == Append(events, e)
<1>1. events \in Seq(Events) /\ Len(events) \in Nat
  BY DEF TypeOK
<1>2. \A i \in 1 .. Len(events) : events[i] \in Events
  BY <1>1
<1>3. /\ es \in Seq(Events) /\ Len(es) = Len(events) + 1 /\ es[Len(events) + 1] = e
      /\ \A i \in 1 .. Len(events) : es[i] = events[i]
  BY <1>1
<1> HIDE DEF es
<1>4. \A i \in 1 .. Len(events) : events[i].age >= 0
  BY <1>2 DEF Events
<1>5. ASSUME NEW i \in 1 .. Len(es), NEW j \in 1 .. Len(es), i < j
      PROVE  es[i].age >= es[j].age
  <2>1. i \in 1 .. Len(events) /\ es[i] = events[i]
    BY <1>1, <1>3, <1>5
  <2>2. CASE j \in 1 .. Len(events)
    BY <1>3, <1>5, <2>1, <2>2 DEF InOrder
  <2>3. CASE j \notin 1 .. Len(events)
    <3>1. es[j] = e
      BY <1>1, <1>3, <2>3
    <3>2. QED
      BY <1>4, <2>1, <3>1
  <2>4. QED
    BY <2>2, <2>3
<1>6. QED
  BY <1>3, <1>5 DEF es

LEMMA InitWindowInv == Init => WindowInv
<1> SUFFICES ASSUME Init PROVE WindowInv
  OBVIOUS
<1>1. InFlight = {} /\ IsFiniteSet({}) /\ Cardinality({}) = 0
  BY FS_EmptySet DEF Init, InFlight
<1>2. <<>> \in Seq(Events) /\ Len(<<>>) = 0 /\ 1 .. 0 = {}
  OBVIOUS
<1>3. TypeOK
  BY <1>2, WindowInt DEF Init, TypeOK
<1>4. InOrder /\ Room /\ Unproven
  BY <1>1, <1>2, WindowInt DEF Init, InOrder, Room, Unproven
<1>5. QED
  BY <1>3, <1>4 DEF WindowInv

LEMMA SucceedWindow ==
  ASSUME WindowInv, NEW c \in Calls, Succeed(c)
  PROVE  WindowInv'
<1> DEFINE e == [age |-> 0, ok |-> TRUE]
           recorded == Append(events, e)
<1>1. TypeOK /\ InOrder /\ Room /\ Unproven /\ calls[c] # Idle /\ Finish(c)
  BY DEF WindowInv, Succeed
<1>2. /\ calls' \in [Calls -> Idle .. CallTime] /\ IsFiniteSet(InFlight')
      /\ Len(events) + 1 + Cardinality(InFlight') <= MaxEvents
      /\ Len(events) + 1 <= MaxEvents /\ Cardinality(InFlight') \in Nat /\ Len(events) \in Nat
  BY <1>1, FinishRoom
<1>3. e \in Events /\ e.age = 0
  BY WindowInt DEF Events
<1>4. /\ recorded \in Seq(Events) /\ Len(recorded) = Len(events) + 1
      /\ \A i, j \in 1 .. Len(recorded) : i < j => recorded[i].age >= recorded[j].age
  <2> HIDE DEF e
  <2>1. QED
    BY <1>1, <1>3, AppendEvent
<1>5. <<>> \in Seq(Events) /\ Len(<<>>) = 0
  OBVIOUS
<1>6. /\ openAge' = openAge /\ events' \in {recorded, <<>>}
      /\ proofs' \in {proofs, proofs + 1} /\ probes' = probes \ {c} /\ UNCHANGED <<up, forced>>
      /\ \/ UNCHANGED <<state, probesInFlight, probeSuccesses>>
         \/ /\ state = "half_open" /\ probeSuccesses' = probeSuccesses + 1
            /\ probesInFlight' = IF probesInFlight > 0 THEN probesInFlight - 1 ELSE 0
            /\ state' = IF Proven THEN "closed" ELSE state
  BY DEF Succeed, RecordSuccess, Finish
<1> HIDE DEF e, recorded
<1>7. events' \in Seq(Events) /\ Len(events') \in Nat /\ Len(events') <= Len(events) + 1
  <2>1. CASE events' = recorded
    BY <1>2, <1>4, <2>1
  <2>2. CASE events' = <<>>
    BY <1>2, <1>5, <2>2
  <2>3. QED
    BY <1>6, <2>1, <2>2
<1>8. InOrder'
  BY <1>4, <1>5, <1>6 DEF InOrder
<1>9. Room'
  BY <1>2, <1>7, WindowInt DEF Room
<1>10. /\ state' \in {"closed", "open", "half_open"} /\ probesInFlight' \in 0 .. 1
      /\ probeSuccesses' \in 0 .. HalfOpenProbes
  BY <1>1, <1>6, WindowInt DEF TypeOK, Unproven
<1>11. Unproven'
  BY <1>1, <1>6, WindowInt DEF TypeOK, Unproven, Proven
<1>12. events' \in Seq(Events) /\ Len(events') <= MaxEvents
  BY <1>2, <1>7, WindowInt
<1>13. TypeOK'
  BY <1>1, <1>2, <1>6, <1>10, <1>12 DEF TypeOK
<1>14. QED
  BY <1>8, <1>9, <1>11, <1>13 DEF WindowInv

LEMMA TripTypes ==
  ASSUME Trip
  PROVE  /\ state' = "open" /\ openAge' \in 0 .. OpenFor /\ probesInFlight' \in 0 .. 1
         /\ probeSuccesses' \in 0 .. HalfOpenProbes
  BY WindowInt DEF Trip

LEMMA FailWindow ==
  ASSUME WindowInv, NEW c \in Calls, Fail(c)
  PROVE  WindowInv'
<1> DEFINE e == [age |-> 0, ok |-> FALSE]
           recorded == Append(events, e)
<1>1. TypeOK /\ InOrder /\ Room /\ Unproven /\ calls[c] # Idle /\ Finish(c)
  BY DEF WindowInv, Fail
<1>2. /\ calls' \in [Calls -> Idle .. CallTime] /\ IsFiniteSet(InFlight')
      /\ Len(events) + 1 + Cardinality(InFlight') <= MaxEvents
      /\ Len(events) + 1 <= MaxEvents /\ Cardinality(InFlight') \in Nat /\ Len(events) \in Nat
  BY <1>1, FinishRoom
<1>3. e \in Events /\ e.age = 0
  BY WindowInt DEF Events
<1>4. /\ recorded \in Seq(Events) /\ Len(recorded) = Len(events) + 1
      /\ \A i, j \in 1 .. Len(recorded) : i < j => recorded[i].age >= recorded[j].age
  <2> HIDE DEF e
  <2>1. QED
    BY <1>1, <1>3, AppendEvent
<1>5. /\ events' = recorded /\ proofs' = proofs /\ probes' = probes \ {c}
      /\ UNCHANGED <<up, forced>>
      /\ Trip \/ UNCHANGED <<state, openAge, probesInFlight, probeSuccesses>>
  BY DEF Fail, RecordFailure, Finish
<1> HIDE DEF e, recorded
<1>6. InOrder' /\ Room'
  BY <1>2, <1>4, <1>5 DEF InOrder, Room
<1>7. /\ state' \in {"closed", "open", "half_open"} /\ openAge' \in 0 .. OpenFor
      /\ probesInFlight' \in 0 .. 1 /\ probeSuccesses' \in 0 .. HalfOpenProbes
      /\ Unproven'
  BY <1>1, <1>5, TripTypes DEF TypeOK, Unproven
<1>8. TypeOK'
  BY <1>1, <1>2, <1>4, <1>5, <1>7 DEF TypeOK
<1>9. QED
  BY <1>6, <1>7, <1>8 DEF WindowInv

LEMMA NotFoundWindow ==
  ASSUME WindowInv, NEW c \in Calls, NotFound(c)
  PROVE  WindowInv'
<1>1. TypeOK /\ InOrder /\ Room /\ Unproven /\ calls[c] # Idle /\ Finish(c)
  BY DEF WindowInv, NotFound
<1>2. /\ calls' \in [Calls -> Idle .. CallTime] /\ IsFiniteSet(InFlight')
      /\ Len(events) + Cardinality(InFlight') <= MaxEvents
  BY <1>1, FinishRoom
<1>3. /\ UNCHANGED <<state, openAge, probesInFlight, probeSuccesses, events, proofs, up, forced>>
      /\ probes' = probes \ {c}
  BY DEF NotFound, Finish, breaker
<1>4. QED
  BY <1>1, <1>2, <1>3 DEF WindowInv, TypeOK, InOrder, Room, Unproven

LEMMA AttemptWindow ==
  ASSUME WindowInv, NEW c \in Calls, Attempt(c)
  PROVE  WindowInv'
<1>1. TypeOK /\ InOrder /\ Room /\ Unproven /\ calls[c] = Idle
  BY DEF WindowInv, Attempt
<1>2. /\ Admit(c) /\ UNCHANGED <<events, up, forced, openAge>>
      /\ Len(events) + Cardinality(InFlight) < MaxEvents
      /\ \/ UNCHANGED <<state, probesInFlight, probeSuccesses, probes, proofs>>
         \/ /\ state' = "half_open" /\ probesInFlight' = 1 /\ probeSuccesses' = 0
            /\ probes' = {c} /\ proofs' = 0
         \/ /\ probesInFlight < 1 /\ probesInFlight' = probesInFlight + 1
            /\ probes' = probes \cup {c} /\ UNCHANGED <<state, probeSuccesses, proofs>>
  BY DEF Attempt, AttemptClosed, AttemptAfterCooldown, AttemptProbe, breaker, history
<1>3. calls' = [calls EXCEPT ![c] = 0] /\ 0 \in Idle .. CallTime
  BY <1>2, WindowInt DEF Admit
<1>4. calls' \in [Calls -> Idle .. CallTime] /\ InFlight' = InFlight \cup {c} /\ c \notin InFlight
  BY <1>1, <1>3 DEF TypeOK, InFlight
<1>5. IsFiniteSet(InFlight') /\ Cardinality(InFlight') = Cardinality(InFlight) + 1
  BY <1>1, <1>4, FS_AddElement DEF Room
<1>6. Room'
  BY <1>1, <1>2, <1>5, EventsLength, WindowInt DEF Room
<1>7. InOrder' /\ Unproven'
  BY <1>1, <1>2, WindowInt DEF InOrder, Unproven
<1>8. /\ state' \in {"closed", "open", "half_open"} /\ probesInFlight' \in 0 .. 1
      /\ probeSuccesses' \in 0 .. HalfOpenProbes /\ probes' \subseteq Calls /\ proofs' \in Nat
  BY <1>1, <1>2, WindowInt DEF TypeOK
<1>9. TypeOK'
  BY <1>1, <1>2, <1>4, <1>8 DEF TypeOK
<1>10. QED
  BY <1>6, <1>7, <1>9 DEF WindowInv

LEMMA TickWindow ==
  ASSUME WindowInv, Tick
  PROVE  WindowInv'
<1> DEFINE n == Len(events)
           aged == [k \in DOMAIN events |-> [events[k] EXCEPT !.age = @ + 1]]
<1>1. TypeOK /\ InOrder /\ Room /\ Unproven
  BY DEF WindowInv
<1>2. /\ UNCHANGED <<state, probesInFlight, probeSuccesses, probes, proofs, up, forced>>
      /\ openAge' = IF state = "open" /\ openAge < OpenFor THEN openAge + 1 ELSE openAge
      /\ calls' = [c \in Calls |-> IF calls[c] = Idle THEN Idle ELSE calls[c] + 1]
      /\ events' = InWindow(aged)
  BY DEF Tick, history
<1>3. \A c \in Calls : calls[c] \in Idle .. CallTime /\ calls[c] < CallTime
  BY <1>1 DEF Tick, TypeOK
<1>4. InFlight' = InFlight
  BY <1>2, <1>3 DEF InFlight
<1>5. calls' \in [Calls -> Idle .. CallTime]
  BY <1>2, <1>3, WindowInt
<1>6. n \in Nat /\ DOMAIN events = 1 .. n /\ \A k \in 1 .. n : events[k] \in Events
  BY <1>1 DEF TypeOK
<1>7. \A k \in 1 .. n : aged[k] = [age |-> events[k].age + 1, ok |-> events[k].ok]
  BY <1>6 DEF Events
<1>8. \A k \in 1 .. n : /\ aged[k] \in Recorded /\ aged[k].age = events[k].age + 1
                        /\ events[k].age \in Nat
  BY <1>6, <1>7 DEF Events, Recorded
<1>9. aged \in Seq(Recorded) /\ Len(aged) = n
  <2>1. aged \in [1 .. n -> Recorded]
    <3>1. DOMAIN aged = 1 .. n /\ aged = [k \in 1 .. n |-> aged[k]]
      BY <1>6
    <3> HIDE DEF aged, n
    <3>2. QED
      BY <1>8, <3>1
  <2> HIDE DEF aged, n
  <2>2. QED
    BY <1>6, <2>1
<1>10. \A i, j \in 1 .. Len(aged) : i < j => aged[i].age >= aged[j].age
  <2> SUFFICES ASSUME NEW i \in 1 .. n, NEW j \in 1 .. n, i < j
               PROVE  aged[i].age >= aged[j].age
    BY <1>9
  <2>1. events[i].age >= events[j].age
    BY <1>1 DEF InOrder
  <2>2. /\ aged[i].age = events[i].age + 1 /\ aged[j].age = events[j].age + 1
        /\ events[i].age \in Nat /\ events[j].age \in Nat
    BY <1>8
  <2>3. events[i].age + 1 >= events[j].age + 1
    BY <2>1, <2>2
  <2> HIDE DEF aged
  <2>4. QED
    BY <2>2, <2>3
<1> HIDE DEF aged
<1>11. /\ InWindow(aged) \in Seq(Events) /\ Len(InWindow(aged)) <= Len(aged)
       /\ \A i, j \in 1 .. Len(InWindow(aged)) :
            i < j => InWindow(aged)[i].age >= InWindow(aged)[j].age
  BY <1>9, <1>10, InWindowIsFilter
<1>12. InOrder' /\ Unproven'
  BY <1>1, <1>2, <1>11 DEF InOrder, Unproven
<1>13. Len(events') \in Nat /\ Len(events') <= n /\ events' \in Seq(Events)
  BY <1>2, <1>9, <1>11
<1>14. Room' /\ Len(events') <= MaxEvents
  BY <1>1, <1>4, <1>6, <1>13, EventsLength, WindowInt DEF Room
<1>15. openAge' \in 0 .. OpenFor
  BY <1>1, <1>2, WindowInt DEF TypeOK
<1>16. TypeOK'
  BY <1>1, <1>2, <1>5, <1>13, <1>14, <1>15 DEF TypeOK
<1>17. QED
  BY <1>12, <1>14, <1>16 DEF WindowInv

LEMMA StepWindowInv == WindowInv /\ [Next]_vars => WindowInv'
<1> SUFFICES ASSUME WindowInv, [Next]_vars PROVE WindowInv'
  OBVIOUS
<1>1. TypeOK /\ InOrder /\ Room /\ Unproven
  BY DEF WindowInv
<1>2. CASE forceOpen \/ reset
  <2>1. /\ UNCHANGED <<calls, up, probes, proofs>>
        /\ forced < MaxForced /\ forced' = forced + 1
        /\ \/ Trip /\ events' = events
           \/ /\ state' = "closed" /\ events' = <<>> /\ probesInFlight' = 0
              /\ probeSuccesses' = 0 /\ openAge' = openAge
    BY <1>2 DEF forceOpen, reset, ByHand, history
  <2>2. InFlight' = InFlight /\ <<>> \in Seq(Events) /\ Len(<<>>) = 0
    BY <2>1 DEF InFlight
  <2>3. forced' \in 0 .. MaxForced
    BY <1>1, <2>1, WindowInt DEF TypeOK
  <2>4. /\ state' \in {"closed", "open"} /\ openAge' \in 0 .. OpenFor
        /\ probesInFlight' \in 0 .. 1 /\ probeSuccesses' \in 0 .. HalfOpenProbes
    BY <1>1, <2>1, TripTypes, WindowInt DEF TypeOK
  <2>5. Len(events') <= MaxEvents /\ events' \in Seq(Events)
    <3>1. CASE events' = events
      BY <1>1, <3>1 DEF TypeOK
    <3>2. CASE events' = <<>>
      BY <2>2, <3>2, WindowInt
    <3>3. QED
      BY <2>1, <3>1, <3>2
  <2>6. TypeOK'
    BY <1>1, <2>1, <2>3, <2>4, <2>5 DEF TypeOK
  <2>7. Room'
    BY <1>1, <2>1, <2>2, EventsLength, WindowInt DEF Room
  <2>8. InOrder' /\ Unproven'
    BY <1>1, <2>1, <2>2, <2>4 DEF InOrder, Unproven
  <2>9. QED
    BY <2>6, <2>7, <2>8 DEF WindowInv
<1>3. CASE Flip \/ UNCHANGED vars
  <2>1. UNCHANGED <<breaker, calls, history, forced>> /\ up' \in BOOLEAN
    BY <1>1, <1>3 DEF Flip, vars, TypeOK
  <2>2. InFlight' = InFlight
    BY <2>1 DEF InFlight
  <2>3. QED
    BY <1>1, <2>1, <2>2 DEF WindowInv, TypeOK, InOrder, Room, Unproven, breaker, history
<1>4. ASSUME NEW c \in Calls, Complete(c) PROVE WindowInv'
  BY <1>4, SucceedWindow, FailWindow, NotFoundWindow DEF Complete
<1>5. QED
  BY <1>2, <1>3, <1>4, TickWindow, AttemptWindow DEF Next

(* Every field of the breaker keeps its type; the window never holds more  *)
(* than it may, late answers included.                                     *)
THEOREM BreakerTypeCorrect == Spec => []TypeOK
<1>1. WindowInv => TypeOK
  BY DEF WindowInv
<1>2. QED
  BY <1>1, InitWindowInv, StepWindowInv, PTL DEF Spec

-----------------------------------------------------------------------------
(* The registry. *)

(* What it keeps of each flight agrees with the call the flight makes.     *)
Flights ==
  /\ tokens \in 0 .. Capacity /\ sinceRefill \in 0 .. RefillEvery - 1
  /\ attempt \in [Calls -> 0 .. Attempts]
  /\ waiting \in [Calls -> SUBSET Callers]
  /\ \A c \in Calls :
       /\ c \in asked => attempt[c] = 0
       /\ attempt[c] > 0 <=> calls[c] # Idle
       /\ waiting[c] = {} => c \notin asked /\ attempt[c] = 0

LEMMA RegistryInt ==
  /\ Capacity \in Nat \ {0} /\ RefillEvery \in Nat \ {0} /\ Attempts \in Nat \ {0}
  /\ RequestTime \in Nat \ {0}
  BY RegistryAssumption

(* Whatever the registry does is a step of the breaker or none at all.     *)
LEMMA RegistryStep == [RNext]_all => [Next]_vars
<1> SUFFICES ASSUME [RNext]_all PROVE [Next]_vars
  OBVIOUS
<1>1. CASE UNCHANGED all
  BY <1>1 DEF all
<1>2. CASE RTick
  BY <1>2 DEF RTick, Next
<1>3. CASE Outside
  BY <1>3 DEF Outside, Next
<1>4. ASSUME NEW u \in Callers, NEW c \in Calls, Ask(u, c) PROVE [Next]_vars
  BY <1>4 DEF Ask
<1>5. ASSUME NEW c \in Calls, FlightStep(c) PROVE [Next]_vars
  <2>1. CASE Start(c)
    BY <2>1 DEF Start, Next
  <2>2. CASE End(c)
    BY <2>2 DEF End, Next, Complete
  <2>3. CASE Throttle(c) \/ Refuse(c) \/ Retry(c) \/ Land(c)
    BY <2>3 DEF Throttle, Refuse, Retry, Land
  <2>4. QED
    BY <1>5, <2>1, <2>2, <2>3 DEF FlightStep
<1>6. QED
  BY <1>1, <1>2, <1>3, <1>4, <1>5 DEF RNext

LEMMA InitFlights == RInit => Flights
  BY RegistryInt DEF RInit, Init, Flights

LEMMA TickFlights ==
  ASSUME TypeOK, Flights, RTick
  PROVE  Flights'
<1>1. /\ calls' = [c \in Calls |-> IF calls[c] = Idle THEN Idle ELSE calls[c] + 1]
      /\ UNCHANGED <<attempt, asked, waiting>>
      /\ IF sinceRefill + 1 < RefillEvery
         THEN sinceRefill' = sinceRefill + 1 /\ tokens' = tokens
         ELSE sinceRefill' = 0 /\ tokens' = IF tokens < Capacity THEN tokens + 1 ELSE tokens
  BY DEF RTick, Tick, flights
<1>2. tokens' \in 0 .. Capacity /\ sinceRefill' \in 0 .. RefillEvery - 1
  BY <1>1, RegistryInt DEF Flights
<1>3. \A c \in Calls : calls[c] \in Idle .. CallTime
  BY DEF TypeOK
<1>4. \A c \in Calls : calls'[c] # Idle <=> calls[c] # Idle
  BY <1>1, <1>3, LimitsAssumption
<1>5. QED
  BY <1>1, <1>2, <1>4 DEF Flights

LEMMA FlightFlights ==
  ASSUME TypeOK, Flights, NEW c \in Calls, FlightStep(c)
  PROVE  Flights'
<1>1. /\ tokens \in 0 .. Capacity /\ sinceRefill \in 0 .. RefillEvery - 1
      /\ attempt \in [Calls -> 0 .. Attempts] /\ waiting \in [Calls -> SUBSET Callers]
      /\ calls \in [Calls -> Idle .. CallTime]
      /\ \A d \in Calls : attempt[d] \in Nat
  BY RegistryInt DEF Flights, TypeOK
<1>2. CASE Throttle(c)
  <2>1. /\ asked' = asked \cup {c} /\ attempt[c] = 0 /\ waiting[c] # {}
        /\ UNCHANGED <<tokens, sinceRefill, attempt, waiting, calls>>
    BY <1>2 DEF Throttle, MyTurn, vars, bucket
  <2>2. QED
    BY <2>1 DEF Flights
<1>3. CASE Refuse(c)
  <2>1. /\ asked' = asked \cup {c} /\ attempt[c] = 0 /\ waiting[c] # {}
        /\ tokens > 0 /\ tokens' = tokens - 1
        /\ UNCHANGED <<sinceRefill, attempt, waiting, calls>>
    BY <1>3 DEF Refuse, MyTurn, vars
  <2>2. tokens' \in 0 .. Capacity
    BY <1>1, <2>1, RegistryInt
  <2>3. QED
    BY <2>1, <2>2 DEF Flights
<1>4. CASE Start(c)
  <2>1. /\ waiting[c] # {} /\ c \notin asked /\ tokens > 0 /\ tokens' = tokens - 1
        /\ attempt' = [attempt EXCEPT ![c] = 1] /\ calls' = [calls EXCEPT ![c] = 0]
        /\ UNCHANGED <<sinceRefill, asked, waiting>>
    BY <1>4 DEF Start, MyTurn, Attempt, AttemptClosed, AttemptAfterCooldown, AttemptProbe, Admit
  <2>2. tokens' \in 0 .. Capacity /\ attempt' \in [Calls -> 0 .. Attempts]
    BY <1>1, <2>1, RegistryInt
  <2>3. \A d \in Calls : /\ attempt'[d] = IF d = c THEN 1 ELSE attempt[d]
                         /\ calls'[d] = IF d = c THEN 0 ELSE calls[d]
    BY <1>1, <2>1
  <2>4. QED
    BY <2>1, <2>2, <2>3 DEF Flights
<1>5. CASE Retry(c)
  <2>1. /\ attempt[c] > 0
        /\ attempt' = [attempt EXCEPT ![c] = IF @ < Attempts THEN @ + 1 ELSE @]
        /\ UNCHANGED <<tokens, sinceRefill, asked, waiting, calls>>
    BY <1>5 DEF Retry, Calling, vars, bucket
  <2>2. attempt' \in [Calls -> 0 .. Attempts]
    BY <1>1, <2>1, RegistryInt
  <2>3. \A d \in Calls : d # c => attempt'[d] = attempt[d]
    BY <1>1, <2>1
  <2>4. attempt'[c] > 0
    BY <1>1, <2>1
  <2>5. QED
    BY <2>1, <2>2, <2>3, <2>4 DEF Flights
<1>6. CASE End(c)
  <2>1. Finish(c) /\ Calling(c)
    BY <1>6 DEF End, Succeed, NotFound, Fail
  <2>2. /\ attempt[c] > 0 /\ calls' = [calls EXCEPT ![c] = Idle]
        /\ asked' = asked \cup {c} /\ attempt' = [attempt EXCEPT ![c] = 0]
        /\ UNCHANGED <<tokens, sinceRefill, waiting>>
    BY <1>6, <2>1 DEF End, Finish, Calling, bucket
  <2>3. waiting[c] # {}
    BY <1>1, <2>2 DEF Flights
  <2>4. \A d \in Calls : /\ attempt'[d] = IF d = c THEN 0 ELSE attempt[d]
                         /\ calls'[d] = IF d = c THEN Idle ELSE calls[d]
    BY <1>1, <2>2
  <2>5. attempt' \in [Calls -> 0 .. Attempts]
    BY <1>1, <2>2, RegistryInt
  <2>6. QED
    BY <2>2, <2>3, <2>4, <2>5 DEF Flights
<1>7. CASE Land(c)
  <2>1. /\ c \in asked /\ waiting' = [waiting EXCEPT ![c] = {}] /\ asked' = asked \ {c}
        /\ UNCHANGED <<tokens, sinceRefill, attempt, calls>>
    BY <1>7 DEF Land, vars, bucket
  <2>2. waiting' \in [Calls -> SUBSET Callers]
    BY <1>1, <2>1
  <2>3. \A d \in Calls : waiting'[d] = IF d = c THEN {} ELSE waiting[d]
    BY <1>1, <2>1
  <2>4. QED
    BY <2>1, <2>2, <2>3 DEF Flights
<1>8. QED
  BY <1>2, <1>3, <1>4, <1>5, <1>6, <1>7 DEF FlightStep

LEMMA StepFlights == TypeOK /\ Flights /\ [RNext]_all => Flights'
<1> SUFFICES ASSUME TypeOK, Flights, [RNext]_all PROVE Flights'
  OBVIOUS
<1>1. CASE UNCHANGED all \/ Outside
  <2>1. UNCHANGED <<bucket, flights, calls>>
    BY <1>1 DEF all, vars, Outside, Flip, forceOpen, reset
  <2>2. QED
    BY <2>1 DEF Flights, bucket, flights
<1>2. ASSUME NEW u \in Callers, NEW c \in Calls, Ask(u, c) PROVE Flights'
  <2>1. /\ waiting' = [waiting EXCEPT ![c] = @ \cup {u}] /\ waiting \in [Calls -> SUBSET Callers]
        /\ UNCHANGED <<tokens, sinceRefill, attempt, asked, calls>>
    BY <1>2 DEF Ask, vars, bucket, Flights
  <2>2. waiting' \in [Calls -> SUBSET Callers]
    BY <2>1
  <2>3. \A d \in Calls : waiting'[d] = {} => waiting[d] = {}
    BY <2>1
  <2>4. QED
    BY <2>1, <2>2, <2>3 DEF Flights
<1>3. QED
  BY <1>1, <1>2, TickFlights, FlightFlights DEF RNext

LEMMA RegistryInvariant == RSpec => [](WindowInv /\ Flights)
<1>1. RInit => WindowInv /\ Flights
  BY InitWindowInv, InitFlights DEF RInit
<1>2. WindowInv => TypeOK
  BY DEF WindowInv
<1>3. WindowInv /\ Flights /\ [RNext]_all => WindowInv' /\ Flights'
  BY <1>2, RegistryStep, StepWindowInv, StepFlights
<1>4. QED
  BY <1>1, <1>3, PTL DEF RSpec

(* The registry keeps the books of its flights: a call is under way        *)
(* exactly while its flight is at an attempt, a flight always has somebody *)
(* waiting for it, the bucket neither overflows nor is overdrawn           *)
(* (registry.ts, call; resilience.ts, SingleFlight and TokenBucket).       *)
THEOREM RegistryTypeCorrect == RSpec => []RTypeOK
<1>1. WindowInv /\ Flights => RTypeOK
  BY DEF WindowInv, Flights, RTypeOK, Calling
<1>2. QED
  BY <1>1, RegistryInvariant, PTL

(* Buckets, retries, deadlines and shared flights never take the breaker   *)
(* anywhere it would not go by itself ...                                  *)
THEOREM RegistryImplementsBreaker == RSpec => Init /\ [][Next]_vars
<1>1. RInit => Init
  BY DEF RInit
<1>2. QED
  BY <1>1, RegistryStep, PTL DEF RSpec

(* ... so half-open it sends the provider one request at a time ...        *)
THEOREM RegistryProbesAlone == RSpec => []OneProbe
  BY RegistryImplementsBreaker, InitIInv, StepIInv, ProbeAlone, PTL

(* ... and it closes on the answers to requests sent after the cooldown.   *)
THEOREM RegistryClosesOnProof == RSpec => ClosesOnProof
  BY RegistryImplementsBreaker, InitIInv, StepIInv, ClosingStep, PTL DEF ClosesOnProof
=============================================================================
