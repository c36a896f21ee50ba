------------------------------ MODULE Breaker ------------------------------
(***************************************************************************)
(* The circuit breaker of one provider (infra/resilience.ts) and the calls *)
(* that ProviderRegistry.call sends through it.                            *)
(*                                                                         *)
(* Time is kept as ages: how long ago the breaker opened, an event was     *)
(* recorded, a call was admitted.  An age that has reached its limit       *)
(* stays there, so behaviours of any length have finitely many states.     *)
(* prune() runs before every read of the events, so an event can as well   *)
(* be dropped at the instant it leaves the window.                         *)
(***************************************************************************)
EXTENDS Integers, FiniteSets, Sequences, SequencesExt

CONSTANTS
  Calls,           \* requests that can be under way at once
  Window,          \* windowMs
  MinSamples,      \* minSamples
  OpenFor,         \* openMs
  HalfOpenProbes,  \* halfOpenProbes
  CallTime,        \* attempts x requestTimeoutMs: the longest a call takes
  MaxEvents,       \* bound on the events in the window
  UnknownSymbols,  \* whether users ask for symbols no provider knows
  MaxForced        \* bound on the uses of the fault-injection routes

ASSUME LimitsAssumption ==
  /\ {Window, MinSamples, OpenFor, HalfOpenProbes, CallTime, MaxEvents} \subseteq Nat \ {0}
  /\ UnknownSymbols \in BOOLEAN /\ MaxForced \in Nat
(* A call never outlasts the cooldown (2 x 4 s against 15 s by default). *)
ASSUME CallsEndInTime == CallTime < OpenFor

VARIABLES
  state, openAge, probesInFlight, probeSuccesses,  \* fields of CircuitBreaker
  events,   \* the rolling window, oldest first
  calls,    \* call -> its age, or Idle
  up,       \* whether the provider answers
  probes,   \* history: the calls admitted since the breaker went half-open
  proofs,   \* history: how many calls of `probes` have succeeded
  forced    \* how often the breaker was tripped or reset by hand

breaker == <<state, openAge, probesInFlight, probeSuccesses, events>>
history == <<probes, proofs>>
vars == <<breaker, calls, up, history, forced>>

Idle == -1

Init ==
  /\ state = "closed" /\ openAge = 0
  /\ probesInFlight = 0 /\ probeSuccesses = 0
  /\ events = << >>
  /\ calls = [c \in Calls |-> Idle]
  /\ up \in BOOLEAN
  /\ probes = {} /\ proofs = 0
  /\ forced = 0

InFlight == {c \in Calls : calls[c] # Idle}

(* prune: events are recorded in order of time, so those that stay are the *)
(* last ones.                                                              *)
InWindow(es) == SubSeq(es, Cardinality({k \in DOMAIN es : es[k].age > Window}) + 1, Len(es))

FailuresIn(es) == Len(SelectSeq(es, LAMBDA e : ~e.ok))

-----------------------------------------------------------------------------
Admit(c) == calls' = [calls EXCEPT ![c] = 0]

(* Mutant: half-open, every caller is a probe. *)
AttemptProbes(c) ==
  /\ state = "half_open"
  /\ Admit(c)
  /\ probesInFlight' = probesInFlight + 1
  /\ probes' = probes \cup {c}
  /\ UNCHANGED <<state, openAge, probeSuccesses, events, proofs>>

(* canAttempt in each of its states; a refused caller changes nothing. *)
AttemptClosed(c) ==
  /\ state = "closed"
  /\ Admit(c)
  /\ UNCHANGED <<breaker, history>>

AttemptAfterCooldown(c) ==
  /\ state = "open" /\ openAge >= OpenFor
  /\ Admit(c)
  /\ state' = "half_open"
  /\ probesInFlight' = 1 /\ probeSuccesses' = 0
  /\ probes' = {c} /\ proofs' = 0
  /\ UNCHANGED <<openAge, events>>

AttemptProbe(c) ==
  /\ state = "half_open" /\ probesInFlight < 1
  /\ Admit(c)
  /\ probesInFlight' = probesInFlight + 1
  /\ probes' = probes \cup {c}
  /\ UNCHANGED <<state, openAge, probeSuccesses, events, proofs>>

Attempt(c) ==
  /\ calls[c] = Idle
  /\ Len(events) + Cardinality(InFlight) < MaxEvents
  /\ AttemptClosed(c) \/ AttemptAfterCooldown(c) \/ AttemptProbe(c)
  /\ UNCHANGED <<up, forced>>

Finish(c) ==
  /\ calls' = [calls EXCEPT ![c] = Idle]
  /\ UNCHANGED <<up, forced>>

(* trip: (re)open, now. *)
Trip ==
  /\ state' = "open" /\ openAge' = 0
  /\ probesInFlight' = 0 /\ probeSuccesses' = 0

(* Mutants: one probe too few, one too many. *)
ProvenEarly == probeSuccesses + 2 >= HalfOpenProbes
ProvenLate == probeSuccesses + 1 > HalfOpenProbes

(* The success being recorded is the last one the breaker waited for. *)
Proven == probeSuccesses + 1 >= HalfOpenProbes

(* recordSuccess.  In the half-open state it counts as a probe, whichever  *)
(* call it comes from.                                                     *)
RecordSuccess ==
  LET recorded == Append(events, [age |-> 0, ok |-> TRUE])
  IN /\ IF state = "half_open"
        THEN /\ probesInFlight' = IF probesInFlight > 0 THEN probesInFlight - 1 ELSE 0
             /\ probeSuccesses' = probeSuccesses + 1
             /\ state' = IF Proven THEN "closed" ELSE state
             /\ events' = IF Proven THEN << >> ELSE recorded
        ELSE /\ events' = recorded
             /\ UNCHANGED <<state, probesInFlight, probeSuccesses>>
     /\ UNCHANGED openAge

Succeed(c) ==
  /\ calls[c] # Idle /\ up
  /\ RecordSuccess
  /\ Finish(c)
  /\ proofs' = IF c \in probes THEN proofs + 1 ELSE proofs
  /\ probes' = probes \ {c}

(* A failed probe reopens; otherwise the ratio decides, also for a late    *)
(* failure that arrives while the breaker is open already.                 *)
RecordFailure ==
  LET recorded == Append(events, [age |-> 0, ok |-> FALSE])
      unhealthy == /\ Len(recorded) >= MinSamples
                   /\ 2 * FailuresIn(recorded) >= Len(recorded)
  IN /\ events' = recorded
     /\ IF state = "half_open" \/ unhealthy
        THEN Trip
        ELSE UNCHANGED <<state, openAge, probesInFlight, probeSuccesses>>

Fail(c) ==
  /\ calls[c] # Idle /\ ~up
  /\ RecordFailure
  /\ Finish(c)
  /\ probes' = probes \ {c}
  /\ UNCHANGED proofs

(* Mutant: an unknown symbol counts against the provider. *)
NotFoundIsFailure(c) ==
  /\ UnknownSymbols
  /\ calls[c] # Idle /\ up
  /\ RecordFailure
  /\ Finish(c)
  /\ probes' = probes \ {c}
  /\ UNCHANGED proofs

(* "Unknown symbol" is an answer, and is recorded as neither success nor   *)
(* failure.                                                                *)
NotFound(c) ==
  /\ UnknownSymbols
  /\ calls[c] # Idle /\ up
  /\ Finish(c)
  /\ probes' = probes \ {c}
  /\ UNCHANGED <<breaker, proofs>>

(* POST /api/dev/..., by hand. *)
ByHand == forced < MaxForced /\ forced' = forced + 1

forceOpen ==
  /\ ByHand
  /\ Trip
  /\ UNCHANGED <<events, calls, up, history>>

reset ==
  /\ ByHand
  /\ state' = "closed" /\ events' = << >>
  /\ probesInFlight' = 0 /\ probeSuccesses' = 0
  /\ UNCHANGED <<openAge, calls, up, history>>

(* The provider goes down or comes back. *)
Flip == up' = ~up /\ UNCHANGED <<breaker, calls, history, forced>>

(* Time passes; a call that has used up its time fails or answers first. *)
Tick ==
  /\ \A c \in Calls : calls[c] < CallTime
  /\ openAge' = IF state = "open" /\ openAge < OpenFor THEN openAge + 1 ELSE openAge
  /\ events' = InWindow([k \in DOMAIN events |-> [events[k] EXCEPT !.age = @ + 1]])
  /\ calls' = [c \in Calls |-> IF calls[c] = Idle THEN Idle ELSE calls[c] + 1]
  /\ UNCHANGED <<state, probesInFlight, probeSuccesses, up, history, forced>>

Complete(c) == Succeed(c) \/ Fail(c) \/ NotFound(c)

Next ==
  \/ Tick \/ Flip \/ forceOpen \/ reset
  \/ \E c \in Calls : Attempt(c) \/ Complete(c)

(* Time passes, every call ends (withTimeout), and the scheduler keeps     *)
(* polling: somebody always asks again.                                    *)
Fairness ==
  /\ WF_vars(Tick)
  /\ \A c \in Calls : WF_vars(Complete(c))
  /\ WF_vars(\E c \in Calls : Attempt(c))

Spec == Init /\ [][Next]_vars /\ Fairness
-----------------------------------------------------------------------------
Events == [age : 0 .. Window, ok : BOOLEAN]

TypeOK ==
  /\ state \in {"closed", "open", "half_open"}
  /\ openAge \in 0 .. OpenFor
  /\ probesInFlight \in 0 .. 1
  /\ probeSuccesses \in 0 .. HalfOpenProbes
  /\ events \in Seq(Events) /\ Len(events) <= MaxEvents
  /\ calls \in [Calls -> Idle .. CallTime]
  /\ up \in BOOLEAN
  /\ probes \subseteq Calls
  /\ proofs \in Nat /\ forced \in 0 .. MaxForced

(* Half-open, the provider sees at most one request at a time, late ones   *)
(* from before the cooldown included.                                      *)
OneProbe == state = "half_open" => Cardinality(InFlight) <= 1

(* The breaker closes on the evidence of HalfOpenProbes requests that were *)
(* all sent after the cooldown, unless it is reset by hand.                *)
ClosesOnProof ==
  [][(state = "half_open" /\ state' = "closed") => (reset \/ proofs' >= HalfOpenProbes)]_vars

(* Once the provider stays up the breaker closes and stays closed: the     *)
(* cooldown is followed by probes, and answers end the outage.  This is    *)
(* what the documents promise and the code does not keep (README, section  *)
(* 6): no run checks it.                                                   *)
RecoversWithProvider == <>[]up => <>[](state = "closed")

(* ... which the code guarantees as long as no probe is answered "unknown  *)
(* symbol": such an answer leaves the probe slot taken by nobody.          *)
SlotLeaked == state = "half_open" /\ probesInFlight > 0 /\ InFlight = {}

RecoversUnlessLeaked == <>[](up /\ ~SlotLeaked) => <>[](state = "closed")
=============================================================================
