------------------------------ MODULE Registry ------------------------------
(***************************************************************************)
(* providers/registry.ts around one provider: the calls of Breaker, each   *)
(* behind a token bucket, with retries and a deadline per attempt, made on *)
(* behalf of flights (SingleFlight) that several callers may share.        *)
(*                                                                         *)
(* A call of Breaker is the call a flight makes of this provider.  The     *)
(* other providers are one, which may answer anything at any time.  The    *)
(* delay between two attempts is part of the next attempt's time.          *)
(***************************************************************************)
EXTENDS Breaker

CONSTANTS
  Callers,
  Shared,       \* the flights for quotes and histories: SingleFlight
  Capacity,     \* requestsPerMinute: the size of the bucket
  RefillEvery,  \* ticks until it gains a token
  Attempts,     \* retry.attempts
  RequestTime   \* requestTimeoutMs

ASSUME RegistryAssumption ==
  /\ Shared \subseteq Calls
  /\ {Capacity, RefillEvery, Attempts, RequestTime} \subseteq Nat \ {0}
  /\ CallTime = Attempts * RequestTime

VARIABLES
  tokens, sinceRefill,  \* TokenBucket of the provider
  attempt,   \* flight -> which attempt its call is at, 0 when none
  asked,     \* the flights this provider has answered, refused or failed
  waiting    \* flight -> the callers that share it; none: no flight

bucket == <<tokens, sinceRefill>>
flights == <<attempt, asked, waiting>>
all == <<vars, bucket, flights>>

RInit ==
  /\ Init
  /\ tokens = Capacity /\ sinceRefill = 0
  /\ attempt = [c \in Calls |-> 0]
  /\ asked = {}
  /\ waiting = [c \in Calls |-> {}]

-----------------------------------------------------------------------------
Waits(u) == \E c \in Calls : u \in waiting[c]

(* SingleFlight.run: the first caller starts the flight, others join it.   *)
(* getCorporateActions and resolve are not shared.                         *)
Ask(u, c) ==
  /\ ~Waits(u)
  /\ c \in Shared \/ waiting[c] = {}
  /\ waiting' = [waiting EXCEPT ![c] = @ \cup {u}]
  /\ UNCHANGED <<vars, bucket, attempt, asked>>

MyTurn(c) == waiting[c] # {} /\ c \notin asked /\ attempt[c] = 0

canAttempt ==
  CASE state = "closed"    -> TRUE
    [] state = "open"      -> openAge >= OpenFor
    [] state = "half_open" -> probesInFlight < 1

(* Mutant: a refused request starts the wait for a token again. *)
ThrottleAndRestart(c) ==
  /\ MyTurn(c) /\ tokens = 0
  /\ sinceRefill' = 0
  /\ asked' = asked \cup {c}
  /\ UNCHANGED <<vars, tokens, attempt, waiting>>

(* tryTake fails: not a failure, nobody was asked. *)
Throttle(c) ==
  /\ MyTurn(c) /\ tokens = 0
  /\ asked' = asked \cup {c}
  /\ UNCHANGED <<vars, bucket, attempt, waiting>>

(* The token is spent before the breaker is asked. *)
Refuse(c) ==
  /\ MyTurn(c) /\ tokens > 0 /\ ~canAttempt
  /\ tokens' = tokens - 1
  /\ asked' = asked \cup {c}
  /\ UNCHANGED <<vars, sinceRefill, attempt, waiting>>

Start(c) ==
  /\ MyTurn(c) /\ tokens > 0
  /\ tokens' = tokens - 1
  /\ Attempt(c)
  /\ attempt' = [attempt EXCEPT ![c] = 1]
  /\ UNCHANGED <<sinceRefill, asked, waiting>>

Calling(c) == attempt[c] > 0

(* Mutant: retries until the provider answers. *)
MayRetryAlways(c) == TRUE
MayRetry(c) == attempt[c] < Attempts

(* An attempt fails or is timed out, and there is another one. *)
Retry(c) ==
  /\ Calling(c) /\ ~up /\ MayRetry(c)
  /\ attempt' = [attempt EXCEPT ![c] = IF @ < Attempts THEN @ + 1 ELSE @]
  /\ UNCHANGED <<vars, bucket, asked, waiting>>

(* The end of a call; "unknown symbol" is never tried again. *)
End(c) ==
  /\ Calling(c)
  /\ Succeed(c) \/ NotFound(c) \/ (~MayRetry(c) /\ Fail(c))
  /\ asked' = asked \cup {c}
  /\ attempt' = [attempt EXCEPT ![c] = 0]
  /\ UNCHANGED <<bucket, waiting>>

(* The flight ends, whatever came of it, and everyone on it is answered.   *)
(* A quote waits for all providers; the others go down the list, and this  *)
(* provider's turn may be all they need.                                   *)
Land(c) ==
  /\ waiting[c] # {} /\ c \in asked
  /\ waiting' = [waiting EXCEPT ![c] = {}]
  /\ asked' = asked \ {c}
  /\ UNCHANGED <<vars, bucket, attempt>>

(* Time: an attempt has RequestTime, the bucket gains a token now and then. *)
RTick ==
  /\ \A c \in Calls : Calling(c) => calls[c] < attempt[c] * RequestTime
  /\ Tick
  /\ IF sinceRefill + 1 < RefillEvery
     THEN sinceRefill' = sinceRefill + 1 /\ UNCHANGED tokens
     ELSE /\ sinceRefill' = 0
          /\ tokens' = IF tokens < Capacity THEN tokens + 1 ELSE tokens
  /\ UNCHANGED flights

(* The provider, and the fault-injection routes. *)
Outside == (Flip \/ forceOpen \/ reset) /\ UNCHANGED <<bucket, flights>>

FlightStep(c) ==
  \/ Throttle(c) \/ Refuse(c) \/ Start(c) \/ Retry(c) \/ End(c)
  \/ Land(c)

RNext ==
  \/ RTick \/ Outside
  \/ \E u \in Callers, c \in Calls : Ask(u, c)
  \/ \E c \in Calls : FlightStep(c)

(* Time passes, every attempt ends by its deadline, the other providers    *)
(* are called behind deadlines too, and the scheduler keeps asking.        *)
RFairness ==
  /\ WF_all(RTick)
  /\ \A c \in Calls : WF_all(FlightStep(c))
  /\ WF_all(\E u \in Callers, c \in Calls : Ask(u, c))

RSpec == RInit /\ [][RNext]_all /\ RFairness
-----------------------------------------------------------------------------
(* The types; a call is under way exactly while its flight is at one of    *)
(* its attempts, and every flight has somebody waiting for it.             *)
RTypeOK ==
  /\ TypeOK
  /\ tokens \in 0 .. Capacity /\ sinceRefill \in 0 .. RefillEvery - 1
  /\ \A c \in Calls :
       /\ attempt[c] \in 0 .. Attempts /\ (c \in asked => ~Calling(c))
       /\ Calling(c) <=> calls[c] # Idle
       /\ waiting[c] = {} => c \notin asked /\ ~Calling(c)
  /\ waiting \in [Calls -> SUBSET Callers]

(* Once the provider answers and stays up it is really used again and      *)
(* again: the tokens that refused and failing calls spend come back, the   *)
(* probes get through, and no flight waits on another.                     *)
UsedAgain ==
  <>[](up /\ ~SlotLeaked) => []<><<\E c \in Calls : End(c)>>_all

(* Whoever asks is answered, whatever the providers do: no deadline, no    *)
(* retry and no shared flight holds a caller for ever.                     *)
EveryCallerIsAnswered ==
  \A u \in Callers : Waits(u) ~> ~Waits(u)
=============================================================================
