---------------------------- MODULE MarketClock -----------------------------
(***************************************************************************)
(* domain/calendar.ts and domain/marketClock.ts: when is a session?        *)
(*                                                                         *)
(* An instant is a number of ticks, DayLen to the day.  The exchange's     *)
(* clock is ahead of the instants by Offset: Zone, and Shift more in the   *)
(* periods of SummerTime; day 0 begins when that clock reads 0.  Shares of *)
(* a session are in hundredths.  A market is "us" (the real exchange,      *)
(* us-equities) or "simulated" (always open, sessions of SimSession ticks  *)
(* back to back), the two implementations of the interface MarketClock.    *)
(***************************************************************************)
EXTENDS Integers, FiniteSets

CONSTANTS
  DayLen,
  PreAt, OpenAt, CloseAt, PostEnd,  \* 04:00, 09:30, 16:00, 20:00
  ClosedDays,   \* the days that are weekends or fixed holidays
  Zone, Shift,  \* the exchange's time in winter, and an hour
  SummerTime,   \* the periods <<from, to>> of instants with the hour added
  MaxSessions,  \* 400: how many sessions sessionsAgo goes back at most
  Reach,        \* 1000: how many days it walks for them at most
  SimEpoch, SimSession, SimHistory

ASSUME DayAssumption ==
  /\ {DayLen, PreAt, OpenAt, CloseAt, PostEnd, MaxSessions, Reach} \subseteq Nat
  /\ PreAt <= OpenAt /\ OpenAt < CloseAt /\ CloseAt <= PostEnd /\ PostEnd < DayLen
(* An hour before or after the bell is still the day of the bell. *)
ASSUME ZoneAssumption ==
  Zone \in Int /\ Shift \in Nat /\ Shift <= CloseAt /\ CloseAt + Shift < DayLen
ASSUME SimulatedAssumption ==
  SimEpoch \in Int /\ SimSession \in Nat \ {0} /\ SimHistory \in Nat

Offset(ts) ==
  IF \E period \in SummerTime : period[1] <= ts /\ ts < period[2] THEN Zone + Shift ELSE Zone

(* etParts: what the exchange's calendar and clock read at ts. *)
DayOf(ts) == (ts + Offset(ts)) \div DayLen
TimeOfDay(ts) == (ts + Offset(ts)) % DayLen

isTradingDay(ts) == DayOf(ts) \notin ClosedDays

marketPhase(ts) ==
  CASE ~isTradingDay(ts) \/ TimeOfDay(ts) < PreAt -> "closed"
    [] OTHER ->
       CASE TimeOfDay(ts) < OpenAt  -> "pre"
         [] TimeOfDay(ts) \in OpenAt .. CloseAt - 1 -> "open"
         [] TimeOfDay(ts) \in CloseAt .. PostEnd - 1 -> "post"
         [] OTHER -> "closed"

(* The calendar date, and the bell that ends it: the identity of a bar.    *)
(* The bell is brought back to an instant with the offset of ts itself.    *)
sessionKey(ts) == DayOf(ts)
sessionCloseTs(ts) == (DayOf(ts) * DayLen + CloseAt) - Offset(ts)

SessionTicks == CloseAt - OpenAt
MonthDays == 30

tradingDaysBetween(from, to) ==
  IF to <= from THEN 0
  ELSE IF to - from > MonthDays * DayLen THEN ((to - from) * 500) \div (DayLen * 7)
  ELSE (100 * Cardinality({t \in from .. to - 1 : marketPhase(t) = "open"})) \div SessionTicks

sessionFractionElapsed(ts) ==
  LET elapsed == TimeOfDay(ts) - OpenAt
  IN CASE elapsed <= 0 -> 0
       [] elapsed >= SessionTicks -> 100
       [] OTHER -> (100 * elapsed) \div SessionTicks

-----------------------------------------------------------------------------
(* The real exchange. *)

ExchangeProgress(ts) ==
  CASE marketPhase(ts) = "pre"  -> 0
    [] marketPhase(ts) = "open" -> sessionFractionElapsed(ts)
    [] OTHER -> 100

(* The trading days among the d days before ts. *)
TradingDaysBack(ts, d) == Cardinality({e \in 1 .. d : isTradingDay(ts - e * DayLen)})

ExchangeSessionsAgo(ts, sessions) ==
  LET wanted == IF sessions < MaxSessions THEN sessions ELSE MaxSessions
      enough == {d \in 0 .. Reach : TradingDaysBack(ts, d) >= wanted}
      days   == IF enough = {} THEN Reach
                ELSE CHOOSE d \in enough : \A e \in enough : d <= e
  IN ts - days * DayLen

(* Today's bell once it has rung, else that of the trading day before; the *)
(* walk back gives up after ten more days.                                 *)
ExchangeLastCompleted(ts) ==
  LET rung == isTradingDay(ts) /\ TimeOfDay(ts) >= CloseAt
      back == {d \in 1 .. 11 : isTradingDay(ts - d * DayLen) \/ d = 11}
  IN IF rung THEN sessionCloseTs(ts)
     ELSE sessionCloseTs(ts - (CHOOSE d \in back : \A e \in back : d <= e) * DayLen)

-----------------------------------------------------------------------------
(* The simulator: sessions are numbered from the oldest history. *)

sessionIndexOf(ts) == SimHistory + ((ts - SimEpoch) \div SimSession)
sessionStartAt(index) == SimEpoch + (index - SimHistory) * SimSession
phaseOf(ts) == (100 * (ts - sessionStartAt(sessionIndexOf(ts)))) \div SimSession
SimulatedCloseOf(ts) == sessionStartAt(sessionIndexOf(ts))
SimulatedLastCompleted(ts) == sessionStartAt(sessionIndexOf(ts) - 1)
SimulatedBetween(from, to) == IF to <= from THEN 0 ELSE (100 * (to - from)) \div SimSession

-----------------------------------------------------------------------------
(* The interface MarketClock. *)

Clocks == {"us", "simulated"}
Simulated(market) == market = "simulated"

isOpen(market, ts) == IF Simulated(market) THEN TRUE ELSE marketPhase(ts) = "open"

sessionCloseOf(market, ts) ==
  IF Simulated(market) THEN SimulatedCloseOf(ts) ELSE sessionCloseTs(ts)

sessionKeyOf(market, ts) ==
  IF Simulated(market) THEN sessionIndexOf(ts) ELSE sessionKey(ts)

sessionsBetween(market, from, to) ==
  IF Simulated(market) THEN SimulatedBetween(from, to) ELSE tradingDaysBetween(from, to)

sessionProgress(market, ts) ==
  IF Simulated(market) THEN phaseOf(ts) ELSE ExchangeProgress(ts)

lastCompletedSessionAt(market, ts) ==
  IF Simulated(market) THEN SimulatedLastCompleted(ts) ELSE ExchangeLastCompleted(ts)

sessionsAgo(market, ts, sessions) ==
  IF Simulated(market) THEN ts - sessions * SimSession ELSE ExchangeSessionsAgo(ts, sessions)
=============================================================================
