---------------------------- MODULE MarketHours ----------------------------
(***************************************************************************)
(* Four answers to "is the market open, and when is the next run": the bar *)
(* filter of utils/market_sessions.py, the phase shown by the API          *)
(* (market_session_service.py), the clock of the real-time engine          *)
(* (realtime/market_clock.py) and the schedules of monitoring/scheduler.py,*)
(* with the trading calendar two of them rest on.  A moment counts half    *)
(* minutes from a Monday, so that the seconds some of them drop matter.    *)
(***************************************************************************)
EXTENDS Integers, FiniteSets, Sequences

CONSTANTS DayLength, PreOpen, MarketOpen, MarketClose,   \* times of day, in half minutes
          HoursDays,        \* the days whose moments are looked at: 0 .. HoursDays - 1
          Intervals,        \* poll intervals, in half minutes
          Schedules,        \* [enabled, mode, interval, time]
          InitialHolidays, MaxHolidays,
          NoRun

ASSUME HoursAssumption ==
  /\ 0 < PreOpen /\ PreOpen < MarketOpen /\ MarketOpen < MarketClose
  /\ MarketClose + 2 < DayLength
  /\ \A n \in {DayLength, PreOpen, MarketOpen, MarketClose} : n % 2 = 0

VARIABLE mh   \* [now, holidays, gate, interval]

DayOf(m) == m \div DayLength
TimeOf(m) == m % DayLength
Minute(t) == t - (t % 2)
At(day, time) == day * DayLength + time
WorkDay(d) == d % 7 < 5

\* The first and the last day of a loop that steps until a test holds; no loop of
\* this code passes more than the holidays and the weekends around them.
Ahead(d) == d .. d + 7 + 2 * MaxHolidays
Behind(d) == d - 7 - 2 * MaxHolidays .. d
FirstDay(days, Test(_)) == CHOOSE d \in days : Test(d) /\ \A e \in days : e < d => ~Test(e)
LastDayOf(days, Test(_)) == CHOOSE d \in days : Test(d) /\ \A e \in days : e > d => ~Test(e)

-----------------------------------------------------------------------------
(* The trading calendar                                                    *)

IsTradingDay(d) == WorkDay(d) /\ d \notin mh.holidays
NextTradingDay(d) == FirstDay(Ahead(d + 1), IsTradingDay)
PrevTradingDay(d) == LastDayOf(Behind(d - 1), IsTradingDay)
TradingDaysBetween(start, end) == Cardinality({d \in start .. end - 1 : IsTradingDay(d)})

\* The last Thursday of a month that ends on lastDay; the Thursday of a week; or
\* the trading day before.
RollBack(d) == LastDayOf(Behind(d), IsTradingDay)
LastThursday(lastDay) == lastDay - ((lastDay - 3) % 7)
MonthlyExpiry(lastDay) == RollBack(LastThursday(lastDay))
WeeklyExpiry(week) == RollBack(7 * week + 3)

-----------------------------------------------------------------------------
(* Who says that the market is open                                        *)

\* utils.market_sessions: the time alone, to the second.
InMarketHours(m) == MarketOpen <= TimeOf(m) /\ TimeOf(m) <= MarketClose

\* get_market_session_state: the calendar, and the time to the minute.
Phase(m) ==
  LET t == Minute(TimeOf(m))
  IN  IF ~WorkDay(DayOf(m)) THEN "weekend"
      ELSE IF ~IsTradingDay(DayOf(m)) THEN "closed"
      ELSE IF PreOpen <= t /\ t < MarketOpen THEN "pre_open"
      ELSE IF MarketOpen <= t /\ t <= MarketClose THEN "open"
      ELSE IF t > MarketClose THEN "post_close"
      ELSE "closed"

\* MarketClock.is_market_open: weekends but no holidays; always open without gate.
ClockOpen(m) ==
  \/ ~mh.gate
  \/ WorkDay(DayOf(m)) /\ MarketOpen <= Minute(TimeOf(m)) /\ Minute(TimeOf(m)) <= MarketClose

\* _next_session_open: a moment inside a session is its own next opening.
NextSessionOpen(from) ==
  LET m == At(FirstDay(Ahead(DayOf(from)), WorkDay), TimeOf(from))
  IN  IF TimeOf(m) <= MarketOpen THEN At(DayOf(m), MarketOpen)
      ELSE IF TimeOf(m) > MarketClose THEN At(FirstDay(Ahead(DayOf(m) + 1), WorkDay), MarketOpen)
      ELSE m

NextRunTime(m) ==
  LET candidate == m + mh.interval
  IN  IF ~mh.gate THEN candidate
      ELSE IF ~ClockOpen(m) THEN NextSessionOpen(m)
      ELSE IF WorkDay(DayOf(candidate)) /\ Minute(TimeOf(candidate)) <= MarketClose THEN candidate
      ELSE NextSessionOpen(m + DayLength)

-----------------------------------------------------------------------------
(* Schedules                                                               *)

NextScheduled(schedule, from) ==
  IF ~schedule.enabled \/ schedule.mode = "manual" THEN NoRun
  ELSE IF schedule.mode = "interval" THEN from + schedule.interval
  ELSE LET today == At(DayOf(from), schedule.time)
       IN  IF today <= from THEN today + DayLength ELSE today

\* plan_runs: at most maxRuns runs after the start, the last one not after the end.
PlanRuns(schedule, start, end, maxRuns) ==
  LET more[runs \in Seq(Int)] ==
        LET next == NextScheduled(schedule, IF runs = <<>> THEN start ELSE runs[Len(runs)])
        IN  IF Len(runs) >= maxRuns \/ next = NoRun THEN runs
            ELSE IF next > end THEN runs
            ELSE more[Append(runs, next)]
  IN  IF end <= start THEN <<>> ELSE more[<<>>]

-----------------------------------------------------------------------------
MhInit ==
  mh \in [now : {0}, holidays : InitialHolidays, gate : BOOLEAN, interval : Intervals]

\* Time passes; a poller sleeps until its next run.
Elapse ==
  /\ mh.now < At(HoursDays, 0)
  /\ mh' = [mh EXCEPT !.now = @ + 1]

Sleep ==
  /\ mh.now < At(HoursDays, 0)
  /\ mh' = [mh EXCEPT !.now = NextRunTime(mh.now)]

AddHolidays(d) ==
  /\ Cardinality(mh.holidays) < MaxHolidays /\ TimeOf(mh.now) = 0
  /\ mh' = [mh EXCEPT !.holidays = @ \cup {d}]

MhNext ==
  \/ Elapse \/ Sleep
  \/ \E d \in 0 .. HoursDays - 1 : AddHolidays(d)

-----------------------------------------------------------------------------
(* Properties                                                              *)

\* The answers differ where they are meant to and nowhere else: the API calls the
\* market open when the gated clock does, but on holidays, and the bar filter and
\* the API differ on a trading day in the seconds of the closing minute alone.
ClocksAgree ==
  /\ mh.gate =>
       (Phase(mh.now) = "open" <=> ClockOpen(mh.now) /\ IsTradingDay(DayOf(mh.now)))
  /\ IsTradingDay(DayOf(mh.now)) =>
       (Phase(mh.now) = "open" <=>
          InMarketHours(mh.now) \/ TimeOf(mh.now) \in MarketClose + 1 .. MarketClose + 1)

\* A gated poller that never polls across midnight always wakes up later than it
\* went to sleep and inside a session, the nearest one when it sleeps through the
\* night from after the close.  The last poll of a session is followed by one on the
\* next working day; but a poll in the seconds of the closing minute, which is open to
\* the minute and closed to the second, by one on the working day after that.
NextRunIsInSession ==
  (mh.gate /\ mh.interval < DayLength - MarketClose - 2) =>
    LET now == mh.now
        next == NextRunTime(now)
    IN  /\ next > now /\ ClockOpen(next)
        /\ (WorkDay(DayOf(now)) /\ ~ClockOpen(now)) =>
             \A m \in now .. next - 1 : ~ClockOpen(m)
        /\ ClockOpen(now) /\ DayOf(next) # DayOf(now) =>
             LET tomorrow == FirstDay(Ahead(DayOf(now) + 1), WorkDay)
             IN  DayOf(next) = IF TimeOf(now) <= MarketClose THEN tomorrow
                               ELSE FirstDay(Ahead(tomorrow + 1), WorkDay)

\* Monthly and weekly expiries name the same day for the last week of a month,
\* trading days apart from no other trading day; and the calendar's steps forward
\* and back undo each other.
CalendarAgrees ==
  LET d == DayOf(mh.now)
  IN  TimeOf(mh.now) = 0 =>
        /\ MonthlyExpiry(d) = WeeklyExpiry(LastThursday(d) \div 7)
        /\ TradingDaysBetween(MonthlyExpiry(d), LastThursday(d) + 1) = 1
        /\ IsTradingDay(d) => PrevTradingDay(NextTradingDay(d)) = d
        /\ TradingDaysBetween(d, NextTradingDay(d)) = IF IsTradingDay(d) THEN 1 ELSE 0

\* A plan made now has every time of its schedule in the range once and in order,
\* until it has as many as were asked for.
PlanIsComplete ==
  \A s \in Schedules, length \in {0, DayLength, 2 * DayLength}, maxRuns \in {1, 3} :
    LET runs == PlanRuns(s, mh.now, mh.now + length, maxRuns)
        due == IF ~s.enabled \/ s.mode = "manual" THEN {}
               ELSE {m \in mh.now + 1 .. mh.now + length :
                       IF s.mode = "daily" THEN TimeOf(m) = s.time
                       ELSE (m - mh.now) % s.interval = 0}
    IN  /\ Len(runs) = IF Cardinality(due) < maxRuns THEN Cardinality(due) ELSE maxRuns
        /\ \A i \in DOMAIN runs : runs[i] \in due /\ Cardinality({m \in due : m < runs[i]}) = i - 1

HoursHold == ClocksAgree /\ NextRunIsInSession /\ CalendarAgrees /\ PlanIsComplete
=============================================================================
