------------------------ MODULE IntradayBacktests -------------------------
(***************************************************************************)
(* The two strategies that bring a backtest of their own.                  *)
(*                                                                         *)
(* backtest_dras: the stand-alone backtest of the Dynamic Regime Adaptive  *)
(* System.  One step of the model is one turn of its loop over the bars:   *)
(* the daily reset, the exits of an open position (partial at TP1, stop,   *)
(* square-off from 15:15), or else an entry.                               *)
(*                                                                         *)
(* Money is counted in hundredths of a rupee and prices in whole rupees,   *)
(* so that commissions (a whole percentage here) stay integers.  A long    *)
(* and a short are mirror images: s is 1 for a long and -1 for a short,    *)
(* and s * price orders prices from bad to good for the position.          *)
(*                                                                         *)
(* backtest_strategy of the intraday trend-following strategy: exits at a  *)
(* stop or a target that are percentages of the entry, a forced close at   *)
(* the end of the session, entries on the close of a bar.  The size of the *)
(* position and the equity decide nothing and are left out.                *)
(*                                                                         *)
(* At the end, the studies over one intraday data set: these two and a     *)
(* strategy of the library in an engine.                                   *)
(***************************************************************************)
EXTENDS StrategySignals, SequencesExt

CONSTANTS InitialCapital,   \* hundredths of a rupee
          RiskPct, DailyDdLimit, MaxDailyTrades, MaxConLosses,
          CommissionPct, MinTick,
          NoLevel,          \* a price level that is None or NaN
          DrasBars          \* the bars of the data set, see BarOK

\* What precompute_dras makes of a bar: its prices, the chandelier levels,
\* the stop distance atr14 * sl_atr_mult, the verdict on the regime, and the
\* side whose trend, pullback and candle all agree (1, -1, or 0 for none; the
\* two trends exclude each other).
\* A price level, or none.
Level(x) == x \in Int \/ x = NoLevel

BarOK(b) ==
  /\ b.low \in Int /\ b.close \in Int /\ b.high \in Int
  /\ b.low <= b.close /\ b.close <= b.high
  /\ Level(b.chandelierLong) /\ Level(b.chandelierShort)
  /\ b.slDist \in Nat /\ b.side \in {-1, 0, 1} /\ b.regimeAllowed \in BOOLEAN

ASSUME DrasAssumption ==
  /\ \A b \in DrasBars : BarOK(b)
  /\ InitialCapital \in Nat /\ RiskPct \in Nat /\ CommissionPct \in Nat
  /\ DailyDdLimit \in Nat /\ MaxDailyTrades \in Nat /\ MaxConLosses \in Nat
  /\ MinTick \in Nat

CONSTANTS SessionStart, SessionEnd, TpPercent, SlPercent,
          TrendBars   \* [high, low, close, trend]; trend is the side that
                      \* vwap, supertrend and ema agree on, 0 for none

ASSUME TrendAssumption ==
  SessionStart \in Int /\ SessionEnd \in Int /\ SessionStart <= SessionEnd

VARIABLES book,    \* the local variables of backtest_dras
          trades   \* its list of closed legs

VARIABLE trade   \* the open position: its side, price, and the bar of entry

drasVars == <<book, trades>>

-----------------------------------------------------------------------------
(* Indicators of the clock                                                 *)

InWindow(t) == (t >= 570 /\ t <= 690) \/ (t >= 780 /\ t <= 885)
IsEod(t) == t >= 915

-----------------------------------------------------------------------------
(* Bookkeeping: a state of the loop is the pair [book, trades]             *)

FreshBook == [equity |-> InitialCapital, dayStartEquity |-> InitialCapital,
              tradesToday |-> 0, conLosses |-> 0, close |-> NoLevel, done |-> FALSE,
              position |-> 0, entPrice |-> NoLevel, initialSl |-> NoLevel,
              activeTsl |-> NoLevel, tp1Hit |-> FALSE, halfExited |-> FALSE,
              sig |-> NoLevel]

\* The book without its position.
Flat(k) == [k EXCEPT !.position = 0, !.entPrice = NoLevel, !.initialSl = NoLevel,
                     !.activeTsl = NoLevel, !.tp1Hit = FALSE, !.halfExited = FALSE,
                     !.sig = NoLevel]

Shares(n) == IF n < 0 THEN -n ELSE n
SideOf(k) == IF k.position > 0 THEN 1 ELSE -1

\* The better of two levels for side s: max for a long, min for a short.
Better(s, x, y) ==
  IF y = NoLevel THEN x ELSE IF x = NoLevel THEN y
  ELSE IF s * x >= s * y THEN x ELSE y

Pnl(s, entry, exit, qty) ==
  100 * s * (exit - entry) * qty - (entry + exit) * qty * CommissionPct

\* The row of one closed leg.  A long squared off at the end of the day is
\* recorded before its result is added to the equity, every other leg after.
Leg(k, s, exit, qty, reason) ==
  LET pnl == Pnl(s, k.entPrice, exit, qty)
      after == IF reason = "eod_exit" /\ s = 1 THEN k.equity ELSE k.equity + pnl
  IN  [side |-> s, entry |-> k.entPrice, exit |-> exit, qty |-> qty,
       pnl |-> pnl, equityAfter |-> after, reason |-> reason, day |-> day']

\* Closes qty shares of the position at price exit.
CloseLeg(st, exit, qty, reason) ==
  LET k == st.book
      s == SideOf(k)
      pnl == Pnl(s, k.entPrice, exit, qty)
  IN  [book |-> [k EXCEPT !.equity = @ + pnl,
                          !.position = @ - s * qty,
                          !.conLosses = IF pnl <= 0 THEN @ + 1 ELSE 0],
       trades |-> Append(st.trades, Leg(k, s, exit, qty, reason))]

CloseAll(st, exit, reason) ==
  LET closed == CloseLeg(st, exit, Shares(st.book.position), reason)
  IN  [closed EXCEPT !.book = Flat(@)]

-----------------------------------------------------------------------------
(* One turn of the loop                                                    *)

DailyReset(k) ==
  IF clock # 0 /\ ~NewDay THEN k
  ELSE [k EXCEPT !.dayStartEquity = k.equity, !.tradesToday = 0,
                 !.conLosses = 0]

\* Broken variant: one trade more than the limit.
KillSwitch_OneMore(k) ==
  \/ /\ k.dayStartEquity > 0
     /\ (k.dayStartEquity - k.equity) * 100 >= DailyDdLimit * k.dayStartEquity
  \/ k.tradesToday > MaxDailyTrades
  \/ k.conLosses >= MaxConLosses
KillSwitch(k) ==
  \/ /\ k.dayStartEquity > 0
     /\ (k.dayStartEquity - k.equity) * 100 >= DailyDdLimit * k.dayStartEquity
  \/ k.tradesToday >= MaxDailyTrades
  \/ k.conLosses >= MaxConLosses

Favourable(s, b) == IF s = 1 THEN b.high ELSE b.low
Adverse(s, b) == IF s = 1 THEN b.low ELSE b.high
Chandelier(s, b) == IF s = 1 THEN b.chandelierLong ELSE b.chandelierShort

Tp1Price(k) == k.entPrice + SideOf(k) * Shares(k.entPrice - k.initialSl)

\* The levels after this bar: TP1 is remembered once it was touched, the
\* trailing stop follows the chandelier; the break-even upgrade holds only on
\* a bar that goes beyond the extreme of the signal bar.
UpdateLevels(k, b) ==
  LET s == SideOf(k)
  IN  [k EXCEPT !.tp1Hit = @ \/ s * Favourable(s, b) >= s * Tp1Price(k),
                !.activeTsl = Better(s, @, Chandelier(s, b))]

FinalSl(k, b) ==
  LET s == SideOf(k)
  IN  IF k.tp1Hit /\ s * Favourable(s, b) > s * k.sig
      THEN k.entPrice ELSE k.initialSl

EffectiveStop(k, b) == Better(SideOf(k), FinalSl(k, b), k.activeTsl)

\* Half of the position leaves at TP1 or, when it is better, at the close.
PartialExit(st, b) ==
  LET k == st.book
      half == Shares(k.position) \div 2
      exit == Better(SideOf(k), Tp1Price(k), b.close)
      closed == CloseLeg(st, exit, half, "tp1_partial")
  IN  IF k.halfExited \/ ~k.tp1Hit \/ half = 0 THEN st
      ELSE [closed EXCEPT !.book.halfExited = TRUE]

StopExit(st, b, stop, reason) ==
  LET s == SideOf(st.book)
  IN  IF s * Adverse(s, b) <= s * stop THEN CloseAll(st, stop, reason) ELSE st

\* Broken variant: a bar that takes half off is done with, also at 15:15.
Exits_PartialFirst(st, b) ==
  LET k == UpdateLevels(st.book, b)
      stop == EffectiveStop(k, b)
      now == [st EXCEPT !.book = k]
  IN  IF PartialExit(now, b) # now THEN PartialExit(now, b)
      ELSE IF IsEod(clock') THEN CloseAll(now, b.close, "eod_exit")
      ELSE StopExit(now, b, stop, "stop_loss")
Exits(st, b) ==
  LET k == UpdateLevels(st.book, b)
      stop == EffectiveStop(k, b)
      reason == IF stop = k.activeTsl THEN "trail_stop" ELSE "stop_loss"
      now == [st EXCEPT !.book = k]
  IN  IF IsEod(clock') THEN CloseAll(now, b.close, "eod_exit")
      ELSE StopExit(PartialExit(now, b), b, stop, reason)

\* The number of shares whose loss at the initial stop is the risked share of
\* the equity.
PositionSize(k, slDist) == (k.equity * RiskPct) \div (10000 * slDist)

Entry(k, b) ==
  LET qty == PositionSize(k, b.slDist)
  IN  IF \/ KillSwitch(k) \/ ~InWindow(clock') \/ ~b.regimeAllowed
         \/ b.side = 0 \/ b.slDist <= MinTick
      THEN k
      ELSE IF qty <= 0 THEN k
      ELSE [k EXCEPT !.position = b.side * qty,
                     !.entPrice = b.close,
                     !.initialSl = b.close - b.side * b.slDist,
                     !.sig = Favourable(b.side, b),
                     !.tradesToday = @ + 1]

DrasBar(b) ==
  LET k == [DailyReset(book) EXCEPT !.close = b.close]
      st == [book |-> k, trades |-> trades]
      after == IF k.position # 0 THEN Exits(st, b)
               ELSE [st EXCEPT !.book = Entry(k, b)]
  IN  /\ ~book.done
      /\ NextBar
      /\ book' = after.book
      /\ trades' = after.trades

\* The data ends: an open position is closed at the last close.
EndOfData ==
  LET st == [book |-> book, trades |-> trades]
      after == IF book.position # 0
               THEN CloseAll(st, book.close, "end_of_data") ELSE st
  IN  /\ ~book.done
      /\ UNCHANGED clockVars
      /\ book' = [after.book EXCEPT !.done = TRUE]
      /\ trades' = after.trades

DrasInit == book = FreshBook /\ trades = <<>>

DrasNext == (\E b \in DrasBars : DrasBar(b)) \/ EndOfData

-----------------------------------------------------------------------------
(* The trend-following backtest                                            *)

NoTrade == [position |-> 0, entryPrice |-> 0, entryTime |-> <<0, 0>>]

InSession(t) == SessionStart <= t /\ t <= SessionEnd

\* "stop_loss", "take_profit" or "none"; a bar that touches both is a stop.
ExitReason(k, b) ==
  LET s == k.position
      adverse == IF s = 1 THEN b.low ELSE b.high
      favourable == IF s = 1 THEN b.high ELSE b.low
  IN  IF s * 100 * adverse <= s * k.entryPrice * (100 - s * SlPercent)
      THEN "stop_loss"
      ELSE IF s * 100 * favourable >= s * k.entryPrice * (100 + s * TpPercent)
      THEN "take_profit"
      ELSE "none"

\* long_signal and short_signal of prepare_strategy_dataframe.
TrendSignal(b, t) == IF InSession(t) THEN b.trend ELSE 0

TrendBar(b) ==
  LET protected == trade.position # 0 /\ ExitReason(trade, b) # "none"
      open == trade.position # 0 /\ ~protected
      sessionEndReached == open /\ clock' >= SessionEnd
      entry == TrendSignal(b, clock')
  IN  /\ NextBar
      /\ trade' = IF open /\ ~sessionEndReached THEN trade
                  ELSE IF sessionEndReached \/ entry = 0 THEN NoTrade
                  ELSE [position |-> entry, entryPrice |-> b.close,
                        entryTime |-> <<day', clock'>>]

TrendInit == trade = NoTrade

TrendNext == \E b \in TrendBars : TrendBar(b)

-----------------------------------------------------------------------------
(* Properties                                                              *)

PnlOf(legs) == MapThenSumSet(LAMBDA i : trades[i].pnl, legs)

\* No position is held through a bar at or after 15:15 (line 578, "EOD force
\* close"), whatever the partial exit, the stop and the entry logic did on it.
DrasIsSquaredOff == (clock # 0 /\ IsEod(clock)) => book.position = 0

\* The daily limits, judged on the closed legs and not on the counters that
\* every exit path keeps for itself: an entry never follows MaxConLosses
\* losing legs in a row on that day, MaxDailyTrades trades of that day, or a
\* realised loss of DailyDdLimit percent of the equity the day began with.
EntriesRespectDailyLimits ==
  [][ book.position = 0 /\ book'.position # 0 =>
      LET n == Len(trades)
          today == {i \in 1 .. n : trades[i].day = day'}
          atOpen == InitialCapital + PnlOf((1 .. n) \ today)
      IN  /\ \E i \in (n - MaxConLosses + 1) .. n :
               ~(i \in today /\ trades[i].pnl <= 0)
          /\ Cardinality({i \in today : trades[i].reason # "tp1_partial"})
               < MaxDailyTrades
          /\ -PnlOf(today) * 100 < DailyDdLimit * atOpen
    ]_drasVars

\* "Must be flat before midnight" (the comment at the forced close) holds of
\* every position that was open before the bar that ends the session.  The one
\* position that stays overnight was entered on that very bar, whose session
\* test includes its end: a day whose last bar is at SessionEnd carries it.
OnlyTheLastEntryIsCarried ==
  (clock >= SessionEnd /\ trade.position # 0) =>
    (clock = SessionEnd /\ trade.entryTime = <<day, SessionEnd>>)

-----------------------------------------------------------------------------
(* The studies over one data set: one goes through the bars, the others    *)
(* stay where they began.                                                  *)

intradayVars == <<clockVars, drasVars, trade, signalVars>>

IntradayInit == ClockInit /\ DrasInit /\ TrendInit /\ SignalInit

DrasStep == DrasNext /\ UNCHANGED <<trade, signalVars>>
TrendStep == TrendNext /\ UNCHANGED <<drasVars, signalVars>>
SignalStep == SignalNext /\ UNCHANGED <<drasVars, trade>>

DrasStudy == IntradayInit /\ [][DrasStep]_intradayVars
TrendStudy == IntradayInit /\ [][TrendStep]_intradayVars
SignalStudy == IntradayInit /\ [][SignalStep]_intradayVars

\* The day has two bars from 15:20 on, so that an exit signal of the codex
\* strategies still has a bar to fill on.
ExitFills == \E first, second \in BarTimes : ExitTime <= first /\ first < second

\* An intraday study ends every day flat: the DRAS backtest always, the trend
\* backtest but for an entry on the bar that ends its session, and the
\* strategies that square off by the clock in any engine.
FlatOvernight == DrasIsSquaredOff /\ OnlyTheLastEntryIsCarried /\ SignalsSquareOff
=============================================================================
