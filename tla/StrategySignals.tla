-------------------------- MODULE StrategySignals --------------------------
(***************************************************************************)
(* The strategy library: what each strategy answers to a bar.  A bar is    *)
(* reduced to the numbers the strategy compares (small integers, a level   *)
(* per indicator) and to "ready": every check before them passed (enough   *)
(* bars, no missing indicator).  A strategy is a list of rules, of which   *)
(* the first that holds decides, as in its if / elif chain.                *)
(***************************************************************************)
EXTENDS MarketDay, Sequences, TLC

CONSTANTS SignalNames,    \* the names to check, among the entries of Answer
          Levels,        \* the values an indicator or a price may have
          Direction,     \* "long", "short" or "both"
          HOLD, BUY, SELL, EXIT

ASSUME StrategyAssumption ==
  /\ Levels \subseteq Int
  /\ HOLD \notin {BUY, SELL, EXIT} /\ BUY \notin {SELL, EXIT} /\ SELL # EXIT

VARIABLES strategy,      \* the strategy under test
          ready,         \* its warm-up of the day is over
          trailingStop,  \* _trailing_stop of the compression burst
          held, order    \* of the engine that runs it: a position is open, an
                         \* order waits for the next bar ("BUY", "EXIT", "none")

signalVars == <<strategy, ready, trailingStop, held, order>>

When(guard, signal) == [holds |-> guard, signal |-> signal]

\* The signal of the first rule that holds, HOLD when none does.
FirstOf(rules) ==
  LET hits == {i \in DOMAIN rules : rules[i].holds}
  IN  IF hits = {} THEN HOLD ELSE rules[Earliest(hits)].signal

Ready(f, rules) == IF f.ready THEN FirstOf(rules) ELSE HOLD

Long == Direction \in {"long", "both"}
Short == Direction \in {"short", "both"}
Within(t, first, last) == first <= t /\ t <= last

\* The bars a strategy tells apart: its numbers and its conditions.
Facts(numbers, conditions) ==
  {n @@ c : n \in [numbers -> Levels], c \in [conditions \cup {"ready"} -> BOOLEAN]}

-----------------------------------------------------------------------------
(* Position and momentum strategies                                        *)

SMACrossover(f, t) == Ready(f, <<
  When(f.fastPrev <= f.slowPrev /\ f.fast > f.slow, BUY),
  When(f.fastPrev >= f.slowPrev /\ f.fast < f.slow, EXIT)>>)

RSIReversion(f, t) == Ready(f, <<
  When(f.rsi < f.oversold, BUY), When(f.rsi > f.overbought, EXIT)>>)

Breakout(f, t) == Ready(f, <<
  When(f.close > f.upper, BUY), When(f.close < f.lower, EXIT)>>)

PriceChannelBreakout(f, t) == Ready(f, <<
  When(f.triggerUp > f.upper /\ Long, BUY),
  When(f.triggerDown < f.lower /\ Short, SELL),
  When(f.close < f.lower /\ Long, EXIT)>>)

BollingerReversion(f, t) == Ready(f, <<
  When(f.close < f.lower, BUY), When(f.close > f.upper, SELL),
  When(f.close >= f.middle, EXIT)>>)

MovingAveragePullback(f, t) == Ready(f, <<
  When(f.close > f.trendMa /\ f.close <= f.pullbackTop /\ f.close > f.closePrev,
       BUY),
  When(f.close < f.trendMa, EXIT)>>)

LongTermTrend(f, t) == Ready(f, <<
  When(f.close > f.longMa /\ f.fastMa >= f.longMa, BUY),
  When(f.close < f.longMa, EXIT)>>)

TimeSeriesMomentum(f, t) == Ready(f, <<
  When(f.risen /\ f.close > f.trendMa, BUY),
  When(f.fallen /\ f.close < f.trendMa, SELL),
  When(f.close < f.trendMa, EXIT)>>)

PairsZScore(f, t) == Ready(f, <<
  When(f.z >= f.entryZ, SELL), When(f.z <= -f.entryZ, BUY),
  When(-f.exitZ <= f.z /\ f.z <= f.exitZ, EXIT)>>)

RelativeStrengthRotation(f, t) == Ready(f, <<
  When(f.rs > f.rsMa /\ f.rs > f.rsPrev, BUY),
  When(f.rs < f.rsMa /\ f.rs < f.rsPrev, EXIT)>>)

-----------------------------------------------------------------------------
(* Intraday strategies without an exit of their own                        *)

BreakoutOfRange(f) == Ready(f, <<
  When(f.close > f.upper /\ Long, BUY), When(f.close < f.lower /\ Short, SELL)>>)

DayHighLowBreakout(f, t) == BreakoutOfRange(f)

OpeningRangeBreakout(f, t) ==
  IF f.insideOpeningWindow THEN HOLD ELSE BreakoutOfRange(f)

RelativeVolumeBreakout(f, t) ==
  IF f.volumeExpanded THEN BreakoutOfRange(f) ELSE HOLD

VWAPMeanReversion(f, t) == Ready(f, <<
  When(f.close > f.upper, SELL), When(f.close < f.lower, BUY)>>)

PivotPointReversal(f, t) == Ready(f, <<
  When(f.closePrev < f.lower /\ f.close > f.lower, BUY),
  When(f.closePrev > f.upper /\ f.close < f.upper, SELL)>>)

VWAPPullbackTrend(f, t) == Ready(f, <<
  When(/\ Long /\ f.close > f.vwap /\ f.closePrev <= f.vwapPrev
       /\ f.close > f.closePrev, BUY),
  When(/\ Short /\ f.close < f.vwap /\ f.closePrev >= f.vwapPrev
       /\ f.close < f.closePrev, SELL)>>)

GapMomentum(f, t) == Ready(f, <<
  When(f.outsideEntryWindow, HOLD),
  When(f.gap >= f.minGap /\ f.close > f.dayOpen, BUY),
  When(f.gap <= -f.minGap /\ f.close < f.dayOpen, SELL)>>)

GapFade(f, t) == Ready(f, <<
  When(f.gap >= f.minGap /\ f.close < f.dayOpen, SELL),
  When(f.gap <= -f.minGap /\ f.close > f.dayOpen, BUY)>>)

IntradayTrendFollowing(f, t) ==
  LET session == Within(t, 570, 900)
      long == session /\ f.close > f.vwap /\ f.up /\ f.close > f.ema
      short == session /\ f.close < f.vwap /\ f.down /\ f.close < f.ema
  IN  IF ~session THEN HOLD
      ELSE Ready(f, <<When(long /\ ~short, BUY), When(short /\ ~long, SELL)>>)

-----------------------------------------------------------------------------
(* Regime strategies                                                       *)

BullishIntradayRegime(f, t) ==
  LET aligned == f.close > f.vwap /\ f.close > f.emaFast /\ f.emaFast > f.emaSlow
  IN  IF ~Within(t, 560, 900) THEN HOLD
      ELSE Ready(f, <<
        When(aligned /\ ~f.rsiLow /\ f.confirmed, BUY),
        When(f.close < f.emaSlow /\ f.rsiLow, EXIT)>>)

BearishIntradayRegime(f, t) ==
  LET bearish == f.emaFast < f.emaSlow
  IN  IF ~Within(t, 560, 870) THEN HOLD
      ELSE Ready(f, <<
        When(bearish /\ f.oversold /\ f.close < f.vwap /\ f.confirmed, BUY),
        When(f.close >= f.vwap /\ bearish, EXIT)>>)

\* The strategy class keeps a position of its own for the square-off, but
\* nothing in it ever assigns that position: it stays at its initial 0, as do
\* the counters of its kill switch.
DrasOwnPosition == 0
DynamicRegimeAdaptiveSystem(f, t) ==
  LET eod == t >= 915
      window == Within(t, 570, 690) \/ Within(t, 780, 885)
  IN  Ready(f, <<
        When(eod /\ DrasOwnPosition # 0, EXIT),
        When(window /\ f.regimeAllowed /\ f.close > f.ema /\ f.ema > f.vwap
               /\ f.confirmed, BUY),
        When(window /\ f.regimeAllowed /\ f.close < f.ema /\ f.ema < f.vwap
               /\ f.confirmed, SELL)>>)

-----------------------------------------------------------------------------
(* The codex strategies: from 15:20 an exit, whatever the indicators say,  *)
(* before that an entry in its window, or an exit when the setup is gone.  *)

ExitTime == 920

CodexRegimeBreakout(f, t) == Ready(f, <<
  When(t >= ExitTime, EXIT),
  When(/\ Within(t, 600, 890) /\ f.confirmed /\ f.close > f.vwap
       /\ f.close > f.emaFast /\ f.close > f.rangeHigh, BUY),
  When(f.close < f.emaFast /\ f.close < f.vwap, EXIT)>>)

CodexTrendReentry(f, t) == Ready(f, <<
  When(t >= ExitTime, EXIT),
  When(/\ Within(t, 575, 880) /\ f.confirmed /\ f.close > f.vwap
       /\ f.close > f.emaFast /\ f.emaFast > f.emaSlow, BUY),
  When(f.close < f.emaSlow \/ (f.close < f.vwap /\ f.farBelow) \/ f.rsiWeak,
       EXIT)>>)

CodexRangeReversion(f, t) == Ready(f, <<
  When(t >= ExitTime, EXIT),
  When(/\ Within(t, 615, 885) /\ f.confirmed /\ f.close < f.vwap
       /\ ~f.farBelow /\ ~f.recovered, BUY),
  When(f.close >= f.vwap \/ f.recovered \/ f.farBelow, EXIT)>>)

-----------------------------------------------------------------------------
(* The compression burst keeps a trailing stop between bars.  An entry     *)
(* signal sets it, whether or not the engine acts on the signal and even   *)
(* when a higher stop is in force.                                         *)

\* Broken variant: an entry only raises a stop that exists.
Burst_OnlyRaises(f, t, stop) ==
  LET session == Within(t, 585, 870)
      entry == session /\ f.confirmed
      raised == IF stop > 0 /\ f.stopLevel > stop THEN f.stopLevel ELSE stop
      stopHit == stop > 0 /\ f.close < raised
      baseExit == f.close < f.ema \/ ~session
  IN  IF ~f.ready THEN [signal |-> HOLD, stop |-> stop]
      ELSE IF entry THEN [signal |-> BUY, stop |-> raised]
      ELSE IF stopHit \/ baseExit THEN [signal |-> EXIT, stop |-> 0]
      ELSE [signal |-> HOLD, stop |-> raised]
Burst(f, t, stop) ==
  LET session == Within(t, 585, 870)
      entry == session /\ f.confirmed
      raised == IF stop > 0 /\ f.stopLevel > stop THEN f.stopLevel ELSE stop
      stopHit == stop > 0 /\ f.close < raised
      baseExit == f.close < f.ema \/ ~session
  IN  IF ~f.ready THEN [signal |-> HOLD, stop |-> stop]
      ELSE IF entry THEN [signal |-> BUY, stop |-> f.stopLevel]
      ELSE IF stopHit \/ baseExit THEN [signal |-> EXIT, stop |-> 0]
      ELSE [signal |-> HOLD, stop |-> raised]

-----------------------------------------------------------------------------
(* The library: the bars of each strategy, and its answer to one of them   *)

\* precompute_acb: the trailing level lies below the close.
BurstFacts ==
  {f \in Facts({"close", "ema", "stopLevel"}, {"confirmed"}) :
     0 < f.stopLevel /\ f.stopLevel <= f.close}

Bars ==
  LET range == {"close", "upper", "lower"}
      average == {"close", "vwap", "ema"}
      cross == {"close", "vwap", "emaFast", "emaSlow"}
  IN  [SMACrossover |-> Facts({"fastPrev", "slowPrev", "fast", "slow"}, {}),
       RSIReversion |-> Facts({"rsi", "oversold", "overbought"}, {}),
       Breakout |-> Facts(range, {}),
       PriceChannelBreakout |-> Facts(range \cup {"triggerUp", "triggerDown"}, {}),
       BollingerReversion |-> Facts(range \cup {"middle"}, {}),
       MovingAveragePullback |->
         Facts({"close", "closePrev", "trendMa", "pullbackTop"}, {}),
       LongTermTrend |-> Facts({"close", "longMa", "fastMa"}, {}),
       TimeSeriesMomentum |-> Facts({"close", "trendMa"}, {"risen", "fallen"}),
       PairsZScore |-> {f \in Facts({"z", "entryZ", "exitZ"}, {}) :
                          f.entryZ > 0 /\ f.exitZ >= 0},
       RelativeStrengthRotation |-> Facts({"rs", "rsMa", "rsPrev"}, {}),
       DayHighLowBreakout |-> Facts(range, {}),
       OpeningRangeBreakout |-> Facts(range, {"insideOpeningWindow"}),
       RelativeVolumeBreakout |-> Facts(range, {"volumeExpanded"}),
       VWAPMeanReversion |-> Facts(range, {}),
       PivotPointReversal |-> Facts(range \cup {"closePrev"}, {}),
       VWAPPullbackTrend |-> Facts({"close", "closePrev", "vwap", "vwapPrev"}, {}),
       GapMomentum |-> {f \in Facts({"gap", "minGap", "close", "dayOpen"},
                                    {"outsideEntryWindow"}) : f.minGap > 0},
       GapFade |-> {f \in Facts({"gap", "minGap", "close", "dayOpen"}, {}) :
                      f.minGap > 0},
       IntradayTrendFollowing |-> Facts(average, {"up", "down"}),
       BullishIntradayRegime |-> Facts(cross, {"rsiLow", "confirmed"}),
       BearishIntradayRegime |-> Facts(cross, {"oversold", "confirmed"}),
       DynamicRegimeAdaptiveSystem |->
         Facts(average, {"regimeAllowed", "confirmed"}),
       CodexRegimeBreakout |->
         Facts({"close", "vwap", "emaFast", "rangeHigh"}, {"confirmed"}),
       CodexTrendReentry |-> Facts(cross, {"confirmed", "farBelow", "rsiWeak"}),
       CodexRangeReversion |->
         Facts({"close", "vwap"}, {"confirmed", "farBelow", "recovered"}),
       Burst |-> BurstFacts]

Answer(f, t) ==
  CASE strategy = "SMACrossover" -> SMACrossover(f, t)
    [] strategy = "RSIReversion" -> RSIReversion(f, t)
    [] strategy = "Breakout" -> Breakout(f, t)
    [] strategy = "PriceChannelBreakout" -> PriceChannelBreakout(f, t)
    [] strategy = "BollingerReversion" -> BollingerReversion(f, t)
    [] strategy = "MovingAveragePullback" -> MovingAveragePullback(f, t)
    [] strategy = "LongTermTrend" -> LongTermTrend(f, t)
    [] strategy = "TimeSeriesMomentum" -> TimeSeriesMomentum(f, t)
    [] strategy = "PairsZScore" -> PairsZScore(f, t)
    [] strategy = "RelativeStrengthRotation" -> RelativeStrengthRotation(f, t)
    [] strategy = "DayHighLowBreakout" -> DayHighLowBreakout(f, t)
    [] strategy = "OpeningRangeBreakout" -> OpeningRangeBreakout(f, t)
    [] strategy = "RelativeVolumeBreakout" -> RelativeVolumeBreakout(f, t)
    [] strategy = "VWAPMeanReversion" -> VWAPMeanReversion(f, t)
    [] strategy = "PivotPointReversal" -> PivotPointReversal(f, t)
    [] strategy = "VWAPPullbackTrend" -> VWAPPullbackTrend(f, t)
    [] strategy = "GapMomentum" -> GapMomentum(f, t)
    [] strategy = "GapFade" -> GapFade(f, t)
    [] strategy = "IntradayTrendFollowing" -> IntradayTrendFollowing(f, t)
    [] strategy = "BullishIntradayRegime" -> BullishIntradayRegime(f, t)
    [] strategy = "BearishIntradayRegime" -> BearishIntradayRegime(f, t)
    [] strategy = "DynamicRegimeAdaptiveSystem" ->
         DynamicRegimeAdaptiveSystem(f, t)
    [] strategy = "CodexRegimeBreakout" -> CodexRegimeBreakout(f, t)
    [] strategy = "CodexTrendReentry" -> CodexTrendReentry(f, t)
    [] strategy = "CodexRangeReversion" -> CodexRangeReversion(f, t)
    [] strategy = "Burst" -> Burst(f, t, trailingStop).signal

-----------------------------------------------------------------------------
(* One bar of an engine that runs the strategy: the order of the last bar  *)
(* fills at the open (a BUY may be refused), the engine may close the      *)
(* position itself (stop-loss, take-profit, square-off) and tells the      *)
(* strategy nothing, then the strategy sees the bar and its signal becomes *)
(* an order, unless an entry is not allowed at this time.                  *)

FillOrder ==
  IF order = "BUY" \/ (held /\ order # "EXIT") THEN BOOLEAN ELSE {FALSE}

OrdersFor(signal, holding) ==
  IF signal = BUY /\ ~holding THEN {"BUY", "none"}
  ELSE IF signal \in {SELL, EXIT} /\ holding THEN {"EXIT"}
  ELSE {"none"}

SignalBar(f) ==
  /\ NextBar
  /\ ready /\ ~NewDay => f.ready
  /\ ready' = f.ready
  /\ held' \in FillOrder
  /\ order' \in OrdersFor(Answer(f, clock'), held')
  /\ trailingStop' = IF strategy = "Burst"
                     THEN Burst(f, clock', trailingStop).stop ELSE trailingStop
  /\ UNCHANGED strategy

SignalInit ==
  /\ strategy \in SignalNames
  /\ ready = FALSE /\ held = FALSE /\ order = "none"
  /\ trailingStop = 0

SignalNext == \E f \in Bars[strategy] : SignalBar(f)

-----------------------------------------------------------------------------
(* Properties                                                              *)

\* The strategies whose rules end with an exit that the clock alone triggers.
SquaresOff == {"CodexRegimeBreakout", "CodexTrendReentry",
               "CodexRangeReversion", "Burst"}

\* A position those strategies opened is gone at the end of the day without
\* any help of the engine, provided the day has two bars from 15:20 on: one
\* for the exit signal and one on whose open it fills.
SignalsSquareOff ==
  (strategy \in SquaresOff /\ \A t \in BarTimes : t <= clock) =>
    (~held /\ order # "BUY")

\* While the engine holds a position of the compression burst, the strategy
\* has a stop for it or its exit is already under way - although the strategy
\* sets the stop on its own signal and is never told of a fill, a refusal or
\* an exit of the engine.
HeldHasStop ==
  (strategy = "Burst" /\ held) => (trailingStop > 0 \/ order = "EXIT")
=============================================================================
