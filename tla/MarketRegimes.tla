---------------------------- MODULE MarketRegimes ----------------------------
(***************************************************************************)
(* What the data says of the market: the market state engine with its      *)
(* breadth, sector, volume, volatility and flow analyzers, the regime      *)
(* detector with the composite and the professional regime built on it,    *)
(* and the relative strength of the symbols.  A frame is a sequence of     *)
(* bars [close, high, low, volume]; all frames end on the same day.        *)
(* Returns, ratios and widths are in basis points, standard deviations are *)
(* compared by their squares.                                              *)
(***************************************************************************)
EXTENDS Integers, FiniteSets, SequencesExt

CONSTANTS
  MarketFrames,    \* what a symbol's data may look like
  MarketSymbols,   \* the universe 1 .. MarketSymbols; the benchmark is symbol 0
  Sectors,         \* a sequence of sets of symbols
  FastMa, SlowMa, VolPeriod,                     \* the regime detector
  HighStd, LowStd, RangeWidth,
  AtrPeriod, AtrBaseline, RvWindow,              \* the volatility analyzer
  HighVol, LowVol, ExpansionRatio, ContractionRatio,
  BreadthMa, HighLowBars, AdBars,                \* breadth
  Windows, WindowWeights,                        \* sector returns
  VolumeBars, PressureBars,                      \* volume
  ProBars, ProBaseline, ProLookback,             \* the professional classifier
  RsLookback, RsTop,                             \* relative strength
  MarketSettings,  \* [continueOnError, requireBars, flow, flowOptional, fallback]
  NoFrame

ASSUME RegimeAssumption ==
  /\ MarketSymbols \in Nat /\ 0 < FastMa /\ FastMa < SlowMa
  /\ 0 < LowVol /\ LowVol < HighVol /\ 0 < LowStd /\ LowStd < HighStd
  /\ 1 < VolPeriod /\ VolPeriod <= RvWindow /\ 1 < AtrPeriod /\ AtrPeriod < AtrBaseline

VARIABLE mi        \* the analysis under way

-----------------------------------------------------------------------------
(* Series                                                                  *)

Larger(a, b) == IF a > b THEN a ELSE b
Smaller(a, b) == IF a < b THEN a ELSE b
Magnitude(x) == IF x < 0 THEN -x ELSE x
Sign(x) == IF x > 0 THEN 1 ELSE IF x < 0 THEN -1 ELSE 0
Plus(seq) == FoldSeq(+, 0, seq)
LastOf(seq, n) == SubSeq(seq, Larger(1, Len(seq) - n + 1), Len(seq))
\* A part of base in basis points, rounded towards zero.
Points(x, base) == Sign(x) * ((10000 * Magnitude(x)) \div base)
Root(n) == FoldLeft(LAMBDA x, b : IF (x + b) * (x + b) <= n THEN x + b ELSE x, 0,
                    [i \in 1 .. 15 |-> 2^(15 - i)])

Closes(frame) == [i \in DOMAIN frame |-> frame[i].close]
Returns(seq) == [i \in 1 .. Len(seq) - 1 |-> Points(seq[i + 1] - seq[i], seq[i])]
Variance(seq) ==
  LET n == Len(seq)
  IN  IF n < 2 THEN 0
      ELSE (n * Plus([i \in DOMAIN seq |-> seq[i] * seq[i]]) - Plus(seq) * Plus(seq))
             \div (n * (n - 1))

\* The simple moving average at the last bar, times its period.
MaSum(close, period) == Plus(LastOf(close, period))
Stacked(close, sign) ==
  LET last == close[Len(close)]
      fast == MaSum(close, FastMa)
  IN  /\ sign * FastMa * last > sign * fast
      /\ sign * fast * SlowMa > sign * MaSum(close, SlowMa) * FastMa

Width(frame, n) ==
  LET bars == ToSet(LastOf(frame, n))
      high == CHOOSE h \in {b.high : b \in bars} : \A b \in bars : b.high <= h
      low == CHOOSE l \in {b.low : b \in bars} : \A b \in bars : l <= b.low
  IN  Points(high - low, frame[Len(frame)].close)

TrueRange(frame) ==
  [i \in DOMAIN frame |->
     LET b == frame[i]
         before == IF i = 1 THEN b.low ELSE frame[i - 1].close
     IN  Larger(b.high - b.low, Larger(Magnitude(b.high - before), Magnitude(b.low - before)))]

\* The average range of the last bars over what it was on average.
AtrRatio(frame) ==
  LET tr == TrueRange(frame)
      atr == [i \in 1 .. Len(frame) - AtrPeriod + 1 |-> Plus(SubSeq(tr, i, i + AtrPeriod - 1))]
      base == LastOf(atr, AtrBaseline)
  IN  IF Plus(base) = 0 THEN 0 ELSE (10000 * atr[Len(atr)] * Len(base)) \div Plus(base)

-----------------------------------------------------------------------------
(* Trend and volatility                                                    *)

DetectorBars == Larger(SlowMa, VolPeriod) + 1

\* The trend of the regime detector: by volatility first, then by the averages.
Trend(frame) ==
  LET close == Closes(frame)
      variance == Variance(LastOf(Returns(close), VolPeriod))
  IN  IF Len(frame) < DetectorBars THEN "UNKNOWN"
      ELSE IF variance >= HighStd * HighStd THEN "HIGH_VOLATILITY"
      ELSE IF Stacked(close, 1) THEN "BULLISH"
      ELSE IF Stacked(close, -1) THEN "BEARISH"
      ELSE IF variance <= LowStd * LowStd THEN "LOW_VOLATILITY"
      ELSE IF Width(frame, Larger(VolPeriod, 5)) <= RangeWidth THEN "RANGEBOUND"
      ELSE "UNKNOWN"

VolatilityBars == Larger(AtrBaseline, RvWindow) + 2

\* The realized volatility is annualized, the thresholds it is compared with
\* are not.
Volatility(frame) ==
  LET annual == 252 * Variance(LastOf(Returns(Closes(frame)), RvWindow))
      ratio == AtrRatio(frame)
      calm == annual <= LowVol * LowVol
  IN  CASE ratio <= ContractionRatio /\ calm -> "CONTRACTION"
        [] annual >= HighVol * HighVol -> "HIGH"
        [] calm /\ ratio > ContractionRatio -> "LOW"
        [] OTHER -> IF ratio >= ExpansionRatio THEN "EXPANDING"
                    ELSE IF ratio <= ContractionRatio THEN "CONTRACTION"
                    ELSE "UNKNOWN"

\* The simplified trend of the regime engine.
TrendState(trend) ==
  IF trend \in {"BULLISH", "BEARISH", "RANGEBOUND"} THEN trend
  ELSE IF trend = "LOW_VOLATILITY" THEN "RANGEBOUND" ELSE "UNKNOWN"

\* Without stress, the trend decides.
Trending(trend, vol) ==
  CASE trend = "BULLISH" -> "bullish_trending"
    [] trend = "BEARISH" -> IF vol = "EXPANDING" THEN "bearish_volatile" ELSE "bearish_trending"
    [] trend = "RANGEBOUND" -> "rangebound"
    [] trend = "LOW_VOLATILITY" -> IF vol = "EXPANDING" THEN "bullish_sideways" ELSE "rangebound"
    [] trend = "UNKNOWN" -> "unknown"

\* Broken variant: only the detector's own volatility overrides the trend.
Composite_TrendFirst(trend, vol) ==
  IF trend = "HIGH_VOLATILITY" THEN "risk_off" ELSE Trending(trend, vol)
Composite(trend, vol) ==
  IF trend = "HIGH_VOLATILITY" \/ vol = "HIGH" THEN "risk_off" ELSE Trending(trend, vol)

UnknownSnapshot ==
  [trend |-> "UNKNOWN", state |-> "UNKNOWN", vol |-> "UNKNOWN", composite |-> "unknown"]

EngineBars == Larger(SlowMa + VolPeriod + 1, AtrBaseline + RvWindow + 2)

\* The bars asked for are more than either detector needs, so neither fails.
DetectRegime(frame) ==
  IF Len(frame) < EngineBars THEN UnknownSnapshot
  ELSE [trend |-> Trend(frame), state |-> TrendState(Trend(frame)), vol |-> Volatility(frame),
        composite |-> Composite(Trend(frame), Volatility(frame))]

-----------------------------------------------------------------------------
(* The professional classifier                                             *)

LegacyRegime(composite) ==
  CASE composite = "bullish_trending" -> "bull_trend"
    [] composite = "bearish_trending" -> "bear_trend"
    [] composite = "bearish_volatile" -> "bear_volatile"
    [] composite \in {"bullish_sideways", "rangebound"} -> "sideways_range"
    [] composite = "risk_off" -> "expansion"
    [] composite = "unknown" -> "unknown"

\* The exponential average after each bar.
Ema(close, span) ==
  FoldLeft(LAMBDA ema, c : Append(ema, LET e == Last(ema)
                                           step == (2 * Magnitude(c - e)) \div (span + 1)
                                       IN  e + Sign(c - e) * step),
           <<close[1]>>, Tail(close))

\* What the classifier measures.  A slow average of too few bars makes the
\* earlier trend 0.
Measured(frame) ==
  LET close == Closes(frame)
      n == Len(close)
      fast == Ema(close, FastMa)
      slow == Ema(close, SlowMa)
      prior == Larger(1, n - ProLookback)
      path == LastOf(close, ProLookback)
      moved == Plus([i \in 1 .. Len(path) - 1 |-> Magnitude(path[i + 1] - path[i])])
      side == [i \in DOMAIN close |-> Sign(close[i] - (IF i < FastMa THEN close[i] ELSE fast[i]))]
      sides == LastOf(side, ProLookback)
  IN  [trend |-> Points(fast[n] - slow[n], slow[n]),
       prior |-> IF prior < SlowMa THEN 0 ELSE Points(fast[prior] - slow[prior], slow[prior]),
       stack |-> IF close[n] > fast[n] /\ fast[n] > slow[n] THEN 1
                 ELSE IF close[n] < fast[n] /\ fast[n] < slow[n] THEN -1 ELSE 0,
       recent |-> Variance(LastOf(Returns(close), RvWindow)),
       usual |-> Variance(LastOf(Returns(close), Larger(ProBaseline, RvWindow))),
       ratio |-> AtrRatio(frame),
       width |-> Width(frame, ProLookback),
       efficiency |-> IF moved = 0 THEN 0
                      ELSE Points(Magnitude(path[Len(path)] - path[1]), moved),
       crossings |-> Cardinality({i \in 2 .. Len(sides) : sides[i] * sides[i - 1] < 0})]

\* 18 points of trend, ranges by 18 % up and 14 % down, volatility by 15 % up and
\* 25 % down (squared), widths of 2.5 % and 1.8 %.
ProfessionalRule(f, composite) ==
  LET bull == f.trend >= 18 /\ f.stack = 1
      bear == f.trend <= -18 /\ f.stack = -1
      expansion == f.ratio >= 11800 /\ 100 * f.recent >= 132 * f.usual
      compression == f.ratio <= 8600 /\ 100 * f.recent <= 56 * f.usual /\ f.width <= 180
      reversal == /\ Sign(f.trend) # Sign(f.prior) /\ expansion
                  /\ Magnitude(f.trend) >= 18 /\ Magnitude(f.prior) >= 18
      sideways == Magnitude(f.trend) <= 18 /\ f.width <= 250 /\ f.ratio <= 10500
      choppy == f.efficiency <= 2300 /\ f.crossings >= 6 /\ ~bull /\ ~bear
      rules == <<<<reversal, "reversal">>, <<compression, "compression">>,
                 <<bull /\ expansion, "bull_volatile">>, <<bear /\ expansion, "bear_volatile">>,
                 <<bull, "bull_trend">>, <<bear, "bear_trend">>,
                 <<sideways, "sideways_range">>, <<choppy, "choppy_noise">>,
                 <<expansion, "expansion">>>>
      firing == SelectSeq(rules, LAMBDA r : r[1])
  IN  IF firing = <<>> THEN LegacyRegime(composite) ELSE firing[1][2]

Professional(frame, composite) ==
  IF Len(frame) < ProBars THEN LegacyRegime(composite)
  ELSE CHOOSE regime \in {ProfessionalRule(f, composite) : f \in {Measured(frame)}} : TRUE

-----------------------------------------------------------------------------
(* The analyzers of the market state                                       *)

\* Of the symbols with two bars: how many rose, fell, stand above their average
\* and at the high or low of their window.
Breadth(data) ==
  LET valid == {s \in DOMAIN data : Len(data[s]) >= 2}
      close == [s \in valid |-> Closes(data[s])]
      last == [s \in valid |-> close[s][Len(close[s])]]
      moved == [s \in valid |-> last[s] - close[s][Len(close[s]) - 1]]
      window == [s \in valid |-> ToSet(LastOf(close[s], HighLowBars))]
      signs == [s \in valid |-> LET part == LastOf(close[s], AdBars + 1)
                                IN  [i \in 1 .. Len(part) - 1 |-> Sign(part[i + 1] - part[i])]]
  IN  [size |-> Cardinality(valid),
       up |-> Cardinality({s \in valid : moved[s] > 0}),
       down |-> Cardinality({s \in valid : moved[s] < 0}),
       same |-> Cardinality({s \in valid : moved[s] = 0}),
       above |-> Cardinality({s \in valid : /\ Len(close[s]) >= BreadthMa
                                            /\ BreadthMa * last[s] > MaSum(close[s], BreadthMa)}),
       highs |-> Cardinality({s \in valid : \A c \in window[s] : c <= last[s]}),
       lows |-> Cardinality({s \in valid : \A c \in window[s] : last[s] <= c}),
       line |-> FoldSet(LAMBDA s, acc : acc + Plus(signs[s]), 0, valid)]

\* Advances over declines at 1.2 and 0.8, above the average at 60 and 40 %.
\* Without a decline the ratio is endless, or 0 when nothing advanced either.
BreadthState(b) ==
  IF 10 * b.up >= 12 * b.down /\ b.up > 0 /\ 100 * b.above >= 60 * b.size THEN "STRONG"
  ELSE IF (10 * b.up <= 8 * b.down) /\ 100 * b.above <= 40 * b.size THEN "WEAK"
  ELSE "NEUTRAL"

\* The weighted return over the windows the data is long enough for; a window
\* that is missing counts as 0, without any there is no return.
Covered(frame) == {w \in Windows : Len(frame) > w}
WeightedReturn(frame) ==
  LET close == Closes(frame)
      n == Len(close)
  IN  FoldSet(LAMBDA w, acc : acc + WindowWeights[w] * Points(close[n] - close[n - w], close[n - w]),
              0, Covered(frame)) \div 100

\* Sectors by the return of their members over the benchmark's; a sector
\* without a member that has a return is left out.
SectorRows(data, benchmark) ==
  LET members == [k \in DOMAIN Sectors |->
                    {s \in Sectors[k] \cap DOMAIN data : Covered(data[s]) # {}}]
      Score(k) == (FoldSet(LAMBDA s, acc : acc + WeightedReturn(data[s]), 0, members[k])
                    \div Cardinality(members[k]))
                  - (IF Covered(benchmark) = {} THEN 0 ELSE WeightedReturn(benchmark))
      kept == {k \in DOMAIN Sectors : members[k] # {}}
      Ahead(k) == {j \in kept : Score(j) > Score(k) \/ (Score(j) = Score(k) /\ j < k)}
      n == Cardinality(kept)
      edge == Larger(1, (33 * n + 50) \div 100)
  IN  {[sector |-> k, score |-> Score(k), rank |-> Cardinality(Ahead(k)) + 1,
        state |-> IF Cardinality(Ahead(k)) < edge THEN "LEADING"
                  ELSE IF Cardinality(Ahead(k)) >= n - edge THEN "LAGGING" ELSE "WEAKENING"] :
         k \in kept}

\* The volume of rising against that of falling bars; against none, the volume
\* itself is the strength.
Pressure(frame, sign) ==
  LET r == LastOf(<<0>> \o Returns(Closes(frame)), PressureBars)
      bars == LastOf(frame, PressureBars)
      Volume(s) == Plus([i \in DOMAIN r |-> IF Sign(r[i]) = s THEN bars[i].volume ELSE 0])
  IN  IF Volume(-sign) > 0 THEN (10 * Volume(sign)) \div Volume(-sign) ELSE 10 * Volume(sign)

VolumeSignals(frame) ==
  LET bars == LastOf(frame, VolumeBars)
      total == Plus([i \in DOMAIN bars |-> bars[i].volume])
      r == LastOf(Returns(Closes(frame)), PressureBars)
      at == LastOf(frame, PressureBars)
  IN  (IF total > 0 /\ 10 * frame[Len(frame)].volume * Len(bars) >= 18 * total THEN {"SPIKE"} ELSE {})
      \cup (IF Pressure(frame, 1) >= 11 THEN {"ACCUMULATION"} ELSE {})
      \cup (IF Pressure(frame, -1) >= 11 THEN {"DISTRIBUTION"} ELSE {})
      \cup (IF Plus([i \in DOMAIN r |-> r[i] * at[i].volume]) # 0 THEN {"VW_MOMENTUM"} ELSE {})

\* A symbol with too few bars has no row.
VolumeRows(data) ==
  [s \in {s \in DOMAIN data : Len(data[s]) > Larger(VolumeBars, PressureBars)} |->
     VolumeSignals(data[s])]

\* Flow data that is switched off, empty, or missing where this is allowed, is
\* unavailable; otherwise missing data is an error.
FlowFails(settings) == settings.flow = "missing" /\ ~settings.flowOptional

-----------------------------------------------------------------------------
(* The market state                                                        *)

MarketTrend(frame) ==
  CASE Len(frame) < SlowMa -> "UNKNOWN"
    [] Len(frame) >= SlowMa ->
         IF Stacked(Closes(frame), 1) THEN "BULLISH"
         ELSE IF Stacked(Closes(frame), -1) THEN "BEARISH" ELSE "RANGEBOUND"

RiskEnvironment(breadth, vol) ==
  IF vol \in {"HIGH", "EXPANDING"} THEN "RISK_OFF"
  ELSE IF breadth = "STRONG" THEN "RISK_ON" ELSE "NEUTRAL"

StateScore(state) ==
  CASE state \in {"BULLISH", "STRONG"} -> 80
    [] state \in {"BEARISH", "WEAK"} -> 20
    [] state = "LOW" -> 75
    [] state = "CONTRACTION" -> 70
    [] state = "EXPANDING" -> 35
    [] state = "HIGH" -> 25
    [] OTHER -> 50

\* Equal weights of trend, breadth, volatility and the leading sector.
MarketState(data, benchmark) ==
  LET breadth == Breadth(data)
      rows == SectorRows(data, benchmark)
      vol == Volatility(benchmark)
      leader == {r.score \div 100 : r \in {r \in rows : r.rank = 1}}
      sector == FoldSet(LAMBDA x, acc : Larger(0, Smaller(100, acc + x)), 50, leader)
  IN  [breadth |-> breadth, breadthState |-> BreadthState(breadth), sectors |-> rows,
       leaders |-> {r.sector : r \in {r \in rows : r.rank <= 3}},
       vol |-> vol, trend |-> MarketTrend(benchmark), volume |-> VolumeRows(data),
       environment |-> RiskEnvironment(BreadthState(breadth), vol),
       confidence |-> (StateScore(MarketTrend(benchmark)) + StateScore(BreadthState(breadth))
                        + StateScore(vol) + sector) \div 4]

-----------------------------------------------------------------------------
(* Relative strength                                                       *)

\* Momentum, slope of the line through the closes, excess over the benchmark
\* (its missing days filled from its first), return over volatility.
StrengthMetrics(frame, benchmark) ==
  LET close == LastOf(Closes(frame), RsLookback)
      n == Len(close)
      momentum == Points(close[n] - close[1], close[1])
      slope == (6000 * Plus([i \in 1 .. n |-> (2 * i - n - 1) * (close[i] - close[1])]))
                 \div (n * (n * n - 1))
      from == Larger(1, Len(benchmark) - n + 1)
      beat == IF Len(benchmark) = 0 THEN 0
              ELSE momentum - Points(benchmark[Len(benchmark)].close - benchmark[from].close,
                                     benchmark[from].close)
      vol == Root(252 * Variance(Returns(close)))
  IN  <<momentum, (10 * n * slope) \div Plus(close), beat,
        IF vol = 0 THEN 0 ELSE (100 * momentum) \div vol>>

\* The sum of the deviations from the mean, each in hundredths of the standard
\* deviation of its metric over the symbols.
StrengthScores(data, benchmark) ==
  LET kept == {s \in DOMAIN data : Len(data[s]) >= 2}
      metrics == [s \in kept |-> StrengthMetrics(data[s], benchmark)]
      n == Cardinality(kept)
      seq == SetToSeq(kept)
      Z(s, m) ==
        LET values == [i \in 1 .. n |-> metrics[seq[i]][m]]
            std == Root(Variance(values))
        IN  IF std = 0 THEN 0 ELSE (100 * (n * metrics[s][m] - Plus(values))) \div (n * std)
  IN  [s \in kept |-> IF n < 2 THEN 0 ELSE Plus([m \in 1 .. 4 |-> Z(s, m)])]

\* The order of ties is left open by the sort.
TopSymbols(scores) ==
  {SubSeq(order, 1, Smaller(Larger(1, RsTop), Len(order))) :
     order \in {o \in SetToSeqs(DOMAIN scores) :
                  \A i, j \in DOMAIN o : i < j => scores[o[i]] >= scores[o[j]]}}

-----------------------------------------------------------------------------
(* A run of the engines                                                    *)

MiInit ==
  \E settings \in MarketSettings :
    mi = [pc |-> "load", settings |-> settings, data |-> <<>>, next |-> 1,
          market |-> NoFrame, snapshot |-> NoFrame, professional |-> NoFrame,
          monitor |-> NoFrame, top |-> <<>>]

\* Symbols first, the benchmark last.  A failed load is a warning or the end.
LoadSymbol ==
  /\ mi.pc = "load"
  /\ LET s == IF mi.next > MarketSymbols THEN 0 ELSE mi.next
     IN  \/ \E frame \in MarketFrames :
              mi' = [mi EXCEPT !.data = [t \in DOMAIN mi.data \cup {s} |->
                                           IF t = s THEN frame ELSE mi.data[t]],
                               !.next = @ + 1, !.pc = IF s = 0 THEN "analyze" ELSE "load"]
         \/ /\ mi.settings.continueOnError
            /\ mi' = [mi EXCEPT !.next = @ + 1, !.pc = IF s = 0 THEN "analyze" ELSE "load"]
         \/ ~mi.settings.continueOnError /\ mi' = [mi EXCEPT !.pc = "load_error"]

SymbolData == [s \in DOMAIN mi.data \ {0} |-> mi.data[s]]
FirstSymbol == CHOOSE s \in DOMAIN SymbolData : \A t \in DOMAIN SymbolData : s <= t
\* Without its data the first symbol stands for the benchmark.
BenchmarkFrame == mi.data[IF 0 \in DOMAIN mi.data THEN 0 ELSE FirstSymbol]

\* The analyzers in turn; that of the volume leaves symbols out, the others end
\* the run, whatever continue_on_error says.
AnalyzeMarket ==
  /\ mi.pc = "analyze"
  /\ LET failed == \/ DOMAIN SymbolData = {}
                   \/ \A s \in DOMAIN SymbolData : Len(SymbolData[s]) < 2
                   \/ Len(BenchmarkFrame) < VolatilityBars
                   \/ FlowFails(mi.settings)
     IN  mi' = IF failed THEN [mi EXCEPT !.pc = "error"]
               ELSE [mi EXCEPT !.pc = "regime", !.market = MarketState(SymbolData, BenchmarkFrame)]

\* The regime engine on the same frame, then the professional classifier with
\* its snapshot.
ClassifyRegime ==
  /\ mi.pc = "regime"
  /\ LET snapshot == DetectRegime(BenchmarkFrame)
     IN  mi' = IF Len(BenchmarkFrame) < EngineBars /\ mi.settings.requireBars
               THEN [mi EXCEPT !.pc = "error"]
               ELSE [mi EXCEPT !.pc = "monitor", !.snapshot = snapshot,
                               !.professional = Professional(BenchmarkFrame, snapshot.composite)]

\* The monitor's detector takes the benchmark or, when its data fails and this
\* is allowed, the first symbol.
MonitorRegime ==
  /\ mi.pc = "monitor"
  /\ mi' = IF 0 \notin DOMAIN mi.data /\ ~mi.settings.fallback
           THEN [mi EXCEPT !.pc = "error"]
           ELSE [mi EXCEPT !.pc = "strength", !.monitor = Trend(BenchmarkFrame)]

RankStrength ==
  /\ mi.pc = "strength"
  /\ \E top \in TopSymbols(StrengthScores(SymbolData,
                  IF 0 \in DOMAIN mi.data THEN mi.data[0] ELSE <<>>)) :
       mi' = [mi EXCEPT !.pc = "done", !.top = top]

MiNext == LoadSymbol \/ AnalyzeMarket \/ ClassifyRegime \/ MonitorRegime \/ RankStrength

-----------------------------------------------------------------------------
(* What a reader of the results may rely on                                *)

\* The engines agree where they look at the same frame: a market whose volatility
\* one calls high is off limits for both, where the market state takes on risk the
\* composite does not forbid it, the detector sees no trend that the market state
\* does not see, its high volatility is never news to the volatility analyzer, and
\* the regime is unknown for want of bars only.  Where the market state is RISK_OFF
\* although volatility is only expanding, nothing is asked of the composite.
EnginesAgree ==
  mi.snapshot # NoFrame =>
    /\ mi.market.vol = "HIGH" /\ Len(BenchmarkFrame) >= EngineBars =>
         mi.snapshot.composite = "risk_off" /\ mi.market.environment = "RISK_OFF"
    /\ mi.market.environment = "RISK_ON" => mi.snapshot.composite # "risk_off"
    /\ mi.snapshot.trend \in {"BULLISH", "BEARISH"} => mi.market.trend = mi.snapshot.trend
    /\ mi.snapshot.trend = "HIGH_VOLATILITY" => mi.market.vol = "HIGH"
    /\ mi.snapshot.composite = "unknown" => Len(BenchmarkFrame) < EngineBars

\* No symbol is counted twice or lost, and the sectors are ranked without gaps.
CountsAddUp ==
  mi.market # NoFrame =>
    LET b == mi.market.breadth
        rows == mi.market.sectors
    IN  /\ b.up + b.down + b.same = b.size /\ b.size <= MarketSymbols
        /\ b.above <= b.size /\ b.highs <= b.size /\ b.lows <= b.size
        /\ {r.rank : r \in rows} = 1 .. Cardinality(rows)
        /\ \A r, q \in rows : r.rank < q.rank => r.score >= q.score
        /\ Cardinality(rows) > 1 => \E r \in rows : r.state = "LAGGING"
        /\ mi.market.confidence \in 0 .. 100

\* A symbol left out of the top is no stronger than one in it by each metric at
\* once.
TopIsStrongest ==
  mi.pc = "done" =>
    LET bench == IF 0 \in DOMAIN mi.data THEN mi.data[0] ELSE <<>>
        kept == {s \in DOMAIN SymbolData : Len(SymbolData[s]) >= 2}
        Metric(s) == StrengthMetrics(SymbolData[s], bench)
    IN  /\ ToSet(mi.top) \subseteq kept
        /\ \A s \in ToSet(mi.top), t \in kept \ ToSet(mi.top) :
             ~ \A m \in 1 .. 4 : Metric(t)[m] > Metric(s)[m]

RegimesHold == EnginesAgree /\ CountsAddUp /\ TopIsStrongest
=============================================================================
