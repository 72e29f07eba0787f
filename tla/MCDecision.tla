----------------------------- MODULE MCDecision -----------------------------
(***************************************************************************)
(* Model-checking instance of the decision run: two watched symbols and    *)
(* two strategies, or a hand-made scan of up to four labelled setups, and  *)
(* the planner's configurations from the defaults of the command line.     *)
(***************************************************************************)
EXTENDS Decision

MCWatchlist == <<1, 2>>
MCUniverse == <<2, 3>>
MCSpecs == <<[strategy |-> 1, timeframes |-> <<>>, enabled |-> TRUE],
             [strategy |-> 2, timeframes |-> <<"1D">>, enabled |-> TRUE],
             [strategy |-> 3, timeframes |-> <<>>, enabled |-> FALSE]>>

ScanDefaults ==
  [timeframes |-> <<"15m">>, minBars |-> 120, mode |-> "atr", fixedStop |-> 20,
   atrMultiple |-> 15, targetRr |-> 20, minStop |-> 3, maxStop |-> 200, minRr |-> 12,
   weights |-> [signal |-> 35, rr |-> 35, trend |-> 20, liquidity |-> 10,
                freshness |-> 0],
   skipOnError |-> TRUE, continueOnError |-> TRUE]

MCScanConfigs == {ScanDefaults, [ScanDefaults EXCEPT !.skipOnError = FALSE]}

Chart == [error |-> FALSE, bars |-> 200, signal |-> "buy", close |-> 1000, atr |-> 20,
          confidence |-> 100, trend |-> 100, volumeRatio |-> 100, age |-> 0]

\* Nothing to buy; a strong and a weaker setup; one whose stop is too far away.
MCCharts == {[Chart EXCEPT !.bars = 50], Chart,
             [Chart EXCEPT !.close = 900, !.confidence = 60, !.trend = 70],
             [Chart EXCEPT !.atr = 200]}

Given(symbol, strategy, timeframe, score, sector, cluster, atr) ==
  [symbol |-> symbol, strategy |-> strategy, timeframe |-> timeframe, entry |-> 500,
   stop |-> 490, target |-> 520, rr |-> 20, score |-> score, quality |-> 66,
   liquidity |-> 50, freshness |-> 50, sector |-> sector, cluster |-> cluster,
   atr |-> atr]

GivenSetups ==
  {Given(1, 1, "15m", 90, "banks", NoLabel, NoAtr),
   Given(1, 2, "1D", 95, NoLabel, "rates", 5),
   Given(2, 1, "15m", 80, "banks", "rates", 40),
   Given(3, 1, "15m", 70, "banks", NoLabel, NoAtr),
   Given(4, 2, "15m", 75, "autos", "rates", NoAtr),
   Given(5, 1, "1h", 66, "autos", NoLabel, NoAtr),
   Given(5, 2, "1h", 40, "autos", NoLabel, NoAtr)}

MCGivenScans == {s \in SUBSET GivenSetups : Cardinality(s) = 4}

Allowed ==
  [intraday |-> {"bullish", "rangebound", "high_volatility", "low_volatility", "unknown"},
   swing |-> {"bullish", "rangebound", "low_volatility", "unknown"},
   positional |-> {"bullish", "low_volatility", "unknown"}]

ByHorizon(i, s, p) == [intraday |-> i, swing |-> s, positional |-> p]

DecisionDefaults ==
  [minScore |-> ByHorizon(60, 65, 70), minRr |-> ByHorizon(12, 15, 18),
   maxPicks |-> ByHorizon(5, 5, 5), maxPerSector |-> 2, maxCorrelated |-> 2,
   allowed |-> Allowed, mismatchPenalty |-> 20, hardBlock |-> TRUE,
   highVolatilityPenalty |-> 10, bearishPenalty |-> 10, uniqueSymbol |-> TRUE,
   uniqueSetup |-> TRUE]

MCDecisionConfigs ==
  {DecisionDefaults,
   [DecisionDefaults EXCEPT !.maxPicks = ByHorizon(2, 1, 1), !.maxPerSector = 1,
                            !.maxCorrelated = 1, !.hardBlock = FALSE]}

MCRegimes == {NoRegime, "bearish", "high_volatility"}
MCStrengths == {<<>>, <<-3, 12>>}

PlanDefaults ==
  [capital |-> 100000, reserve |-> 10, deployed |-> 90, perPosition |-> 25,
   tradeRisk |-> 2, riskPerTrade |-> 1, sector |-> 40, fixedFraction |-> 20,
   reduceRisk |-> 50, maxPositions |-> 8, maxCorrelated |-> 2,
   allocation |-> "conviction_weighted", sizing |-> "risk_per_trade", pause |-> TRUE,
   maxDaily |-> 4, maxRolling |-> 12, reduceDaily |-> 2, reduceRolling |-> 7]

\* The defaults; a tight one, in which each cap binds; the other two allocation
\* models and sizing methods.
MCPlanConfigs ==
  {PlanDefaults,
   [PlanDefaults EXCEPT !.maxPositions = 2, !.maxCorrelated = 1, !.sizing = "atr_based",
                        !.allocation = "equal_weight", !.pause = FALSE,
                        !.perPosition = 100, !.sector = 100, !.riskPerTrade = 5],
   [PlanDefaults EXCEPT !.sizing = "fixed_fractional", !.fixedFraction = 100,
                        !.allocation = "volatility_weighted", !.perPosition = 60,
                        !.capital = 10000]}

MCDrawdowns == {[daily |-> d, rolling |-> 0] : d \in {0, 2, 4}}

MCPicks ==
  {[symbol |-> g.symbol, strategy |-> g.strategy, horizon |-> Horizon(g.timeframe),
    sector |-> g.sector, cluster |-> g.cluster, entry |-> g.entry, stop |-> g.stop,
    atr |-> g.atr, conviction |-> c] : g \in GivenSetups, c \in 0 .. 100}
  \cup {[symbol |-> s, strategy |-> t, horizon |-> h, sector |-> NoLabel,
         cluster |-> NoLabel, entry |-> e, stop |-> e - 30, atr |-> NoAtr,
         conviction |-> c] : s \in 1 .. 3, t \in 1 .. 2, e \in {900, 1000},
                             h \in {"intraday", "positional"}, c \in 0 .. 100}
=============================================================================
