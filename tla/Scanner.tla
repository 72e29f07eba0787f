------------------------------ MODULE Scanner ------------------------------
(***************************************************************************)
(* The stock scanner (scanners/) as the market monitor runs it: one job    *)
(* per symbol, enabled strategy and timeframe, each of which may fail,     *)
(* hold, or become a scored long setup.  Prices are whole, ratios are in   *)
(* tenths, stop distances in thousandths, scores in whole points.          *)
(***************************************************************************)
EXTENDS Integers, Sequences

CONSTANTS
  Watchlist, Universe,   \* sequences of symbols; numbered in alphabetical order
  Specs,                 \* sequence of [strategy, timeframes, enabled]
  ScanConfigs,           \* ScannerConfig
  Charts,                \* what a job may find in the data of its symbol
  NoLabel                \* a sector or cluster nobody has filled in

VARIABLES scanCfg,
          scan           \* the local variables and the result of the scan

scanVars == <<scanCfg, scan>>

Clamp(x) == IF x < 0 THEN 0 ELSE IF x > 100 THEN 100 ELSE x

Horizon(timeframe) ==
  CASE timeframe \in {"1m", "5m", "15m"} -> "intraday"
    [] timeframe = "1h" -> "swing"
    [] timeframe = "1D" -> "positional"

EffectiveTimeframes(spec) ==
  IF spec.timeframes # <<>> THEN spec.timeframes ELSE scanCfg.timeframes

\* The jobs of a scan, in the order of its three loops.
Jobs(symbols) ==
  LET Flat(n, Block(_)) ==
        LET upTo[i \in 0 .. n] == IF i = 0 THEN <<>> ELSE upTo[i - 1] \o Block(i)
        IN  upTo[n]
      enabled == SelectSeq(Specs, LAMBDA s : s.enabled)
      JobsOf(symbol, spec) ==
        [k \in DOMAIN EffectiveTimeframes(spec) |->
           [symbol |-> symbol, strategy |-> spec.strategy,
            timeframe |-> EffectiveTimeframes(spec)[k]]]
  IN  Flat(Len(symbols),
           LAMBDA i : Flat(Len(enabled), LAMBDA j : JobsOf(symbols[i], enabled[j])))

-----------------------------------------------------------------------------
(* One job                                                                 *)

\* Without enough history a strategy is not asked.
Signal(chart) == IF chart.bars < scanCfg.minBars THEN "hold" ELSE chart.signal

\* ATR is asked for only in its mode; a chart without one has atr 0.
StopLoss(chart) ==
  IF scanCfg.mode = "fixed_pct"
  THEN chart.close - (chart.close * scanCfg.fixedStop) \div 1000
  ELSE chart.close - (scanCfg.atrMultiple * chart.atr) \div 10

Setup(chart) ==
  LET risk == chart.close - StopLoss(chart)
  IN  [entry |-> chart.close, stop |-> StopLoss(chart),
       target |-> chart.close + (risk * scanCfg.targetRr) \div 10,
       rr |-> scanCfg.targetRr]

\* The data, the strategy, the setup and its sanity checks may raise.
Raises(chart) ==
  \/ chart.error
  \/ /\ Signal(chart) = "buy"
     /\ LET setup == Setup(chart)
            distance == (1000 * (setup.entry - setup.stop)) \div setup.entry
        IN  \/ scanCfg.mode = "atr" /\ chart.atr = 0
            \/ setup.stop <= 0 \/ setup.stop >= setup.entry
            \/ distance < scanCfg.minStop \/ distance > scanCfg.maxStop
            \/ setup.rr < scanCfg.minRr

\* The strategy's own confidence, or what the indicator it names says.
Score(chart) ==
  (scanCfg.weights.signal * Clamp(chart.confidence)
     + scanCfg.weights.rr * Clamp((10 * scanCfg.targetRr) \div 3)
     + scanCfg.weights.trend * chart.trend
     + scanCfg.weights.liquidity * Clamp(chart.volumeRatio \div 2)
     + scanCfg.weights.freshness * Clamp(100 - 5 * chart.age)) \div 100

\* Nothing a scan finds has a sector, a cluster or an ATR of its own.
Opportunity(job, chart) ==
  [symbol |-> job.symbol, strategy |-> job.strategy, timeframe |-> job.timeframe,
   entry |-> Setup(chart).entry, stop |-> Setup(chart).stop,
   target |-> Setup(chart).target, rr |-> Setup(chart).rr, score |-> Score(chart),
   quality |-> Clamp((10 * scanCfg.targetRr) \div 3),
   liquidity |-> Clamp(chart.volumeRatio \div 2),
   freshness |-> Clamp(100 - 5 * chart.age),
   sector |-> NoLabel, cluster |-> NoLabel]

-----------------------------------------------------------------------------
(* The scan                                                                *)

ScanOf(symbols) == [phase |-> "scanning", symbols |-> symbols, todo |-> Jobs(symbols),
                    found |-> {}, errors |-> 0]

ScanInit == /\ scanCfg \in ScanConfigs
            /\ scan = ScanOf(Watchlist)

\* A scan of the watchlist that raises is replaced by one of the scanner's own
\* universe; if that raises too, so does the monitor.
Abort ==
  scan' = IF scan.symbols = Watchlist /\ scanCfg.continueOnError
          THEN ScanOf(Universe) ELSE [scan EXCEPT !.phase = "failed"]

ScanJob(chart) ==
  LET job == Head(scan.todo)
      next == [scan EXCEPT !.todo = Tail(@)]
  IN  /\ scan.phase = "scanning" /\ scan.todo # <<>>
      /\ \/ /\ Raises(chart)
            /\ IF scanCfg.skipOnError
               THEN scan' = [next EXCEPT !.errors = @ + 1] ELSE Abort
         \/ /\ ~Raises(chart)
            /\ scan' = IF Signal(chart) # "buy" THEN next
                       ELSE [next EXCEPT !.found = @ \cup {Opportunity(job, chart)}]
      /\ UNCHANGED scanCfg

FinishScan ==
  /\ scan.phase = "scanning" /\ scan.todo = <<>>
  /\ scan' = [scan EXCEPT !.phase = "done"]
  /\ UNCHANGED scanCfg

ScanNext == (\E chart \in Charts : ScanJob(chart)) \/ FinishScan
=============================================================================
