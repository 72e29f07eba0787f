------------------------------ MODULE MCStudies ------------------------------
(***************************************************************************)
(* Model-checking instances of the studies that run by themselves: the two *)
(* stand-alone intraday backtests, a strategy of the library in an engine, *)
(* the walk-forward validation of regime policies, the portfolio backtest, *)
(* the live signal pipeline, the regime matrix, the research on a strategy,*)
(* the analysis of the market, its hours, its options and futures, and the *)
(* research over an index.  One of them is under way in a behaviour.       *)
(***************************************************************************)
EXTENDS IntradayBacktests,
        RegimeWalkForward, PortfolioResearch, LiveSignals, StrategyMatrix,
        StrategyResearch, MarketRegimes, MarketHours,
        MCDerivatives, MCResearchRunner

VARIABLE study

otherVars == <<mh, dv, fv, vars>>
mcVars == <<study, intradayVars, wf, pbVars, liveVars, mxVars, lab, mi, otherVars>>

-----------------------------------------------------------------------------
(* Intraday                                                                *)

Price(high, low, close, chLong, chShort) ==
  [high |-> high, low |-> low, close |-> close, chandelierLong |-> chLong,
   chandelierShort |-> chShort, slDist |-> 2, side |-> 0,
   regimeAllowed |-> TRUE]

\* Bars around 20: two entries, one of them in a regime that forbids it in the
\* other direction; moves to TP1 and beyond, back through the entry, to the
\* stop; a bar wide enough for both; a chandelier that tightens.
MCDrasBars ==
  {[Price(21, 19, 20, NoLevel, NoLevel) EXCEPT !.side = 1],
   [Price(21, 19, 20, 16, 24) EXCEPT !.side = -1],
   [Price(21, 19, 20, 16, 24) EXCEPT !.side = 1, !.regimeAllowed = FALSE],
   Price(23, 20, 22, 17, 23),
   Price(20, 17, 18, 17, 23),
   Price(23, 17, 20, 17, 23),
   Price(22, 20, 21, 20, 21)}

MCTrendBars ==
  {[high |-> h, low |-> l, close |-> c, trend |-> s] :
     h \in {200, 202}, l \in {198, 200}, c \in {200}, s \in {-1, 0, 1}}

MCLevels == -1 .. 2

AllStrategies == DOMAIN Bars

-----------------------------------------------------------------------------
(* Regimes                                                                 *)

\* Six days make two windows; the second symbol has the same days, stops a day
\* early, or was listed two days later.
MCFrames ==
  {<<[i \in 1 .. 6 |-> i], second>> :
     second \in {[i \in 1 .. 6 |-> i], [i \in 1 .. 5 |-> i], [i \in 1 .. 6 |-> i + 2]}}
MCRegistry == <<2, 1>>
Performed(sharpe, return) == [sharpe |-> sharpe, return |-> return, drawdown |-> -6]
MCWfOutcomes == {Performed(60, 6), Performed(-60, -6)}
MCWfRegimes == {"risk_off", "bull"}

\* An entry that prefers the second strategy, one that suppresses everything.
PolicyEntry(preferred, allowed, shouldTrade) ==
  [preferred |-> preferred, ranked |-> <<1, 2>>, allowed |-> allowed,
   suppressed |-> <<>>, shouldTrade |-> shouldTrade]
MCPolicy == [bull |-> PolicyEntry(2, <<2>>, TRUE), risk_off |-> PolicyEntry(NoStrategy, <<>>, FALSE)]
MCPolicies == {NoPolicy, MCPolicy}

MCSpans == {[from |-> 1, to |-> 3], [from |-> 2, to |-> 3], [from |-> 1, to |-> 2]}
MCPbSettings ==
  {[maxPositions |-> m, reserve |-> r, precomputed |-> p] :
     m \in {1, 3}, r \in BOOLEAN, p \in BOOLEAN}

\* A drawdown below, in and above the band of reduced risk; on the limit the
\* precheck and the overlay disagree.
MCLiveConfigs ==
  {[enabled |-> TRUE, precheck |-> p, handoff |-> p, topN |-> 2 * o, drawdown |-> d,
    open |-> o, deployed |-> 20 * o] :
     p \in BOOLEAN, d \in {0, 15, 20, 21}, o \in {0, 1}}
\* The session of a live study that never begins.
IdleSession == NewSession(1, CHOOSE c \in MCLiveConfigs : TRUE, NoPolicy)
MCGains == {-1, 0, 2}
MCWatchlists == {<<1, 2, 3>>}
MCOverrides == [risk_off |-> [open |-> 2, exposure |-> 40]]

\* The first strategy gains in a range, the second loses in its last window.
MCMxResult(asked, unit) ==
  [regime |-> IF unit.strategy = 2 /\ unit.window = 2 THEN "strong_bull" ELSE "range",
   return |-> IF unit.strategy = 1 THEN asked.id ELSE 1 - unit.window, trades |-> 15]
MCMxSettings ==
  {[id |-> 1, strategies |-> {1, 2}, bars |-> 7, windowCount |-> 2, minBars |-> 3],
   [id |-> 2, strategies |-> {1}, bars |-> 10, windowCount |-> 3, minBars |-> 3]}

-----------------------------------------------------------------------------
(* Research on a strategy                                                  *)

MadeOf(sharpe, drawdown, count) ==
  [sharpe |-> sharpe, drawdown |-> drawdown, trades |-> count, winRate |-> 50,
   profitFactor |-> 12, sortino |-> sharpe, calmar |-> 50]
\* A loser, a winner with a deep drawdown.
MCLabMetrics == {MadeOf(-40, 10, 60), MadeOf(150, 40, 4)}
MCLabGains == {-2, 3}
MCLabSpans == {[from |-> 1, to |-> 3], [from |-> 2, to |-> 4]}
Traded(pnl, fees) == [pnl |-> pnl, fees |-> fees]
MCTradeLogs == {<<>>, <<Traded(5, 2), Traded(-3, 2), Traded(1, 1)>>, <<Traded(-3, 1), Traded(-2, 2)>>}
MCNoises == {-50, 0, 50}
MCDiscoverySettings ==
  {[candidates |-> 1 .. n, maxCandidates |-> 3, topN |-> 1, continueOnError |-> c] :
     n \in {2, 4}, c \in BOOLEAN}
\* One that holds in every analysis and one that breaks in each.
MCAnalyses ==
  {[sharpe |-> 120, trades |-> 9, profitable |-> 90, median |-> 12, noise |-> 2,
    numeric |-> TRUE, spread |-> 3],
   [sharpe |-> -150, trades |-> 0, profitable |-> 0, median |-> 0, noise |-> 30,
    numeric |-> FALSE, spread |-> 0]}

-----------------------------------------------------------------------------
(* Market regimes                                                          *)

\* Bars around the closes, the range of the last two wider by more.
Around(closes, spread, more, volume) ==
  [i \in DOMAIN closes |->
     LET wide == spread + (IF i + 1 < Len(closes) THEN 0 ELSE more)
     IN  [close |-> closes[i], high |-> closes[i] + wide, low |-> closes[i] - wide,
          volume |-> IF i = Len(closes) THEN volume ELSE 10]]
Line(step, n) == [i \in 1 .. n |-> 10000 + step * i]
ZigZag(size, n) == [i \in 1 .. n |-> 10000 + (IF i % 2 = 0 THEN size ELSE 0)]
Steps(up, down, n) == [i \in 1 .. n |-> 10000 + up * (i \div 2) - down * ((i - 1) \div 2)]

\* Calm rise and fall; a rise in large steps; small swings, of even and of
\* growing range; a jump at the end; too short for the engine, for volatility,
\* for anything.
MCMarketFrames ==
  {Around(Line(10, 10), 5, 0, 10), Around(Line(-10, 10), 5, 0, 30),
   Around(Steps(300, 100, 10), 20, 0, 10),
   Around(ZigZag(12, 10), 8, 0, 10), Around(ZigZag(12, 10), 8, 30, 10),
   Around(Append(Line(0, 9), 10800), 10, 0, 40),
   Around(Line(4, 7), 5, 0, 10), Around(Line(0, 4), 5, 0, 10), Around(Line(0, 1), 5, 0, 10)}
MCSectors == <<{1}, {2}>>
MCWindows == {2, 6}
MCWindowWeights == [w \in MCWindows |-> IF w = 2 THEN 60 ELSE 40]
MCMarketSettings ==
  {[continueOnError |-> TRUE, requireBars |-> FALSE, flow |-> "off", flowOptional |-> TRUE, fallback |-> TRUE],
   [continueOnError |-> TRUE, requireBars |-> TRUE, flow |-> "present", flowOptional |-> TRUE, fallback |-> FALSE],
   [continueOnError |-> FALSE, requireBars |-> FALSE, flow |-> "missing", flowOptional |-> FALSE, fallback |-> TRUE]}

-----------------------------------------------------------------------------
(* Market hours                                                            *)

MCSchedules ==
  {[enabled |-> e, mode |-> "daily", interval |-> 0, time |-> 10] : e \in BOOLEAN} \cup
  {[enabled |-> TRUE, mode |-> m, interval |-> 5, time |-> 0] : m \in {"interval", "manual"}}
\* No holiday; a Friday and the Monday after it.
MCInitialHolidays == {{}, {4, 7}}

-----------------------------------------------------------------------------
(* One study at a time                                                     *)

MCInit ==
  /\ study \in {"dras", "trend", "signals", "walk_forward", "portfolio", "live", "matrix", "research",
               "regimes", "hours", "options", "futures", "index"}
  /\ IntradayInit
  /\ study # "signals" => strategy = "Burst"
  /\ IF study = "walk_forward" THEN WfInit ELSE wf = NoResult
  /\ IF study = "portfolio" THEN PbInit ELSE pb = NoFile /\ pbDisk = NoFile
  /\ LiveInit
  /\ study # "live" => live = IdleSession
  /\ MxInit
  /\ IF study = "research" THEN LabInit ELSE lab = NoCheckpoint
  /\ IF study = "regimes" THEN MiInit ELSE mi = NoFrame
  /\ IF study = "hours" THEN MhInit ELSE mh = NoFrame
  /\ IF study = "options" THEN OptionsInit ELSE dv = NoFrame
  /\ IF study = "futures" THEN FuturesInit ELSE fv = NoFrame
  /\ Init

MCNext ==
  /\ UNCHANGED study
  /\ \/ /\ UNCHANGED <<wf, pbVars, liveVars, mxVars, lab, mi, otherVars>>
        /\ \/ study = "dras" /\ DrasStep
           \/ study = "trend" /\ TrendStep
           \/ study = "signals" /\ SignalStep
     \/ study = "walk_forward" /\ WfNext /\ UNCHANGED <<intradayVars, pbVars, liveVars, mxVars, lab, mi, otherVars>>
     \/ study = "portfolio" /\ PbNext /\ UNCHANGED <<intradayVars, wf, liveVars, mxVars, lab, mi, otherVars>>
     \/ study = "live" /\ LiveNext /\ UNCHANGED <<intradayVars, wf, pbVars, mxVars, lab, mi, otherVars>>
     \/ study = "matrix" /\ MxNext /\ UNCHANGED <<intradayVars, wf, pbVars, liveVars, lab, mi, otherVars>>
     \/ study = "research" /\ LabNext /\ UNCHANGED <<intradayVars, wf, pbVars, liveVars, mxVars, mi, otherVars>>
     \/ study = "regimes" /\ MiNext /\ UNCHANGED <<intradayVars, wf, pbVars, liveVars, mxVars, lab, otherVars>>
     \/ /\ UNCHANGED <<intradayVars, wf, pbVars, liveVars, mxVars, lab, mi>>
        /\ \/ study = "hours" /\ MhNext /\ UNCHANGED <<dv, fv, vars>>
           \/ study = "options" /\ OptionsNext /\ UNCHANGED <<mh, fv, vars>>
           \/ study = "futures" /\ FuturesNext /\ UNCHANGED <<mh, dv, vars>>
           \/ study = "index" /\ Next /\ UNCHANGED <<mh, dv, fv>>

MCSpec == MCInit /\ [][MCNext]_mcVars

\* Research says what it measured: no policy or parameter is judged on the data
\* it was chosen on, a portfolio returns what its trades made, and what a study
\* reports of a strategy is that of its own runs.
ResearchIsHonest ==
  /\ study = "walk_forward" => JudgedOutOfSample
  /\ study = "portfolio" => ReturnIsThatOfTheTrades
  /\ study = "research" => ResearchHolds

\* The engines that judge the market agree where they look at the same data, and
\* so do the clocks that say when it is open; option chains, their analysis and the
\* futures series are those of their quotes and contracts.
MarketViewsAgree ==
  /\ study = "regimes" => RegimesHold
  /\ study = "hours" => HoursHold
  /\ study = "options" => OptionsHold
  /\ study = "futures" => FuturesHold
=============================================================================
