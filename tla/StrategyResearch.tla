--------------------------- MODULE StrategyResearch ---------------------------
(***************************************************************************)
(* Research on one strategy: the grid optimizer and the walk-forward test  *)
(* over it, the ranker of generated candidates, the multi-asset backtest,  *)
(* the Monte Carlo analyzer, and the discovery engine of the research lab. *)
(* What a single backtest comes to is open; what is made of it is not.     *)
(* Sharpe ratios are in hundredths, drawdowns and win rates in percent,    *)
(* profit factors in tenths.                                               *)
(***************************************************************************)
EXTENDS Integers, FiniteSets, SequencesExt

CONSTANTS
  Grid,            \* the parameter combinations 1 .. Grid, in the order of the product
  LabMetrics,      \* what a backtest may come to
  RAISED, Unknown,
  LabBars, LabTrain, LabTest, LabStep,
  RankTop,
  LabSpans, LabGains, LabCapital, LabSymbols,   \* the multi-asset backtest
  TradeLogs,       \* trades handed to the analyzer: [pnl, fees]
  Noises, MaxSimulations,
  DiscoverySettings, \* [candidates, maxCandidates, topN, continueOnError, templates]
  Analyses,        \* what the analyses of a candidate may come to
  MinTrades, StablePct, UnstablePct, Similarity

ASSUME LabAssumption ==
  /\ {Grid, LabTrain, LabTest, LabStep, RankTop, LabSymbols, MaxSimulations} \subseteq Nat
  /\ LabTrain > 0 /\ LabTest > 0 /\ LabStep > 0 /\ Grid > 0

VARIABLE lab       \* the research under way

Clamp(x) == IF x < 0 THEN 0 ELSE IF x > 100 THEN 100 ELSE x
LabSum(seq) == FoldSeq(+, 0, seq)
Combination == 1 .. Grid

-----------------------------------------------------------------------------
(* The optimizer under the walk-forward test                               *)

Succeeded(rows) == {r \in ToSet(rows) : r.metrics # RAISED}

\* A bad combination leaves a row without metrics.  Rows with a metric come
\* first, the best ahead; without any metric the column is missing and nothing
\* is sorted.
BestRows(rows) ==
  IF Succeeded(rows) = {} THEN {Head(rows)}
  ELSE {r \in Succeeded(rows) :
          \A s \in Succeeded(rows) : r.metrics.sharpe >= s.metrics.sharpe}

LabWindows ==
  LET starts == {s \in 0 .. LabBars : s % LabStep = 0 /\ s + LabTrain + LabTest <= LabBars}
  IN  [k \in 1 .. Cardinality(starts) |->
         LET s == (k - 1) * LabStep
         IN  [train |-> s + 1 .. s + LabTrain,
              test |-> s + LabTrain + 1 .. s + LabTrain + LabTest]]

StartTester ==
  [kind |-> "tester", pc |-> IF LabBars < LabTrain + LabTest THEN "error" ELSE "train",
   rows |-> <<>>, windows |-> <<>>, aggregate |-> Unknown]

RunCombination ==
  /\ lab.pc = "train" /\ Len(lab.rows) < Grid
  /\ \E m \in LabMetrics \cup {RAISED} :
       lab' = [lab EXCEPT !.rows = Append(@, [params |-> Len(lab.rows) + 1, metrics |-> m])]

\* The best parameters go to a fresh strategy on the test window; when that
\* backtest raises, the whole test does.
TestWindow ==
  /\ lab.pc = "train" /\ Len(lab.rows) = Grid
  /\ \E best \in BestRows(lab.rows), m \in LabMetrics \cup {RAISED} :
       LET k == Len(lab.windows) + 1
           done == Append(lab.windows, [best |-> best, rows |-> lab.rows,
                            bars |-> LabWindows[k], test |-> m])
       IN  lab' = IF m = RAISED THEN [lab EXCEPT !.pc = "error"]
                  ELSE [lab EXCEPT !.windows = done, !.rows = <<>>,
                          !.pc = IF k < Len(LabWindows) THEN "train" ELSE "aggregate"]

\* Means and extremes over the test windows.
AggregateWindows ==
  /\ lab.pc = "aggregate" /\ lab.kind = "tester"
  /\ LET sharpes == [k \in DOMAIN lab.windows |-> lab.windows[k].test.sharpe]
         trades == [k \in DOMAIN lab.windows |-> lab.windows[k].test.trades]
     IN  lab' = [lab EXCEPT !.pc = "exported",
                   !.aggregate = [windows |-> Len(lab.windows),
                                  mean |-> LabSum(sharpes) \div Len(sharpes),
                                  least |-> Min(ToSet(sharpes)),
                                  most |-> Max(ToSet(sharpes)), trades |-> LabSum(trades)]]

-----------------------------------------------------------------------------
(* The ranker                                                              *)

StartRanker == [kind |-> "ranker", pc |-> "run", rows |-> <<>>, ranked |-> <<>>, successful |-> 0]

\* A candidate that raises is only warned about.
RankCandidates ==
  /\ lab.kind = "ranker" /\ lab.pc = "run"
  /\ \E outcomes \in [Combination -> LabMetrics \cup {RAISED}] :
       LET rows == [c \in Combination |-> [params |-> c, metrics |-> outcomes[c]]]
           good == SelectSeq(rows, LAMBDA r : r.metrics # RAISED)
           sorted == SortSeq(good, LAMBDA a, b :
                       \/ a.metrics.sharpe > b.metrics.sharpe
                       \/ a.metrics.sharpe = b.metrics.sharpe /\ a.params < b.params)
       IN  lab' = [lab EXCEPT !.pc = "exported", !.rows = rows, !.successful = Len(good),
                     !.ranked = SubSeq(sorted, 1, IF Len(good) < RankTop THEN Len(good) ELSE RankTop)]

-----------------------------------------------------------------------------
(* The multi-asset backtest                                                *)

StartAssets == [kind |-> "assets", pc |-> "run", curves |-> <<>>, final |-> Unknown,
                curve |-> <<>>, drawdown |-> Unknown]

\* Both allocation methods split the capital equally.
Allocation == LabCapital \div LabSymbols

\* One symbol after the other; one that raises ends the run.  A symbol has bars
\* in a span of the calendar and equity at each of them.
RunAsset ==
  /\ lab.kind = "assets" /\ lab.pc = "run"
  /\ \/ lab' = [lab EXCEPT !.pc = "error"]
     \/ \E span \in LabSpans :
          \E equity \in [span.from .. span.to -> {Allocation + g : g \in LabGains}] :
            LET done == Append(lab.curves, equity)
            IN  lab' = [lab EXCEPT !.curves = done,
                          !.pc = IF Len(done) < LabSymbols THEN "run" ELSE "aggregate"]

\* ffill, and bfill before the first bar.
EquityAt(curve, t) ==
  LET before == {u \in DOMAIN curve : u <= t}
  IN  IF before = {} THEN curve[Min(DOMAIN curve)] ELSE curve[Max(before)]

AggregateCurves ==
  /\ lab.kind = "assets" /\ lab.pc = "aggregate"
  /\ LET days == SetToSortSeq(UNION {DOMAIN lab.curves[s] : s \in DOMAIN lab.curves}, <)
         total == [i \in DOMAIN days |->
                     LabSum([s \in DOMAIN lab.curves |-> EquityAt(lab.curves[s], days[i])])]
         Fall(i) == Max({total[j] : j \in 1 .. i}) - total[i]
     IN  lab' = [lab EXCEPT !.pc = "exported", !.curve = total, !.final = Last(total),
                   !.drawdown = Max({Fall(i) : i \in DOMAIN total})]

-----------------------------------------------------------------------------
(* The Monte Carlo analyzer                                                *)

StartSimulations ==
  {[kind |-> "simulations", mode |-> mode, trades |-> log, runs |-> <<>>, summary |-> Unknown,
    pc |-> IF log = <<>> THEN "empty" ELSE "run"] :
     mode \in {"trade_reshuffle", "return_bootstrap", "cost_perturbation"}, log \in TradeLogs}

\* The profits and losses a simulation may run through: another order of the
\* trades, a draw with replacement, or fees up to half more or less.
Draws(mode, log) ==
  LET n == Len(log)
  IN  CASE mode = "trade_reshuffle" ->
             {[i \in 1 .. n |-> log[p[i]].pnl] : p \in {q \in [1 .. n -> 1 .. n] : IsInjective(q)}}
        [] mode = "return_bootstrap" ->
             {[i \in 1 .. n |-> log[p[i]].pnl] : p \in [1 .. n -> 1 .. n]}
        [] mode = "cost_perturbation" ->
             {[i \in 1 .. n |-> log[i].pnl - (log[i].fees * z[i]) \div 100] : z \in [1 .. n -> Noises]}

\* _build_run_from_pnls.
SimulatedRun(pnls) ==
  LET equity == [i \in 0 .. Len(pnls) |-> LabCapital + LabSum(SubSeq(pnls, 1, i))]
      Fall(i) == Max({equity[j] : j \in 0 .. i}) - equity[i]
  IN  [final |-> equity[Len(pnls)], drawdown |-> Max({Fall(i) : i \in 0 .. Len(pnls)}),
       trades |-> Len(pnls)]

Simulate ==
  /\ lab.kind = "simulations" /\ lab.pc = "run"
  /\ \E pnls \in Draws(lab.mode, lab.trades) :
       LET done == Append(lab.runs, SimulatedRun(pnls))
       IN  lab' = [lab EXCEPT !.runs = done,
                     !.pc = IF Len(done) < MaxSimulations THEN "run" ELSE "aggregate"]

\* _compute_percentiles and _compute_summary; the probability in percent.
Summarize ==
  /\ lab.kind = "simulations" /\ lab.pc = "aggregate"
  /\ LET finals == SortSeq([k \in DOMAIN lab.runs |-> lab.runs[k].final], <)
         n == Len(finals)
     IN  lab' = [lab EXCEPT !.pc = "exported",
                   !.summary = [worst |-> Head(finals), best |-> Last(finals),
                                median |-> (finals[(n + 1) \div 2] + finals[n \div 2 + 1]) \div 2,
                                profitable |->
                                  (100 * Len(SelectSeq(finals, LAMBDA f : f > LabCapital))) \div n]]
-----------------------------------------------------------------------------
(* Discovery                                                               *)

StartDiscovery ==
  {[kind |-> "discovery", pc |-> "evaluate", settings |-> s, evaluated |-> <<>>, failed |-> {},
    tried |-> 0, reports |-> <<>>, ranked |-> <<>>, clusters |-> <<>>, points |-> <<>>,
    surface |-> Unknown] : s \in DiscoverySettings}

\* Default and custom grids are sorted, equal candidates fold into one, and the
\* list is cut at its limit.
Generated(s) ==
  LET ordered == SetToSortSeq(s.candidates, <)
  IN  SubSeq(ordered, 1, IF Len(ordered) < s.maxCandidates THEN Len(ordered) ELSE s.maxCandidates)

Candidates == Generated(lab.settings)
Failing(candidate) == IF lab.settings.continueOnError
                      THEN [lab EXCEPT !.failed = @ \cup {candidate}, !.tried = @ + 1]
                      ELSE [lab EXCEPT !.pc = "error"]

EvaluateCandidate ==
  /\ lab.pc = "evaluate" /\ lab.tried < Len(Candidates)
  /\ LET candidate == Candidates[lab.tried + 1]
     IN  \/ lab' = Failing(candidate)
         \/ \E m \in LabMetrics :
              lab' = [lab EXCEPT !.evaluated = Append(@, [id |-> candidate, metrics |-> m]),
                        !.tried = @ + 1]

EvaluationEnds ==
  /\ lab.pc = "evaluate" /\ lab.tried = Len(Candidates)
  /\ lab' = [lab EXCEPT !.pc = "robustness", !.tried = 0]

\* The analyses are for the 2 * top_n candidates of the best Sharpe ratio.
Pool ==
  LET sorted == SortSeq(lab.evaluated, LAMBDA a, b :
                  \/ a.metrics.sharpe > b.metrics.sharpe
                  \/ a.metrics.sharpe = b.metrics.sharpe /\ a.id < b.id)
      cap == 2 * lab.settings.topN
  IN  SubSeq(sorted, 1, IF Len(sorted) < cap THEN Len(sorted) ELSE cap)

\* Four scores of 0 .. 100, weighed 35 : 35 : 15 : 15.
WalkForwardScore(a) == Clamp((a.sharpe + 100) \div 3)
MonteCarloScore(a) ==
  IF a.trades = 0 THEN 0 ELSE Clamp((8 * a.profitable) \div 10 + Clamp((a.median + 20) \div 2))
NoiseResilienceScore(a) == Clamp(100 - 4 * a.noise)
ParameterStabilityScore(a) ==
  IF ~a.numeric THEN 60 ELSE Clamp(100 - 4 * a.spread + Clamp(a.median + 10))
OverallRobustness(a) ==
  Clamp((35 * WalkForwardScore(a) + 35 * MonteCarloScore(a)
           + 15 * NoiseResilienceScore(a) + 15 * ParameterStabilityScore(a)) \div 100)

AnalyzeRobustness ==
  /\ lab.pc = "robustness" /\ lab.tried < Len(Pool)
  /\ LET candidate == Pool[lab.tried + 1].id
     IN  \/ lab' = Failing(candidate)
         \/ \E a \in Analyses :
              lab' = [lab EXCEPT !.tried = @ + 1,
                        !.reports = Append(@, [id |-> candidate, overall |-> OverallRobustness(a)])]

\* A candidate without a report counts as 50.
RobustnessOf(id) ==
  LET own == SelectSeq(lab.reports, LAMBDA r : r.id = id)
  IN  IF own = <<>> THEN 50 ELSE own[1].overall

Components(row) ==
  LET m == row.metrics
  IN  [sharpe |-> Clamp((m.sharpe + 100) \div 3),
       drawdown |-> Clamp(100 - (3 * m.drawdown) \div 2),
       robustness |-> RobustnessOf(row.id),
       consistency |-> Clamp((7 * m.winRate) \div 10 + (IF m.profitFactor < 30 THEN m.profitFactor ELSE 30)),
       frequency |-> Clamp(m.trades \div 2),
       riskAdjusted |-> Clamp(((m.sortino + m.calmar + m.sharpe) \div 3 + 100) \div 3)]

TotalScore(c) ==
  (25 * c.sharpe + 20 * c.drawdown + 20 * c.robustness + 15 * c.consistency
     + 10 * c.frequency + 10 * c.riskAdjusted) \div 100

Outranks(a, b) ==
  \/ a.total > b.total
  \/ a.total = b.total /\ a.parts.robustness > b.parts.robustness
  \/ a.total = b.total /\ a.parts.robustness = b.parts.robustness /\ a.parts.sharpe > b.parts.sharpe
  \/ a.total = b.total /\ a.parts.robustness = b.parts.robustness
       /\ a.parts.sharpe = b.parts.sharpe /\ a.id < b.id

Scored == [i \in DOMAIN lab.evaluated |->
             LET parts == Components(lab.evaluated[i])
             IN  [id |-> lab.evaluated[i].id, parts |-> parts, total |-> TotalScore(parts)]]

\* The cosine of a score and the mean of a cluster, squared; parts in tenths.
Parts == {"sharpe", "drawdown", "robustness", "consistency", "frequency", "riskAdjusted"}
Dot(a, b) == FoldSet(LAMBDA p, sum : sum + a[p] * b[p], 0, Parts)
Centroid(members) ==
  [p \in Parts |-> LabSum([i \in DOMAIN members |-> members[i].parts[p]]) \div (10 * Len(members))]
Similar(score, members) ==
  LET a == [p \in Parts |-> score.parts[p] \div 10]
      b == Centroid(members)
  IN  /\ Dot(a, a) > 0 /\ Dot(b, b) > 0
      /\ 400 * Dot(a, b) * Dot(a, b) >= Similarity * Similarity * Dot(a, a) * Dot(b, b)

\* Each score, the best ahead, joins the first cluster it is similar to.
Clustered(ranked) ==
  FoldLeft(LAMBDA clusters, score :
             LET fitting == {k \in DOMAIN clusters : Similar(score, clusters[k])}
             IN  IF fitting = {} THEN Append(clusters, <<score>>)
                 ELSE [clusters EXCEPT ![Min(fitting)] = Append(@, score)],
           <<>>, ranked)

ScoreCandidates ==
  /\ lab.pc = "robustness" /\ lab.tried = Len(Pool)
  /\ LET ranked == SortSeq(Scored, Outranks)
     IN  lab' = [lab EXCEPT !.pc = "surface", !.ranked = ranked, !.clusters = Clustered(ranked)]

\* The value at a percentile, in hundredths, between the two nearest ranks.
Quantile(values, pct) ==
  LET sorted == SortSeq(values, <)
      at == (Len(sorted) - 1) * pct
      k == at \div 100 + 1
  IN  IF at % 100 = 0 THEN 100 * sorted[k]
      ELSE sorted[k] * (100 - (at % 100)) + sorted[k + 1] * (at % 100)

Regions(points) ==
  LET sharpes == [i \in DOMAIN points |-> points[i].sharpe]
      falls == [i \in DOMAIN points |-> points[i].drawdown]
  IN  [stable |-> {i \in DOMAIN points :
                     /\ 100 * sharpes[i] >= Quantile(sharpes, 100 - StablePct)
                     /\ 100 * falls[i] <= Quantile(falls, 50)},
       unstable |-> {i \in DOMAIN points :
                       \/ 100 * sharpes[i] <= Quantile(sharpes, UnstablePct)
                       \/ 100 * falls[i] >= Quantile(falls, 100 - UnstablePct)}]

\* A template's grid through the optimizer; the points with too few trades do
\* not count unless all have too few.
AnalyzeSurface ==
  /\ lab.pc = "surface"
  /\ \E outcomes \in [Combination -> LabMetrics \cup {RAISED}] :
       LET points == SelectSeq([c \in Combination |-> outcomes[c]], LAMBDA m : m # RAISED)
           enough == SelectSeq(points, LAMBDA m : m.trades >= MinTrades)
           valid == IF enough = <<>> THEN points ELSE enough
       IN  lab' = [lab EXCEPT !.pc = "exported", !.points = valid,
                     !.surface = IF valid = <<>> THEN [stable |-> {}, unstable |-> {}]
                                 ELSE Regions(valid)]

Listed == SubSeq(lab.ranked, 1, IF Len(lab.ranked) < lab.settings.topN THEN Len(lab.ranked)
                                ELSE lab.settings.topN)

-----------------------------------------------------------------------------
LabInit == lab \in {StartTester, StartRanker, StartAssets} \cup StartSimulations \cup StartDiscovery

LabNext ==
  \/ RunCombination \/ TestWindow \/ AggregateWindows \/ RankCandidates
  \/ RunAsset \/ AggregateCurves \/ Simulate \/ Summarize
  \/ EvaluateCandidate \/ EvaluationEnds \/ AnalyzeRobustness \/ ScoreCandidates \/ AnalyzeSurface

-----------------------------------------------------------------------------
(* What research may be relied on for                                      *)

\* Every bar is tested at most once, on parameters that won on bars before it.
TestsAreAhead ==
  lab.kind = "tester" =>
    /\ \A k \in DOMAIN lab.windows :
         LET w == lab.windows[k]
         IN  /\ \A d \in w.bars.train, e \in w.bars.test : d < e
             /\ Succeeded(w.rows) # {} => /\ w.best.metrics # RAISED
                                          /\ \A r \in Succeeded(w.rows) :
                                               r.metrics.sharpe <= w.best.metrics.sharpe
             /\ LabStep >= LabTest => \A j \in 1 .. k - 1 : lab.windows[j].bars.test \cap w.bars.test = {}
    /\ lab.pc = "exported" => Len(lab.windows) = Len(LabWindows)

RanksAreMerited ==
  lab.kind = "ranker" /\ lab.pc = "exported" =>
    /\ Len(lab.ranked) = (IF lab.successful < RankTop THEN lab.successful ELSE RankTop)
    /\ \A r \in Succeeded(lab.rows) \ ToSet(lab.ranked), s \in ToSet(lab.ranked) :
         r.metrics.sharpe <= s.metrics.sharpe

\* The portfolio ends with what its symbols end with, and starts at what they
\* have on their own first bars.
AssetsAddUp ==
  lab.kind = "assets" /\ lab.pc = "exported" =>
    /\ lab.final = LabSum([s \in DOMAIN lab.curves |-> lab.curves[s][Max(DOMAIN lab.curves[s])]])
    /\ Head(lab.curve) = LabSum([s \in DOMAIN lab.curves |-> lab.curves[s][Min(DOMAIN lab.curves[s])]])

\* A simulation keeps the number of trades; another order keeps their sum; no
\* draw leaves the worst and the best case; fees move the result by half at most.
SimulationsKeepTheTrades ==
  (lab.kind = "simulations" /\ lab.runs # <<>>) =>
    LET pnls == [i \in DOMAIN lab.trades |-> lab.trades[i].pnl]
        n == Len(pnls)
        Final(k) == lab.runs[k].final - LabCapital
    IN  /\ \A k \in DOMAIN lab.runs :
             /\ lab.runs[k].trades = n
             /\ lab.mode = "trade_reshuffle" => Final(k) = LabSum(pnls)
             /\ lab.mode = "return_bootstrap" =>
                  n * Min(ToSet(pnls)) <= Final(k) /\ Final(k) <= n * Max(ToSet(pnls))
             /\ lab.mode = "cost_perturbation" =>
                  LET half == LabSum([i \in DOMAIN pnls |-> lab.trades[i].fees \div 2 + 1])
                  IN  Final(k) - LabSum(pnls) \in -half .. half
        /\ lab.pc = "exported" => /\ lab.summary.worst <= lab.summary.median
                                  /\ lab.summary.median <= lab.summary.best
                                  /\ lab.summary.profitable = 100 <=> lab.summary.worst > LabCapital

\* A discovery ranks each candidate that could be evaluated, once; whoever has a
\* better Sharpe ratio than an analysed candidate was analysed or failed; every
\* ranked candidate is in one cluster.
DiscoveryIsFair ==
  (lab.kind = "discovery" /\ lab.ranked # <<>>) =>
    LET ids == [i \in DOMAIN lab.ranked |-> lab.ranked[i].id]
        analysed == {lab.reports[i].id : i \in DOMAIN lab.reports}
        SharpeOf(id) == SelectSeq(lab.evaluated, LAMBDA r : r.id = id)[1].metrics.sharpe
        members == [k \in DOMAIN lab.clusters |->
                      {lab.clusters[k][i].id : i \in DOMAIN lab.clusters[k]}]
    IN  /\ IsInjective(ids)
        /\ ToSet(ids) = {lab.evaluated[i].id : i \in DOMAIN lab.evaluated}
        /\ \A i, j \in DOMAIN ids : i < j => lab.ranked[i].total >= lab.ranked[j].total
        /\ \A a \in analysed, b \in ToSet(ids) :
             SharpeOf(b) > SharpeOf(a) => b \in analysed \cup lab.failed
        /\ UNION {members[k] : k \in DOMAIN members} = ToSet(ids)
        /\ \A k, l \in DOMAIN members : k # l => members[k] \cap members[l] = {}
        /\ ToSet(Listed) \subseteq ToSet(lab.ranked)

ResearchHolds ==
  /\ TestsAreAhead /\ RanksAreMerited /\ AssetsAddUp /\ SimulationsKeepTheTrades /\ DiscoveryIsFair
=============================================================================
