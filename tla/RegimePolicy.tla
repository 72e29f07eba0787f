---------------------------- MODULE RegimePolicy ----------------------------
(***************************************************************************)
(* The regime policy: result rows grouped by regime and strategy           *)
(* (research/regime_analysis.py), one entry per regime built from the      *)
(* groups (RegimePolicyBuilder), and the look-up that the portfolio        *)
(* backtest, the walk-forward validation and the live pipeline make        *)
(* (select_for_regime).  Strategies are numbered in alphabetical order;    *)
(* ratios are in hundredths, rates in percent.                             *)
(***************************************************************************)
EXTENDS Integers, FiniteSets, SequencesExt

CONSTANTS MinRunCount, NoStrategy, RISK_OFF, NoPolicy

SharpePreferredMin == 0
SharpeAllowedMin == -25
SharpeSuppressedBelow == -50
PosReturnRateMin == 25
NoTradeSharpeMax == -25
NoTradePosRateMax == 35

NegInf == -1000000

\* A row: what one backtest of a symbol with a strategy made in a regime.
MeanOf(rows, Field(_)) ==
  FoldSet(LAMBDA r, sum : sum + Field(r), 0, rows) \div Cardinality(rows)

Aggregate(rows, regime, strategy) ==
  LET group == {r \in rows : r.regime = regime /\ r.strategy = strategy}
  IN  [strategy |-> strategy, runs |-> Cardinality(group),
       sharpe |-> MeanOf(group, LAMBDA r : r.sharpe),
       return |-> MeanOf(group, LAMBDA r : r.return),
       drawdown |-> MeanOf(group, LAMBDA r : r.drawdown),
       posRate |-> (100 * Cardinality({r \in group : r.return > 0}))
                     \div Cardinality(group)]

Aggregates(rows, regime) ==
  {Aggregate(rows, regime, s) : s \in {r.strategy : r \in {q \in rows : q.regime = regime}}}

\* mean_sharpe, mean_return and mean_drawdown descending, then the name.
RanksBefore(a, b) ==
  \/ a.sharpe > b.sharpe
  \/ a.sharpe = b.sharpe /\ a.return > b.return
  \/ a.sharpe = b.sharpe /\ a.return = b.return /\ a.drawdown > b.drawdown
  \/ /\ a.sharpe = b.sharpe /\ a.return = b.return /\ a.drawdown = b.drawdown
     /\ a.strategy < b.strategy

\* `x or -inf`: a ratio of exactly zero counts as a missing one.
OrNegInf(x) == IF x = 0 THEN NegInf ELSE x

Records(rows, regime) ==
  LET ranked == SetToSortSeq(Aggregates(rows, regime), RanksBefore)
  IN  [i \in DOMAIN ranked |-> [ranked[i] EXCEPT !.sharpe = OrNegInf(@)]]

Names(records) == [i \in DOMAIN records |-> records[i].strategy]

ShouldTrade(regime, eligible, preferred) ==
  \/ eligible = <<>>
  \/ regime = RISK_OFF /\ preferred # NoStrategy
  \/ /\ regime # RISK_OFF
     /\ \/ \E i \in DOMAIN eligible : eligible[i].sharpe >= NoTradeSharpeMax
        \/ \E i \in DOMAIN eligible : eligible[i].posRate >= NoTradePosRateMax

BuildEntry(rows, regime) ==
  LET eligible == SelectSeq(Records(rows, regime), LAMBDA r : r.runs >= MinRunCount)
      good == SelectSeq(eligible, LAMBDA r : r.sharpe >= SharpePreferredMin)
      preferred == IF good = <<>> THEN NoStrategy ELSE good[1].strategy
  IN  [preferred |-> preferred,
       ranked |-> Names(Records(rows, regime)),
       allowed |-> Names(SelectSeq(eligible,
                     LAMBDA r : /\ r.sharpe >= SharpeAllowedMin
                                /\ r.posRate >= PosReturnRateMin)),
       suppressed |-> Names(SelectSeq(eligible, LAMBDA r : r.sharpe < SharpeSuppressedBelow)),
       shouldTrade |-> ShouldTrade(regime, eligible, preferred)]

BuildPolicy(rows) == [regime \in {r.regime : r \in rows} |-> BuildEntry(rows, regime)]

\* What a caller that has the strategies of `available` is told.
SelectForRegime(policy, regime, available) ==
  IF regime \notin DOMAIN policy
  THEN [preferred |-> NoStrategy, allowed |-> SetToSortSeq(available, <),
        shouldTrade |-> TRUE, found |-> FALSE]
  ELSE LET entry == policy[regime]
       IN  IF ~entry.shouldTrade
           THEN [preferred |-> NoStrategy, allowed |-> <<>>,
                 shouldTrade |-> FALSE, found |-> TRUE]
           ELSE [preferred |-> IF entry.preferred \in available
                               THEN entry.preferred ELSE NoStrategy,
                 allowed |-> SelectSeq(entry.allowed, LAMBDA s : s \in available),
                 shouldTrade |-> TRUE, found |-> TRUE]
=============================================================================
