---------------------------- MODULE ExecutionCosts ----------------------------
(***************************************************************************)
(* execution/fill_model.py, cost_model.py and the analysis of a trade log  *)
(* in execution/__init__.py: where a signal is filled, what a round trip   *)
(* costs and the gross and net result of every symbol and strategy.        *)
(* A log is [columns, trades], a trade [symbol, strategy, entry, exit,     *)
(* qty, gross]; quantities are negative for short trades.                  *)
(***************************************************************************)
EXTENDS Integers, SequencesExt

CONSTANTS
  Blank,            \* NaN: what a blank field of the log is once its column is read
  FixedFee, FeeAndSlippage, CostUnit,   \* commission_per_trade; bps of the notional per CostUnit
  TradeLogs, Capitals,
  FillRequests      \* [times, signal, nextOpen]: the times of the bars, -1 for an index of -1

VARIABLE cost       \* a log or a fill request, and what came of it

Magnitude(n) == IF n < 0 THEN -n ELSE n

-----------------------------------------------------------------------------
(* Costs; amounts are multiplied by CostUnit                               *)

\* Commission and slippage have one size whichever way the leg goes.  NaN is true
\* to Python's `or 0.0`, so a leg of a blank price or quantity has no cost at all.
LegCost(price, qty) ==
  IF Blank \in {price, qty} THEN Blank
  ELSE FixedFee * CostUnit + price * Magnitude(qty) * FeeAndSlippage

PlusOrBlank(a, b) == IF Blank \in {a, b} THEN Blank ELSE a + b

\* Broken variant: the fixed commission once for both legs.
RoundTripCost_OneFee(t) ==
  PlusOrBlank(PlusOrBlank(LegCost(t.entry, t.qty), LegCost(t.exit, t.qty)), -(FixedFee * CostUnit))

RoundTripCost(t) == PlusOrBlank(LegCost(t.entry, t.qty), LegCost(t.exit, t.qty))

\* pandas' sum passes over a blank.
SumOf(trades, amount(_)) ==
  FoldLeft(LAMBDA acc, t : acc + (IF amount(t) = Blank THEN 0 ELSE amount(t)), 0, trades)

\* By the symbol and the strategy, as far as the log has these columns.
Key(log, t) == <<IF "symbol" \in log.columns THEN t.symbol ELSE "ALL",
                 IF "strategy" \in log.columns THEN t.strategy ELSE "ALL">>

\* groupby leaves out the rows whose key is blank.
Grouped(log) == {k \in {Key(log, log.trades[i]) : i \in DOMAIN log.trades} : Blank \notin Range(k)}

BuildRecord(log, key, capital) ==
  LET trades == SelectSeq(log.trades, LAMBDA t : Key(log, t) = key)
      gross == SumOf(trades, LAMBDA t : t.gross) * CostUnit
      total == SumOf(trades, RoundTripCost)
  IN  [key |-> key, trades |-> Len(trades), gross |-> gross, cost |-> total, net |-> gross - total,
       capital |-> IF capital > 0 THEN capital ELSE 1,
       drag |-> IF total > 0 THEN total ELSE 0]

\* Without trades, or without a column it needs, there is no report.
RequiredColumns == {"entry_price", "exit_price", "quantity", "gross_pnl"}

AnalyzeTradeLog(log, capital) ==
  IF RequiredColumns \subseteq log.columns
  THEN SetToSortSeq({BuildRecord(log, key, capital) : key \in Grouped(log)},
                    LAMBDA a, b : a.gross > b.gross)
  ELSE <<>>

-----------------------------------------------------------------------------
(* Fills                                                                   *)

Unfilled == [available |-> FALSE, bar |-> -1]
FillAt(bar) == [available |-> TRUE, bar |-> bar]

\* The next open, or this close.  In the first mode no lower bound is tested.
GetFillPrice(n, signal, nextOpen) ==
  LET bar == IF nextOpen THEN signal + 1 ELSE signal
  IN  IF n = 0 \/ bar >= n \/ (bar < 0 /\ ~nextOpen) THEN Unfilled
      ELSE FillAt(IF bar < 0 THEN n + bar ELSE bar)

\* By time: the first of several bars with the time of the signal.
GetFillPriceAtDate(times, time, nextOpen) ==
  LET at == {i \in DOMAIN times : times[i] = time}
  IN  IF at = {} THEN Unfilled
      ELSE GetFillPrice(Len(times), (CHOOSE i \in at : \A j \in at : i <= j) - 1, nextOpen)

-----------------------------------------------------------------------------
CostInit ==
  \/ \E log \in TradeLogs, capital \in Capitals :
       cost = [kind |-> "costs", log |-> log, records |-> AnalyzeTradeLog(log, capital)]
  \/ \E r \in FillRequests :
       cost = [kind |-> "fill", times |-> r.times, time |-> r.time, nextOpen |-> r.nextOpen,
               fill |-> GetFillPriceAtDate(r.times, r.time, r.nextOpen)]

-----------------------------------------------------------------------------
(* Properties                                                              *)

\* The report on gross and net counts every trade that has the names it is grouped
\* by, once, with its gross result; it takes off two commissions and the cost of both
\* notionals for every one whose prices and quantity are all there, short trades as
\* long ones, and for no other.  Its groups come in the order of their gross result.
ReportCountsEveryTrade ==
  (cost.kind = "costs" /\ RequiredColumns \subseteq cost.log.columns) =>
    LET named == SelectSeq(cost.log.trades, LAMBDA t :
                   /\ "symbol" \in cost.log.columns => t.symbol # Blank
                   /\ "strategy" \in cost.log.columns => t.strategy # Blank)
        priced == SelectSeq(named, LAMBDA t : Blank \notin {t.entry, t.exit, t.qty})
        turnover == SumOf(priced, LAMBDA t : Magnitude(t.qty) * (t.entry + t.exit))
    IN  /\ SumOf(cost.records, LAMBDA r : r.trades) = Len(named)
        /\ SumOf(cost.records, LAMBDA r : r.net) =
             SumOf(named, LAMBDA t : t.gross) * CostUnit
               - 2 * FixedFee * CostUnit * Len(priced) - FeeAndSlippage * turnover
        /\ \A i, j \in DOMAIN cost.records :
             i < j => /\ cost.records[i].key # cost.records[j].key
                      /\ cost.records[i].gross >= cost.records[j].gross

\* A signal found by its time is filled on a bar of the data, after every bar that
\* was known when it was given: the next one, or its own at its close.
FillsFollowTheirSignal ==
  (cost.kind = "fill" /\ cost.fill.available) =>
    LET bar == cost.fill.bar + 1
    IN  /\ bar \in DOMAIN cost.times
        /\ cost.times[bar] >= cost.time
        /\ cost.nextOpen => cost.times[bar - 1] = cost.time
=============================================================================
