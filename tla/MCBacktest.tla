------------------------------ MODULE MCBacktest ------------------------------
(***************************************************************************)
(* Model-checking instances of what executes orders and what it costs: the *)
(* backtest over small feeds of bars, the costs and fills of a finished    *)
(* trade log, the orders sent to a broker.  One of them in a behaviour.    *)
(***************************************************************************)
EXTENDS Backtest, LiveOrders, ExecutionCosts

VARIABLE part

mcVars == <<part, vars, loVars, cost>>

B(o, h, l, c) == [open |-> o, high |-> h, low |-> l, close |-> c]

\* A quiet bar, a rally, a sell-off inside the bar, a gap up and a gap down.
MCBars == {B(10, 11, 9, 10), B(10, 14, 10, 13), B(11, 11, 7, 8),
           B(14, 15, 13, 14), B(6, 7, 5, 6)}

Bars2 == {1, 3}
AllBars == 0 .. NumBars - 1

-----------------------------------------------------------------------------
(* Orders at the broker                                                    *)

\* A plain call, and one of a side Kite does not know, of a share and a half, of
\* another variety than the broker's own.
OrderCall(side, halves, variety) ==
  [symbol |-> "INFY", side |-> side, halves |-> halves, type |-> "market", variety |-> variety]
MCOrderCalls == {OrderCall("buy", 2, NoVariety), OrderCall("short", 3, "AMO")}

-----------------------------------------------------------------------------
(* Trade logs                                                              *)

Trades ==
  {[symbol |-> symbol, strategy |-> "orb", entry |-> 10, exit |-> exit, qty |-> qty, gross |-> (exit - 10) * qty] :
     symbol \in {"A", "B", Blank}, exit \in {8, 10, 13}, qty \in {2, -1}}
BlankTrades ==
  {[symbol |-> "A", strategy |-> "trend", entry |-> Blank, exit |-> 9, qty |-> Blank, gross |-> Blank],
   [symbol |-> "B", strategy |-> "orb", entry |-> 10, exit |-> 9, qty |-> 2, gross |-> Blank],
   [symbol |-> "A", strategy |-> Blank, entry |-> 10, exit |-> Blank, qty |-> 2, gross |-> 6]}
AllColumns == RequiredColumns \cup {"symbol", "strategy"}
MCTradeLogs ==
  [columns : {AllColumns}, trades : BoundedSeq(Trades \cup BlankTrades, 2) \cup
                                    {<<t, b, u>> : t, u \in Trades, b \in BlankTrades}] \cup
  [columns : {AllColumns \ {"symbol"}, AllColumns \ {"strategy"}, RequiredColumns, AllColumns \ {"exit_price"}},
   trades : {<<t, b>> : t \in Trades, b \in Trades \cup BlankTrades}]
MCFillRequests ==
  {[times |-> times, time |-> time, nextOpen |-> nextOpen] :
     times \in {<<>>, <<1>>, <<1, 2, 4>>, <<1, 2, 2, 2, 3>>}, time \in 1 .. 4, nextOpen \in BOOLEAN}

-----------------------------------------------------------------------------
(* One part at a time                                                      *)

Nothing == "nothing"

MCInit ==
  /\ part \in {"backtest", "orders", "costs"}
  /\ Init
  /\ LoInit
  /\ part # "backtest" => bar = B(10, 11, 9, 10)
  /\ part # "orders" => lo.mode = NoMode /\ lo.env = NoMode /\ ~lo.enabled
  /\ IF part = "costs" THEN CostInit ELSE cost = Nothing

MCNext ==
  /\ UNCHANGED <<part, cost>>
  /\ \/ part = "backtest" /\ Next /\ UNCHANGED loVars
     \/ part = "orders" /\ LoNext /\ UNCHANGED vars

MCSpec == MCInit /\ [][MCNext]_mcVars

\* The report of costs counts every named trade once, and a fill follows its signal.
CostsAreCounted == part = "costs" => ReportCountsEveryTrade /\ FillsFollowTheirSignal
=============================================================================
