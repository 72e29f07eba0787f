------------------------------ MODULE Backtest ------------------------------
(***************************************************************************)
(* The bar-by-bar backtest: BacktestEngine.run driving Broker, Portfolio,  *)
(* Position and ExecutionEngine (src/core).  One action per handler of the *)
(* loop; pc names the step of the loop the engine is about to take.        *)
(*                                                                         *)
(* Rates are integers over Den.  A bar price is a whole number of ticks;   *)
(* every other price is counted in 1/Den^3 ticks and money in 1/Den^4      *)
(* ticks, the units in which slippage, stop levels and fees are exact.     *)
(* Quantities are whole lots, so the float divisions of the sizing rules   *)
(* round down to a lot.                                                    *)
(***************************************************************************)
EXTENDS Integers

CONSTANTS
  InitialCapital,      \* config.initial_capital, in ticks
  Bars,                \* the bars a feed may deliver: [open, high, low, close]
  NumBars,             \* len(data_handler)
  SessionLast,         \* bars followed by a bar of a later local date
  EntryBars,           \* bars on which _can_enter_on_bar answers True
  Den,                 \* the denominator of every rate below
  FeeRate, SlippageRate,
  StopLossPct, TakeProfitPct, TrailingStopPct, MaxDrawdownKillPct,
  PositionSizing, FixedQuantity, PositionSizePct, MaxPositionSizePct,
  MaxRiskPerTradePct,
  ExecutionMode,       \* "next_bar_open" or "same_bar_close"
  ForceSquareOff,      \* config.intraday and config.force_square_off_at_close
  ClosePositionsAtEnd,
  NONE                 \* Python's None

Bar == [open : Nat, high : Nat, low : Nat, close : Nat]

Order == [side : {"buy", "sell"}, quantity : Nat \ {0},
          signalPrice : Nat \ {0}, timestamp : Nat]

Position == [entryPrice : Nat \ {0}, quantity : Nat \ {0}, entryFees : Nat,
             entryBar : Nat, highest : Nat, stop : Int \union {NONE},
             take : Int \union {NONE}]

Reason == {"stop_loss", "take_profit", "drawdown_kill", "strategy_sell",
           "session_close", "end_of_backtest"}

Trade == [entryBar : Nat, exitBar : Nat, exitPrice : Int,
          quantity : Nat \ {0}, fees : Int, netPnl : Int,
          reason : Reason]

ASSUME RateAssumption ==
  /\ Den \in Nat \ {0}
  /\ FeeRate \in 0..Den                        \* a fee is at most the trade
  /\ SlippageRate \in 0..Den
  /\ \A r \in {StopLossPct, TakeProfitPct, TrailingStopPct} :
       r \in (Nat \ {0}) \union {NONE}
  /\ MaxDrawdownKillPct \in Nat \union {NONE}
  /\ PositionSizePct \in 1..Den
  /\ MaxPositionSizePct \in 1..Den
  /\ MaxRiskPerTradePct \in Nat
  /\ NONE \notin Int
  /\ NONE \notin Position

ASSUME ConfigAssumption ==
  /\ InitialCapital \in Nat \ {0}
  /\ FixedQuantity \in Nat \ {0}
  /\ PositionSizing \in {"fixed_quantity", "percent_of_equity", "risk_based"}
  /\ ExecutionMode \in {"next_bar_open", "same_bar_close"}
  /\ ForceSquareOff \in BOOLEAN
  /\ ClosePositionsAtEnd \in BOOLEAN

ASSUME DataAssumption ==
  /\ NumBars \in Nat \ {0}
  /\ SessionLast \subseteq 0 .. NumBars - 1
  /\ EntryBars \subseteq 0 .. NumBars - 1
  /\ Bars \subseteq Bar
  /\ \A b \in Bars : /\ 0 < b.low
                     /\ b.low <= b.open  /\ b.open <= b.high
                     /\ b.low <= b.close /\ b.close <= b.high

VARIABLES
  i,           \* index of the current bar
  bar,         \* the current bar
  pc,          \* the step of the loop to take next
  cash, realizedPnl, totalFees, peakValue,        \* Portfolio's running totals
  position,    \* Portfolio.position
  trades,      \* Portfolio.trades
  equity,      \* the last row of Portfolio._equity_records
  pending,     \* Broker.pending_orders, in the order of their timestamps
  killed       \* Broker._drawdown_killed

totals == <<cash, realizedPnl, totalFees, trades>>
vars == <<i, bar, pc, totals, peakValue, position, equity, pending, killed>>

-----------------------------------------------------------------------------
(* Prices and money                                                        *)

Px(ticks) == ticks * Den * Den * Den
Value(price, quantity) == price * quantity * Den
CalculateFees(price, quantity) == price * quantity * FeeRate

SlippedBuy(price)  == price + (price * SlippageRate) \div Den
SlippedSell(price) == price - (price * SlippageRate) \div Den

StopLoss(price) ==
  IF StopLossPct = NONE THEN NONE ELSE (price * (Den - StopLossPct)) \div Den

TakeProfit(price) ==
  IF TakeProfitPct = NONE THEN NONE
  ELSE (price * (Den + TakeProfitPct)) \div Den

\* What one lot at close price c costs with fees and slippage added up.
UnitCost(c) == c * (Den + FeeRate + SlippageRate) * Den * Den * Den

-----------------------------------------------------------------------------
(* Position and portfolio                                                  *)

TotalValue(price) ==
  cash + (IF position = NONE THEN 0 ELSE Value(price, position.quantity))

\* The position once the bar's high has been fed to its trailing stop.
UpdateTrailingStop ==
  LET top   == IF Px(bar.high) > position.highest THEN Px(bar.high)
               ELSE position.highest
      trail == (top * (Den - TrailingStopPct)) \div Den
  IN  IF TrailingStopPct = NONE THEN position
      ELSE IF position.stop = NONE \/ trail > position.stop
      THEN [position EXCEPT !.highest = top, !.stop = trail]
      ELSE [position EXCEPT !.highest = top]

\* The price a stop-loss or take-profit exit of p is made at, NONE if it holds.
CheckStopLoss(p) ==
  IF p.stop = NONE THEN NONE
  ELSE IF Px(bar.open) <= p.stop THEN Px(bar.open)
  ELSE IF Px(bar.low) <= p.stop THEN p.stop
  ELSE NONE

CheckTakeProfit(p) ==
  IF p.take = NONE THEN NONE
  ELSE IF Px(bar.open) >= p.take THEN Px(bar.open)
  ELSE IF Px(bar.high) >= p.take THEN p.take
  ELSE NONE

\* Broken variant: the cash is not looked at again when the order is filled.
OpenPosition_OnCredit(order, price) ==
  LET fees == CalculateFees(price, order.quantity)
  IN  IF position # NONE THEN UNCHANGED <<totals, position>>
      ELSE /\ cash' = cash - (Value(price, order.quantity) + fees)
           /\ totalFees' = totalFees + fees
           /\ position' = [entryPrice |-> price, quantity |-> order.quantity,
                           entryFees |-> fees, entryBar |-> i,
                           highest |-> price, stop |-> StopLoss(price),
                           take |-> TakeProfit(price)]
           /\ UNCHANGED <<realizedPnl, trades>>

OpenPosition(order, price) ==
  LET fees == CalculateFees(price, order.quantity)
      cost == Value(price, order.quantity) + fees
  IN  IF position # NONE \/ cost > cash
      THEN UNCHANGED <<totals, position>>      \* refused with a log line only
      ELSE /\ cash' = cash - cost
           /\ totalFees' = totalFees + fees
           /\ position' = [entryPrice |-> price, quantity |-> order.quantity,
                           entryFees |-> fees, entryBar |-> i,
                           highest |-> price, stop |-> StopLoss(price),
                           take |-> TakeProfit(price)]
           /\ UNCHANGED <<realizedPnl, trades>>

\* Broken variant: the entry fees are left out of the realized profit.
ClosePosition_ForgetsEntryFees(price, reason) ==
  LET p    == position
      fees == CalculateFees(price, p.quantity)
      net  == Value(price - p.entryPrice, p.quantity) - fees
  IN  /\ cash' = cash + Value(price, p.quantity) - fees
      /\ realizedPnl' = realizedPnl + net
      /\ totalFees' = totalFees + fees
      /\ trades' = trades \union
           {[entryBar |-> p.entryBar, exitBar |-> i, exitPrice |-> price,
             quantity |-> p.quantity, fees |-> p.entryFees + fees,
             netPnl |-> net, reason |-> reason]}
      /\ position' = NONE

ClosePosition(price, reason) ==
  LET p    == position
      fees == CalculateFees(price, p.quantity)
      net  == Value(price - p.entryPrice, p.quantity) - (p.entryFees + fees)
  IN  /\ cash' = cash + Value(price, p.quantity) - fees
      /\ realizedPnl' = realizedPnl + net
      /\ totalFees' = totalFees + fees
      /\ trades' = trades \union
           {[entryBar |-> p.entryBar, exitBar |-> i, exitPrice |-> price,
             quantity |-> p.quantity, fees |-> p.entryFees + fees,
             netPnl |-> net, reason |-> reason]}
      /\ position' = NONE

\* The immediate sale every risk rule ends in: it also empties the queue.
ExecuteRiskExit(price, reason) ==
  /\ ClosePosition(SlippedSell(price), reason)
  /\ pending' = {}

-----------------------------------------------------------------------------
(* Order submission                                                        *)

PositionSize(c) ==
  LET usable == IF PositionSizePct <= MaxPositionSizePct THEN PositionSizePct
                ELSE MaxPositionSizePct
      atRisk == IF StopLossPct = NONE           \* stop_loss_pct or 0.02
                THEN (cash * MaxRiskPerTradePct * 50) \div Px(c * Den * Den)
                ELSE (cash * MaxRiskPerTradePct) \div Px(c * StopLossPct * Den)
      most   == (cash * MaxPositionSizePct) \div Px(c * Den * Den)
  IN  CASE PositionSizing = "fixed_quantity" -> FixedQuantity
        [] PositionSizing = "percent_of_equity" ->
             (cash * usable) \div (UnitCost(c) * Den)
        [] PositionSizing = "risk_based" ->
             IF atRisk <= most THEN atRisk ELSE most

\* The quantity of a new buy order: the size asked for, or what cash affords.
BuyQuantity(c) ==
  IF PositionSize(c) * UnitCost(c) > cash THEN cash \div UnitCost(c)
  ELSE PositionSize(c)

SubmitBuy ==
  IF killed \/ position # NONE \/ BuyQuantity(bar.close) <= 0
  THEN UNCHANGED pending
  ELSE pending' = pending \union
         {[side |-> "buy", quantity |-> BuyQuantity(bar.close),
           signalPrice |-> bar.close, timestamp |-> i]}

SubmitSell ==
  IF position = NONE THEN UNCHANGED pending
  ELSE pending' = pending \union
         {[side |-> "sell", quantity |-> position.quantity,
           signalPrice |-> bar.close, timestamp |-> i]}

-----------------------------------------------------------------------------
(* The loop of BacktestEngine.run                                          *)

Init ==
  /\ i = 0
  /\ bar \in Bars
  /\ pc = "risk_exits"
  /\ cash = InitialCapital * Den * Den * Den * Den
  /\ realizedPnl = 0
  /\ totalFees = 0
  /\ peakValue = cash
  /\ position = NONE
  /\ trades = {}
  /\ equity = cash
  /\ pending = {}
  /\ killed = FALSE

\* Step 1 when the position is stopped out: the trailing stop is raised by
\* this bar's high before the bar's open and low are compared with it.
StopLossExit ==
  /\ pc = "risk_exits"
  /\ position # NONE
  /\ CheckStopLoss(UpdateTrailingStop) # NONE
  /\ ExecuteRiskExit(CheckStopLoss(UpdateTrailingStop), "stop_loss")
  /\ pc' = "pending_orders"
  /\ UNCHANGED <<i, bar, peakValue, equity, killed>>

TakeProfitExit ==
  /\ pc = "risk_exits"
  /\ position # NONE
  /\ CheckStopLoss(UpdateTrailingStop) = NONE
  /\ CheckTakeProfit(UpdateTrailingStop) # NONE
  /\ ExecuteRiskExit(CheckTakeProfit(UpdateTrailingStop), "take_profit")
  /\ pc' = "pending_orders"
  /\ UNCHANGED <<i, bar, peakValue, equity, killed>>

\* drawdown_pct >= max_drawdown_kill_pct at the close of the current bar.
DrawdownReached ==
  /\ MaxDrawdownKillPct # NONE
  /\ (peakValue - TotalValue(Px(bar.close))) * Den
       >= peakValue * MaxDrawdownKillPct

NoPriceExit ==
  /\ pc = "risk_exits"
  /\ position # NONE
  /\ CheckStopLoss(UpdateTrailingStop) = NONE
  /\ CheckTakeProfit(UpdateTrailingStop) = NONE

DrawdownKill ==
  /\ NoPriceExit
  /\ DrawdownReached
  /\ killed' = TRUE
  /\ ExecuteRiskExit(Px(bar.close), "drawdown_kill")
  /\ pc' = "pending_orders"
  /\ UNCHANGED <<i, bar, peakValue, equity>>

HoldPosition ==
  /\ NoPriceExit
  /\ ~DrawdownReached
  /\ position' = UpdateTrailingStop
  /\ pc' = "pending_orders"
  /\ UNCHANGED <<i, bar, totals, peakValue, equity, pending, killed>>

NoPositionAtRisk ==
  /\ pc = "risk_exits"
  /\ position = NONE
  /\ pc' = "pending_orders"
  /\ UNCHANGED <<i, bar, totals, peakValue, position, equity, pending, killed>>

\* Market orders fill at the open of the bar they are processed on; in
\* same-bar mode the engine processes them again on a bar opening at the close.
Filling == pc \in {"pending_orders", "fill_at_close"}
FillBase == IF pc = "pending_orders" THEN Px(bar.open) ELSE Px(bar.close)

Sells == {o \in pending : o.side = "sell"}
Buys  == {o \in pending : o.side = "buy"}
Oldest(orders) == {o \in orders : \A q \in orders : o.timestamp <= q.timestamp}

FillSell ==
  /\ Filling
  /\ \E o \in Oldest(Sells) :
       /\ pending' = pending \ {o}
       /\ IF position # NONE
          THEN ClosePosition(SlippedSell(FillBase), "strategy_sell")
          ELSE UNCHANGED <<totals, position>>
  /\ UNCHANGED <<i, bar, pc, peakValue, equity, killed>>

FillBuy ==
  /\ Filling
  /\ Sells = {}
  /\ \E o \in Oldest(Buys) :
       /\ pending' = pending \ {o}
       /\ OpenPosition(o, SlippedBuy(FillBase))
  /\ UNCHANGED <<i, bar, pc, peakValue, equity, killed>>

OrdersProcessed ==
  /\ Filling
  /\ pending = {}
  /\ pc' = IF pc = "pending_orders" THEN "square_off" ELSE "record"
  /\ UNCHANGED <<i, bar, totals, peakValue, position, equity, pending, killed>>

\* Broken variant: only the last bar of the data counts as a session's last.
SquareOffDue_LastBarOnly == ForceSquareOff /\ i = NumBars - 1

\* Step 2b and the kill check of step 3.
SquareOffDue ==
  ForceSquareOff /\ (i \in SessionLast \/ i = NumBars - 1)

SquareOff ==
  /\ pc = "square_off"
  /\ IF position # NONE /\ SquareOffDue
     THEN ExecuteRiskExit(Px(bar.close), "session_close")
     ELSE UNCHANGED <<totals, position, pending>>
  /\ pc' = IF killed THEN "record" ELSE "signal"
  /\ UNCHANGED <<i, bar, peakValue, equity, killed>>

\* Broken variant: every order is filled at the close it was computed from.
HandleSignal_FillsAtClose ==
  /\ pc = "signal"
  /\ \/ i \in EntryBars /\ SubmitBuy
     \/ SubmitSell
     \/ UNCHANGED pending
  /\ pc' = "fill_at_close"
  /\ UNCHANGED <<i, bar, totals, peakValue, position, equity, killed>>

\* Steps 4 and 5: the strategy may answer BUY, SELL (or EXIT) or HOLD.
HandleSignal ==
  /\ pc = "signal"
  /\ \/ i \in EntryBars /\ SubmitBuy
     \/ SubmitSell
     \/ UNCHANGED pending
  /\ pc' = IF ExecutionMode = "same_bar_close" THEN "fill_at_close"
           ELSE "record"
  /\ UNCHANGED <<i, bar, totals, peakValue, position, equity, killed>>

RecordState ==
  /\ pc = "record"
  /\ equity' = TotalValue(Px(bar.close))
  /\ peakValue' = IF equity' > peakValue THEN equity' ELSE peakValue
  /\ IF i < NumBars - 1
     THEN i' = i + 1 /\ bar' \in Bars /\ pc' = "risk_exits"
     ELSE UNCHANGED <<i, bar>> /\ pc' = "end"
  /\ UNCHANGED <<totals, position, pending, killed>>

EndOfBacktest ==
  /\ pc = "end"
  /\ IF ClosePositionsAtEnd /\ position # NONE
     THEN /\ ExecuteRiskExit(Px(bar.close), "end_of_backtest")
          /\ equity' = cash'
     ELSE UNCHANGED <<totals, position, pending, equity>>
  /\ pc' = "done"
  /\ UNCHANGED <<i, bar, peakValue, killed>>

Next ==
  \/ StopLossExit \/ TakeProfitExit \/ DrawdownKill
  \/ HoldPosition \/ NoPositionAtRisk
  \/ FillSell \/ FillBuy \/ OrdersProcessed
  \/ SquareOff \/ HandleSignal \/ RecordState \/ EndOfBacktest

Spec == Init /\ [][Next]_vars

-----------------------------------------------------------------------------
(* Types                                                                   *)

TypeOK ==
  /\ i \in 0 .. NumBars - 1
  /\ bar \in Bars
  /\ pc \in {"risk_exits", "pending_orders", "square_off", "signal",
             "fill_at_close", "record", "end", "done"}
  /\ {cash, realizedPnl, totalFees, peakValue, equity} \subseteq Int
  /\ position \in Position \union {NONE}
  /\ trades \subseteq Trade
  /\ pending \subseteq Order
  /\ killed \in BOOLEAN

-----------------------------------------------------------------------------
(* Safety                                                                  *)

BookValue ==
  IF position = NONE THEN 0
  ELSE Value(position.entryPrice, position.quantity) + position.entryFees

\* The portfolio implements the account: entry and exit fees, the cash and
\* the realized profit always tell one story (open_position, close_position).
Account == INSTANCE TradingAccount
             WITH Initial <- InitialCapital * Den * Den * Den * Den,
                  book <- BookValue, realized <- realizedPnl

ImplementsAccount == Account!Spec
Balanced == Account!Balanced

\* A purchase is never made on credit: open_position's second look at the
\* cash holds although the order was sized at another price, a bar earlier.
NeverOverdrawn == cash >= 0

\* The queue and the portfolio agree although risk exits bypass the queue:
\* at most one order waits, a buy only while flat, a sell only for exactly
\* the quantity held, so no filled sell finds the position already gone.
PendingMatchesPosition ==
  /\ \A o, q \in pending : o = q
  /\ \A o \in pending :
       IF o.side = "buy" THEN position = NONE
       ELSE position # NONE /\ o.quantity = position.quantity

\* Once the drawdown kill switch has fired nothing trades again: no position,
\* no order in the queue, not a cent moving (is_killed in run and submit_buy).
KilledIsFlat == killed => position = NONE /\ pending = {}

\* All of that at once, between any two steps of the engine: risk exits, the kill
\* switch and the square-off sell past the queue, and still the ledger balances,
\* nothing is bought on credit, and no order waits for a position that is gone.
LedgerAndQueueAgree ==
  Balanced /\ NeverOverdrawn /\ PendingMatchesPosition /\ KilledIsFlat

\* The kill switch is final (is_killed in run and submit_buy).
FrozenAfterKill ==
  [][killed => UNCHANGED <<killed, totals, position, pending>>]_vars

Entering == position = NONE /\ position' # NONE

\* In next-bar mode a position is entered only at the open of a bar later
\* than the one whose close the signal was computed from: no lookahead.
NoLookahead ==
  [][Entering => /\ \E o \in pending : o.side = "buy" /\ o.timestamp < i
                 /\ position'.entryPrice = SlippedBuy(Px(bar.open))]_vars

\* Every exit is made at a price the exit bar traded at, less slippage,
\* however far the stop or the target lay outside the bar.
ExitWithinBar ==
  \A t \in trades :
    t.exitBar = i => /\ t.exitPrice >= SlippedSell(Px(bar.low))
                     /\ t.exitPrice <= SlippedSell(Px(bar.high))

\* With forced square-off no trade spans the end of a session.
TradesWithinSession ==
  ForceSquareOff =>
    \A t \in trades : \A s \in SessionLast : ~(t.entryBar <= s /\ s < t.exitBar)

\* Both, for every trade in the book: when it was closed, and at what price.
ExitsAreReal == ExitWithinBar /\ TradesWithinSession
=============================================================================
