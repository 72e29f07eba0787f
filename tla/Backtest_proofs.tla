-------------------------- MODULE Backtest_proofs --------------------------
(***************************************************************************)
(* What holds of the backtest for every feed, configuration and length:    *)
(* the inductive invariant behind its safety properties, and the proof     *)
(* that it implements TradingAccount.  Then the orders sent to a broker,   *)
(* for every set of calls and words of the environment.                    *)
(***************************************************************************)
EXTENDS Backtest, LiveOrders, TLAPS

-----------------------------------------------------------------------------
(* Arithmetic of prices and money                                          *)

\* A bar price is a positive number of price units.
LEMMA PxPositive == ASSUME NEW x \in Nat \ {0} PROVE Px(x) \in Nat \ {0}
  BY RateAssumption DEF Px

\* Fees are never negative and never exceed the value of the trade.
LEMMA FeesBounded ==
  ASSUME NEW x \in Nat, NEW q \in Nat
  PROVE  /\ CalculateFees(x, q) \in Nat
         /\ Value(x, q) \in Nat
         /\ CalculateFees(x, q) <= Value(x, q)
  BY RateAssumption DEF CalculateFees, Value

\* A purchase at a positive price costs something.
LEMMA CostPositive ==
  ASSUME NEW x \in Nat \ {0}, NEW q \in Nat \ {0}
  PROVE  Value(x, q) \in Nat \ {0}
  BY RateAssumption DEF Value

\* Slippage is at most the price itself.
LEMMA SlippageBounded ==
  ASSUME NEW x \in Nat
  PROVE  (x * SlippageRate) \div Den \in 0 .. x
  BY RateAssumption

LEMMA SlippedPrices ==
  ASSUME NEW x \in Nat
  PROVE  /\ SlippedSell(x) \in Nat
         /\ x > 0 => SlippedBuy(x) \in Nat \ {0}
  BY SlippageBounded DEF SlippedSell, SlippedBuy

\* The levels attached to a position are integers or absent.
LEMMA LevelTypes ==
  ASSUME NEW x \in Nat
  PROVE  /\ StopLoss(x) \in Int \union {NONE}
         /\ TakeProfit(x) \in Int \union {NONE}
  BY RateAssumption DEF StopLoss, TakeProfit

-----------------------------------------------------------------------------
(* The inductive invariant                                                 *)

\* Everything queued for a bar is filled before the bar's signal is asked for.
QueueDrained == pc \in {"square_off", "signal"} => pending = {}

\* The killed engine never reaches the strategy again.
KilledNeverSignals == killed => pc \notin {"signal", "fill_at_close"}

IInv ==
  /\ TypeOK
  /\ Balanced
  /\ NeverOverdrawn
  /\ PendingMatchesPosition
  /\ KilledIsFlat
  /\ QueueDrained
  /\ KilledNeverSignals

\* What the portfolio operations need to know of the account and preserve.
AccountOK ==
  /\ {cash, realizedPnl, totalFees} \subseteq Int
  /\ trades \subseteq Trade
  /\ position \in Position \union {NONE}
  /\ Balanced
  /\ NeverOverdrawn

LEMMA InvAccountOK == IInv => AccountOK
  BY DEF IInv, TypeOK, AccountOK

\* The bar's prices, as the levels are compared with them.
LEMMA BarPrices ==
  ASSUME TypeOK
  PROVE  /\ Px(bar.open) \in Nat \ {0}
         /\ Px(bar.low) \in Nat \ {0}
         /\ Px(bar.high) \in Nat \ {0}
         /\ Px(bar.close) \in Nat \ {0}
         /\ bar.close \in Nat \ {0}
<1>1. bar \in Bar /\ 0 < bar.low /\ bar.low <= bar.open /\ bar.open <= bar.high
      /\ bar.low <= bar.close
  BY DataAssumption DEF TypeOK
<1>2. \A x \in {bar.open, bar.low, bar.high, bar.close} : x \in Nat \ {0}
  BY <1>1 DEF Bar
<1> QED BY <1>2, PxPositive

\* Closing a position at any price keeps the account sound and flat.
LEMMA CloseKeepsAccount ==
  ASSUME AccountOK, i \in Nat, position # NONE,
         NEW price \in Nat, NEW reason \in Reason,
         ClosePosition(price, reason)
  PROVE  AccountOK' /\ position' = NONE /\ cash' >= cash
<1> DEFINE p == position
           fees == CalculateFees(price, p.quantity)
           net == Value(price - p.entryPrice, p.quantity) - (p.entryFees + fees)
<1>1. p \in Position
  BY DEF AccountOK
<1>2. /\ p.quantity \in Nat \ {0} /\ p.entryPrice \in Nat \ {0}
      /\ p.entryFees \in Nat /\ p.entryBar \in Nat
  BY <1>1 DEF Position
<1>3. fees \in Nat /\ Value(price, p.quantity) \in Nat
      /\ fees <= Value(price, p.quantity)
  BY <1>2, FeesBounded
<1>4. Value(p.entryPrice, p.quantity) \in Nat
  BY <1>2, FeesBounded
<1>5. net = Value(price, p.quantity) - Value(p.entryPrice, p.quantity)
              - (p.entryFees + fees)
  <2>1. Value(price - p.entryPrice, p.quantity)
          = Value(price, p.quantity) - Value(p.entryPrice, p.quantity)
    BY <1>2, RateAssumption DEF Value
  <2> HIDE DEF fees
  <2> QED BY <2>1, <1>2, <1>3, <1>4
<1>6. /\ cash' = cash + Value(price, p.quantity) - fees
      /\ realizedPnl' = realizedPnl + net
      /\ totalFees' = totalFees + fees
      /\ position' = NONE
  BY DEF ClosePosition
<1>7. cash \in Int /\ realizedPnl \in Int /\ totalFees \in Int /\ cash >= 0
  BY DEF AccountOK, NeverOverdrawn
<1>8. trades' \subseteq Trade
  <2>1. [entryBar |-> p.entryBar, exitBar |-> i, exitPrice |-> price,
         quantity |-> p.quantity, fees |-> p.entryFees + fees,
         netPnl |-> net, reason |-> reason] \in Trade
    BY <1>2, <1>3, <1>4, <1>5 DEF Trade
  <2> QED BY <2>1 DEF ClosePosition, AccountOK
<1>9. Balanced'
  <2> DEFINE start == InitialCapital * Den * Den * Den * Den
  <2>1. cash + Value(p.entryPrice, p.quantity) + p.entryFees
          = start + realizedPnl
    BY <1>2, <1>4, <1>7 DEF AccountOK, Balanced, Account!Balanced, BookValue
  <2>2. start \in Int
    BY ConfigAssumption, RateAssumption
  <2>3. cash' + 0 = start + realizedPnl'
    <3> HIDE DEF start, fees, net
    <3> QED BY <1>2, <1>3, <1>4, <1>5, <1>6, <1>7, <2>1, <2>2
  <2> QED BY <1>6, <2>3 DEF Balanced, Account!Balanced, BookValue
<1> QED
  <2> HIDE DEF fees, net
  <2> QED BY <1>2, <1>3, <1>4, <1>5, <1>6, <1>7, <1>8, <1>9
          DEF AccountOK, NeverOverdrawn

\* Opening a position, or refusing to, keeps the account sound.
LEMMA OpenKeepsAccount ==
  ASSUME AccountOK, i \in Nat, position = NONE,
         NEW price \in Nat \ {0}, NEW order \in Order,
         OpenPosition(order, price)
  PROVE  AccountOK'
<1> DEFINE fees == CalculateFees(price, order.quantity)
           cost == Value(price, order.quantity) + fees
<1>1. order.quantity \in Nat \ {0}
  BY DEF Order
<1>2. fees \in Nat /\ Value(price, order.quantity) \in Nat
  BY <1>1, FeesBounded
<1>3. cash \in Int /\ realizedPnl \in Int /\ totalFees \in Int
  BY DEF AccountOK
<1>4. CASE cost > cash
  <2>1. UNCHANGED <<totals, position>>
    BY <1>4 DEF OpenPosition
  <2> QED BY <2>1 DEF totals, AccountOK, Balanced, Account!Balanced, BookValue,
                      NeverOverdrawn
<1>5. CASE ~(cost > cash)
  <2> DEFINE opened == [entryPrice |-> price, quantity |-> order.quantity,
                        entryFees |-> fees, entryBar |-> i,
                        highest |-> price, stop |-> StopLoss(price),
                        take |-> TakeProfit(price)]
  <2>1. /\ cash' = cash - cost
        /\ totalFees' = totalFees + fees
        /\ position' = opened
        /\ UNCHANGED <<realizedPnl, trades>>
    BY <1>5 DEF OpenPosition
  <2>2. opened \in Position
    BY <1>1, <1>2, LevelTypes DEF Position
  <2>3. position' # NONE
    BY <2>1, <2>2, RateAssumption
  <2>4. Balanced'
    <3> DEFINE start == InitialCapital * Den * Den * Den * Den
    <3>1. start \in Int
      BY ConfigAssumption, RateAssumption
    <3>2. cash = start + realizedPnl
      <4>1. cash + 0 = start + realizedPnl
        BY DEF AccountOK, Balanced, Account!Balanced, BookValue
      <4> HIDE DEF start
      <4> QED BY <4>1, <1>3
    <3>3. BookValue' = cost
      BY <2>1, <2>3 DEF BookValue
    <3>4. cash' + BookValue' = start + realizedPnl'
      <4> HIDE DEF start, fees
      <4> QED BY <3>1, <3>2, <3>3, <2>1, <1>2, <1>3
    <3> QED BY <3>4 DEF Balanced, Account!Balanced
  <2>5. cash' \in Int /\ totalFees' \in Int /\ cash' >= 0
    <3> HIDE DEF fees
    <3> QED BY <1>2, <1>3, <1>5, <2>1
  <2> QED BY <2>1, <2>2, <2>4, <2>5 DEF AccountOK, NeverOverdrawn
<1> QED BY <1>4, <1>5

-----------------------------------------------------------------------------
(* Levels and exits                                                        *)

\* Feeding the bar's high to a position leaves what it is worth alone.
LEMMA TrailingKeepsPosition ==
  ASSUME TypeOK, position # NONE
  PROVE  /\ UpdateTrailingStop \in Position
         /\ UpdateTrailingStop.quantity = position.quantity
         /\ UpdateTrailingStop.entryPrice = position.entryPrice
         /\ UpdateTrailingStop.entryFees = position.entryFees
         /\ UpdateTrailingStop.entryBar = position.entryBar
<1> DEFINE top == IF Px(bar.high) > position.highest THEN Px(bar.high)
                  ELSE position.highest
           trail == (top * (Den - TrailingStopPct)) \div Den
<1>1. position \in Position
  BY DEF TypeOK
<1>2. top \in Nat
  BY <1>1, BarPrices DEF Position
<1>3. CASE TrailingStopPct = NONE
  BY <1>1, <1>3 DEF UpdateTrailingStop
<1>4. CASE TrailingStopPct # NONE
  <2>1. trail \in Int
    <3>1. TrailingStopPct \in Nat /\ Den \in Nat \ {0}
      BY <1>4, RateAssumption
    <3>2. top * (Den - TrailingStopPct) \in Int
      <4> HIDE DEF top
      <4> QED BY <3>1, <1>2
    <3> HIDE DEF top
    <3> QED BY <3>1, <3>2
  <2>2. UpdateTrailingStop \in {[position EXCEPT !.highest = top, !.stop = trail],
                                [position EXCEPT !.highest = top]}
    BY <1>4 DEF UpdateTrailingStop
  <2> HIDE DEF top, trail
  <2> QED BY <1>1, <1>2, <2>1, <2>2 DEF Position
<1> QED BY <1>3, <1>4

\* A stop or a target is left at a price that is not negative.
LEMMA ExitPrices ==
  ASSUME TypeOK, NEW p \in Position
  PROVE  /\ CheckStopLoss(p) \in Nat \union {NONE}
         /\ CheckTakeProfit(p) \in Nat \union {NONE}
<1>1. p.stop \in Int \union {NONE} /\ p.take \in Int \union {NONE}
  BY DEF Position
<1>2. CheckStopLoss(p) \in Nat \union {NONE}
  BY <1>1, BarPrices DEF CheckStopLoss
<1>3. CheckTakeProfit(p) \in Nat \union {NONE}
  BY <1>1, BarPrices DEF CheckTakeProfit
<1> QED BY <1>2, <1>3

-----------------------------------------------------------------------------
(* The invariant is inductive                                              *)

LEMMA InitEstablishes == Init => IInv
<1> SUFFICES ASSUME Init PROVE IInv
  OBVIOUS
<1>1. cash \in Nat
  BY ConfigAssumption, RateAssumption DEF Init
<1>2. TypeOK
  <2>1. {cash, realizedPnl, totalFees, peakValue, equity} \subseteq Int
    BY <1>1 DEF Init
  <2>2. i \in 0 .. NumBars - 1
    BY DataAssumption DEF Init
  <2> QED BY <2>1, <2>2 DEF Init, TypeOK
<1>3. Balanced /\ NeverOverdrawn
  BY <1>1 DEF Init, Balanced, Account!Balanced, BookValue, NeverOverdrawn
<1> QED BY <1>2, <1>3 DEF Init, IInv, PendingMatchesPosition, KilledIsFlat,
                          QueueDrained, KilledNeverSignals

\* A risk exit leaves the account sound, flat and without orders.
LEMMA RiskExit ==
  ASSUME IInv, position # NONE, NEW price \in Nat, NEW reason \in Reason,
         ExecuteRiskExit(price, reason)
  PROVE  /\ AccountOK'
         /\ position' = NONE
         /\ pending' = {}
         /\ cash' >= cash
<1>1. AccountOK /\ i \in Nat
  BY InvAccountOK DEF IInv, TypeOK
<1>2. SlippedSell(price) \in Nat
  BY SlippedPrices
<1>3. ClosePosition(SlippedSell(price), reason) /\ pending' = {}
  BY DEF ExecuteRiskExit
<1>4. AccountOK' /\ position' = NONE /\ cash' >= cash
  BY <1>1, <1>2, <1>3, CloseKeepsAccount
<1> QED BY <1>3, <1>4

\* A flat state with an empty queue satisfies the invariant wherever the loop
\* stands, provided a killed engine does not stand at the strategy.
LEMMA FlatAndEmpty ==
  ASSUME AccountOK', position' = NONE, pending' = {},
         i' \in 0 .. NumBars - 1, bar' \in Bars, killed' \in BOOLEAN,
         {peakValue', equity'} \subseteq Int,
         pc' \in {"risk_exits", "pending_orders", "square_off", "signal",
                  "fill_at_close", "record", "end", "done"},
         killed' => pc' \notin {"signal", "fill_at_close"}
  PROVE  IInv'
BY DEF AccountOK, IInv, TypeOK, PendingMatchesPosition, KilledIsFlat,
       QueueDrained, KilledNeverSignals

LEMMA StopLossExitKeeps == IInv /\ StopLossExit => IInv'
<1> SUFFICES ASSUME IInv, StopLossExit PROVE IInv'
  OBVIOUS
<1> DEFINE price == CheckStopLoss(UpdateTrailingStop)
<1>1. TypeOK /\ position # NONE
  BY DEF IInv, StopLossExit
<1>2. price \in Nat
  BY <1>1, TrailingKeepsPosition, ExitPrices DEF StopLossExit
<1>3. ExecuteRiskExit(price, "stop_loss")
  BY DEF StopLossExit
<1>4. AccountOK' /\ position' = NONE /\ pending' = {}
  <2> HIDE DEF price
  <2> QED BY <1>1, <1>2, <1>3, RiskExit DEF Reason
<1> QED BY <1>1, <1>4, FlatAndEmpty DEF StopLossExit, TypeOK

LEMMA TakeProfitExitKeeps == IInv /\ TakeProfitExit => IInv'
<1> SUFFICES ASSUME IInv, TakeProfitExit PROVE IInv'
  OBVIOUS
<1> DEFINE price == CheckTakeProfit(UpdateTrailingStop)
<1>1. TypeOK /\ position # NONE
  BY DEF IInv, TakeProfitExit
<1>2. price \in Nat
  BY <1>1, TrailingKeepsPosition, ExitPrices DEF TakeProfitExit
<1>3. ExecuteRiskExit(price, "take_profit")
  BY DEF TakeProfitExit
<1>4. AccountOK' /\ position' = NONE /\ pending' = {}
  <2> HIDE DEF price
  <2> QED BY <1>1, <1>2, <1>3, RiskExit DEF Reason
<1> QED BY <1>1, <1>4, FlatAndEmpty DEF TakeProfitExit, TypeOK

LEMMA DrawdownKillKeeps == IInv /\ DrawdownKill => IInv'
<1> SUFFICES ASSUME IInv, DrawdownKill PROVE IInv'
  OBVIOUS
<1>1. TypeOK /\ position # NONE
  BY DEF IInv, DrawdownKill, NoPriceExit
<1>2. Px(bar.close) \in Nat
  BY <1>1, BarPrices
<1>3. ExecuteRiskExit(Px(bar.close), "drawdown_kill")
  BY DEF DrawdownKill
<1>4. AccountOK' /\ position' = NONE /\ pending' = {}
  BY <1>1, <1>2, <1>3, RiskExit DEF Reason
<1> QED BY <1>1, <1>4, FlatAndEmpty DEF DrawdownKill, TypeOK

LEMMA HoldPositionKeeps == IInv /\ HoldPosition => IInv'
<1> SUFFICES ASSUME IInv, HoldPosition PROVE IInv'
  OBVIOUS
<1>1. TypeOK /\ position # NONE /\ position' = UpdateTrailingStop
  BY DEF IInv, HoldPosition, NoPriceExit
<1>2. /\ position' \in Position
      /\ position'.quantity = position.quantity
      /\ position'.entryPrice = position.entryPrice
      /\ position'.entryFees = position.entryFees
  BY <1>1, TrailingKeepsPosition
<1>3. position' # NONE
  BY <1>2, RateAssumption
<1>4. UNCHANGED <<i, bar, cash, realizedPnl, totalFees, trades, peakValue,
                  equity, pending, killed>> /\ pc' = "pending_orders"
  BY DEF HoldPosition, totals
<1>5. TypeOK'
  BY <1>1, <1>2, <1>4 DEF TypeOK
<1>6. Balanced' /\ NeverOverdrawn'
  BY <1>1, <1>2, <1>3, <1>4
     DEF IInv, Balanced, Account!Balanced, BookValue, NeverOverdrawn
<1>7. PendingMatchesPosition' /\ KilledIsFlat'
  BY <1>1, <1>2, <1>3, <1>4 DEF IInv, PendingMatchesPosition, KilledIsFlat
<1> QED BY <1>4, <1>5, <1>6, <1>7 DEF IInv, QueueDrained, KilledNeverSignals

\* Nothing the account consists of changes.
Idle == UNCHANGED <<cash, realizedPnl, totalFees, trades, position>>

LEMMA IdleKeepsAccount == AccountOK /\ Idle => AccountOK'
  BY DEF Idle, AccountOK, Balanced, Account!Balanced, BookValue, NeverOverdrawn

LEMMA FillSellKeeps == IInv /\ FillSell => IInv'
<1> SUFFICES ASSUME IInv, FillSell PROVE IInv'
  OBVIOUS
<1>1. PICK o \in Oldest(Sells) :
        /\ pending' = pending \ {o}
        /\ IF position # NONE
           THEN ClosePosition(SlippedSell(FillBase), "strategy_sell")
           ELSE UNCHANGED <<totals, position>>
  BY DEF FillSell
<1>2. o \in pending /\ o.side = "sell"
  BY DEF Oldest, Sells
<1>3. position # NONE /\ pending' = {}
  BY <1>1, <1>2 DEF IInv, PendingMatchesPosition
<1>4. SlippedSell(FillBase) \in Nat
  BY BarPrices, SlippedPrices DEF IInv, FillBase
<1>5. AccountOK' /\ position' = NONE
  BY <1>1, <1>3, <1>4, InvAccountOK, CloseKeepsAccount
     DEF IInv, TypeOK, Reason
<1> QED BY <1>3, <1>5, FlatAndEmpty
        DEF FillSell, IInv, TypeOK, KilledNeverSignals

LEMMA FillBuyKeeps == IInv /\ FillBuy => IInv'
<1> SUFFICES ASSUME IInv, FillBuy PROVE IInv'
  OBVIOUS
<1>1. PICK o \in Oldest(Buys) :
        pending' = pending \ {o} /\ OpenPosition(o, SlippedBuy(FillBase))
  BY DEF FillBuy
<1>2. o \in pending /\ o.side = "buy"
  BY DEF Oldest, Buys
<1>3. position = NONE /\ pending' = {} /\ o \in Order /\ ~killed
  BY <1>1, <1>2
     DEF IInv, PendingMatchesPosition, TypeOK, KilledIsFlat
<1>4. SlippedBuy(FillBase) \in Nat \ {0}
  BY BarPrices, SlippedPrices DEF IInv, FillBase
<1>5. AccountOK'
  BY <1>1, <1>3, <1>4, InvAccountOK, OpenKeepsAccount DEF IInv, TypeOK
<1>6. UNCHANGED <<i, bar, pc, peakValue, equity, killed>>
  BY DEF FillBuy
<1>7. TypeOK'
  BY <1>3, <1>5, <1>6 DEF IInv, TypeOK, AccountOK
<1> QED BY <1>3, <1>5, <1>6, <1>7
        DEF IInv, AccountOK, PendingMatchesPosition, KilledIsFlat,
            QueueDrained, KilledNeverSignals

LEMMA OrdersProcessedKeeps == IInv /\ OrdersProcessed => IInv'
<1> SUFFICES ASSUME IInv, OrdersProcessed PROVE IInv'
  OBVIOUS
<1>1. AccountOK'
  BY InvAccountOK, IdleKeepsAccount DEF OrdersProcessed, totals, Idle
<1>2. pending' = {} /\ killed' = killed /\ position' = position
      /\ pc' \in {"square_off", "record"}
      /\ UNCHANGED <<i, bar, peakValue, equity>>
  BY DEF OrdersProcessed
<1> QED BY <1>1, <1>2
        DEF IInv, AccountOK, TypeOK, PendingMatchesPosition, KilledIsFlat,
            QueueDrained, KilledNeverSignals

LEMMA NoPositionAtRiskKeeps == IInv /\ NoPositionAtRisk => IInv'
<1> SUFFICES ASSUME IInv, NoPositionAtRisk PROVE IInv'
  OBVIOUS
<1>1. AccountOK'
  BY InvAccountOK, IdleKeepsAccount DEF NoPositionAtRisk, totals, Idle
<1>2. pc' = "pending_orders"
      /\ UNCHANGED <<i, bar, peakValue, equity, pending, killed, position>>
  BY DEF NoPositionAtRisk
<1> QED BY <1>1, <1>2
        DEF IInv, AccountOK, TypeOK, PendingMatchesPosition, KilledIsFlat,
            QueueDrained, KilledNeverSignals

LEMMA SquareOffKeeps == IInv /\ SquareOff => IInv'
<1> SUFFICES ASSUME IInv, SquareOff PROVE IInv'
  OBVIOUS
<1>1. /\ UNCHANGED <<i, bar, peakValue, equity, killed>>
      /\ pc' = IF killed THEN "record" ELSE "signal"
      /\ pending = {}
  BY DEF SquareOff, IInv, QueueDrained
<1>2. CASE position # NONE /\ SquareOffDue
  <2>1. ExecuteRiskExit(Px(bar.close), "session_close")
    BY <1>2 DEF SquareOff
  <2>2. Px(bar.close) \in Nat
    BY BarPrices DEF IInv
  <2>3. AccountOK' /\ position' = NONE /\ pending' = {}
    BY <1>2, <2>1, <2>2, RiskExit DEF Reason
  <2> QED BY <1>1, <2>3, FlatAndEmpty DEF IInv, TypeOK
<1>3. CASE ~(position # NONE /\ SquareOffDue)
  <2>1. UNCHANGED <<totals, position, pending>>
    BY <1>3 DEF SquareOff
  <2>2. AccountOK'
    BY <2>1, InvAccountOK, IdleKeepsAccount DEF totals, Idle
  <2> QED BY <1>1, <2>1, <2>2
          DEF IInv, AccountOK, TypeOK, PendingMatchesPosition, KilledIsFlat,
              QueueDrained, KilledNeverSignals
<1> QED BY <1>2, <1>3

\* The size of a new order is an integer number of lots.
LEMMA BuyQuantityType ==
  ASSUME IInv PROVE BuyQuantity(bar.close) \in Int
<1>1. cash \in Int /\ bar.close \in Nat \ {0}
  BY BarPrices DEF IInv, TypeOK
<1>2. Den \in Nat \ {0} /\ FeeRate \in Nat /\ SlippageRate \in Nat
  BY RateAssumption
<1> DEFINE unit == UnitCost(bar.close)
<1>3. unit \in Nat \ {0}
  BY <1>1, <1>2 DEF UnitCost
<1>4. cash \div unit \in Int
  <2> HIDE DEF unit
  <2> QED BY <1>1, <1>3
<1>5. PositionSize(bar.close) \in Int
  <2> DEFINE usable == IF PositionSizePct <= MaxPositionSizePct
                       THEN PositionSizePct ELSE MaxPositionSizePct
             lot == Px(bar.close * Den * Den)
             atRisk == IF StopLossPct = NONE
                       THEN (cash * MaxRiskPerTradePct * 50) \div lot
                       ELSE (cash * MaxRiskPerTradePct)
                              \div Px(bar.close * StopLossPct * Den)
             most == (cash * MaxPositionSizePct) \div lot
  <2>1. lot \in Nat \ {0}
    BY <1>1, <1>2, PxPositive
  <2>2. /\ MaxRiskPerTradePct \in Nat /\ MaxPositionSizePct \in Nat
        /\ usable \in Nat
    BY RateAssumption
  <2>3. atRisk \in Int
    <3>1. CASE StopLossPct = NONE
      <4>1. cash * MaxRiskPerTradePct * 50 \in Int
        BY <1>1, <2>2
      <4> HIDE DEF lot
      <4> QED BY <3>1, <4>1, <2>1
    <3>2. CASE StopLossPct # NONE
      <4> DEFINE distance == Px(bar.close * StopLossPct * Den)
      <4>1. StopLossPct \in Nat \ {0}
        BY <3>2, RateAssumption
      <4>2. distance \in Nat \ {0}
        BY <4>1, <1>1, <1>2, PxPositive
      <4>3. cash * MaxRiskPerTradePct \in Int
        BY <1>1, <2>2
      <4> HIDE DEF distance
      <4>4. (cash * MaxRiskPerTradePct) \div distance \in Int
        BY <4>2, <4>3
      <4> QED BY <3>2, <4>4 DEF distance
    <3> QED BY <3>1, <3>2
  <2>4. most \in Int
    <3>1. cash * MaxPositionSizePct \in Int
      BY <1>1, <2>2
    <3> HIDE DEF lot
    <3> QED BY <2>1, <3>1
  <2>5. (cash * usable) \div (unit * Den) \in Int
    <3> HIDE DEF unit, usable
    <3>1. cash * usable \in Int /\ unit * Den \in Nat \ {0}
      BY <1>1, <1>2, <1>3, <2>2
    <3> QED BY <3>1
  <2>6. PositionSize(bar.close)
          \in {FixedQuantity, (cash * usable) \div (unit * Den), atRisk, most}
    BY ConfigAssumption DEF PositionSize
  <2> HIDE DEF unit, usable, atRisk, most, lot
  <2> QED BY <2>3, <2>4, <2>5, <2>6, ConfigAssumption
<1> QED BY <1>4, <1>5 DEF BuyQuantity

LEMMA HandleSignalKeeps == IInv /\ HandleSignal => IInv'
<1> SUFFICES ASSUME IInv, HandleSignal PROVE IInv'
  OBVIOUS
<1>1. /\ UNCHANGED <<i, bar, totals, peakValue, position, equity, killed>>
      /\ pc' \in {"fill_at_close", "record"}
      /\ pending = {}
      /\ ~killed
  BY DEF HandleSignal, IInv, QueueDrained, KilledNeverSignals
<1>2. AccountOK'
  BY <1>1, InvAccountOK, IdleKeepsAccount DEF totals, Idle
<1>3. i \in Nat /\ bar.close \in Nat \ {0}
  BY BarPrices DEF IInv, TypeOK
<1>4. pending' \subseteq Order /\ PendingMatchesPosition'
  <2>1. CASE UNCHANGED pending
    BY <1>1, <2>1 DEF PendingMatchesPosition
  <2>2. CASE SubmitBuy /\ pending' # pending
    <3> DEFINE o == [side |-> "buy", quantity |-> BuyQuantity(bar.close),
                     signalPrice |-> bar.close, timestamp |-> i]
    <3>1. pending' = {o} /\ position = NONE /\ BuyQuantity(bar.close) > 0
      BY <1>1, <2>2, BuyQuantityType DEF SubmitBuy
    <3>2. o \in Order
      BY <3>1, <1>3, BuyQuantityType DEF Order
    <3> QED BY <1>1, <3>1, <3>2 DEF PendingMatchesPosition
  <2>3. CASE SubmitSell /\ pending' # pending
    <3> DEFINE o == [side |-> "sell", quantity |-> position.quantity,
                     signalPrice |-> bar.close, timestamp |-> i]
    <3>1. pending' = {o} /\ position # NONE
      BY <1>1, <2>3 DEF SubmitSell
    <3>2. o \in Order
      BY <3>1, <1>3 DEF Order, Position, IInv, TypeOK
    <3> QED BY <1>1, <3>1, <3>2 DEF PendingMatchesPosition
  <2> QED BY <2>1, <2>2, <2>3 DEF HandleSignal
<1> QED BY <1>1, <1>2, <1>4
        DEF IInv, AccountOK, TypeOK, KilledIsFlat, QueueDrained,
            KilledNeverSignals

LEMMA RecordStateKeeps == IInv /\ RecordState => IInv'
<1> SUFFICES ASSUME IInv, RecordState PROVE IInv'
  OBVIOUS
<1>1. UNCHANGED <<totals, position, pending, killed>>
      /\ pc' \in {"risk_exits", "end"}
  BY DEF RecordState
<1>2. AccountOK'
  BY <1>1, InvAccountOK, IdleKeepsAccount DEF totals, Idle
<1>3. i' \in 0 .. NumBars - 1 /\ bar' \in Bars
  BY DataAssumption DEF RecordState, IInv, TypeOK
<1>4. equity' \in Int /\ peakValue' \in Int
  <2>1. TotalValue(Px(bar.close)) \in Int
    <3>1. CASE position = NONE
      BY <3>1 DEF TotalValue, IInv, TypeOK
    <3>2. CASE position # NONE
      <4>1. position.quantity \in Nat /\ Px(bar.close) \in Nat /\ cash \in Int
        BY <3>2, BarPrices DEF IInv, TypeOK, Position
      <4>2. Value(Px(bar.close), position.quantity) \in Nat
        BY <4>1, FeesBounded
      <4> QED BY <3>2, <4>1, <4>2 DEF TotalValue
    <3> QED BY <3>1, <3>2
  <2> QED BY <2>1 DEF RecordState, IInv, TypeOK
<1> QED BY <1>1, <1>2, <1>3, <1>4
        DEF IInv, AccountOK, TypeOK, PendingMatchesPosition, KilledIsFlat,
            QueueDrained, KilledNeverSignals

LEMMA EndOfBacktestKeeps == IInv /\ EndOfBacktest => IInv'
<1> SUFFICES ASSUME IInv, EndOfBacktest PROVE IInv'
  OBVIOUS
<1>1. UNCHANGED <<i, bar, peakValue, killed>> /\ pc' = "done"
  BY DEF EndOfBacktest
<1>2. CASE ClosePositionsAtEnd /\ position # NONE
  <2>1. ExecuteRiskExit(Px(bar.close), "end_of_backtest") /\ equity' = cash'
    BY <1>2 DEF EndOfBacktest
  <2>2. Px(bar.close) \in Nat
    BY BarPrices DEF IInv
  <2>3. AccountOK' /\ position' = NONE /\ pending' = {}
    BY <1>2, <2>1, <2>2, RiskExit DEF Reason
  <2> QED BY <1>1, <2>1, <2>3, FlatAndEmpty DEF IInv, TypeOK, AccountOK
<1>3. CASE ~(ClosePositionsAtEnd /\ position # NONE)
  <2>1. UNCHANGED <<totals, position, pending, equity>>
    BY <1>3 DEF EndOfBacktest
  <2>2. AccountOK'
    BY <2>1, InvAccountOK, IdleKeepsAccount DEF totals, Idle
  <2> QED BY <1>1, <2>1, <2>2
          DEF IInv, AccountOK, TypeOK, PendingMatchesPosition, KilledIsFlat,
              QueueDrained, KilledNeverSignals
<1> QED BY <1>2, <1>3

LEMMA StepKeeps == IInv /\ [Next]_vars => IInv'
<1> SUFFICES ASSUME IInv, [Next]_vars PROVE IInv'
  OBVIOUS
<1>1. CASE Next
  BY <1>1, StopLossExitKeeps, TakeProfitExitKeeps, DrawdownKillKeeps,
     HoldPositionKeeps, NoPositionAtRiskKeeps, FillSellKeeps, FillBuyKeeps,
     OrdersProcessedKeeps, SquareOffKeeps, HandleSignalKeeps, RecordStateKeeps,
     EndOfBacktestKeeps
     DEF Next
<1>2. CASE UNCHANGED vars
  BY <1>2
     DEF vars, totals, IInv, TypeOK, Balanced, Account!Balanced, BookValue,
         NeverOverdrawn, PendingMatchesPosition, KilledIsFlat, QueueDrained,
         KilledNeverSignals
<1> QED BY <1>1, <1>2

-----------------------------------------------------------------------------
(* The safety properties                                                   *)

\* The inductive invariant holds of every behaviour of the engine.
THEOREM Invariance == Spec => []IInv
<1>1. Init => IInv
  BY InitEstablishes
<1>2. IInv /\ [Next]_vars => IInv'
  BY StepKeeps
<1> QED BY <1>1, <1>2, PTL DEF Spec

\* Every variable keeps its type: quantities in the queue and in the position
\* are positive, levels are numbers or absent.
THEOREM TypeCorrect == Spec => []TypeOK
<1>1. IInv => TypeOK
  BY DEF IInv
<1> QED BY <1>1, Invariance, PTL

\* Cash and book value always add up to the opening balance and the realized
\* profit, for every feed, fee and slippage rate.
THEOREM LedgerBalances == Spec => []Balanced
<1>1. IInv => Balanced
  BY DEF IInv
<1> QED BY <1>1, Invariance, PTL

\* The simulated account never spends money it does not have.
THEOREM CashNeverNegative == Spec => []NeverOverdrawn
<1>1. IInv => NeverOverdrawn
  BY DEF IInv
<1> QED BY <1>1, Invariance, PTL

\* The order queue always agrees with the portfolio.
THEOREM QueueAgreesWithPosition == Spec => []PendingMatchesPosition
<1>1. IInv => PendingMatchesPosition
  BY DEF IInv
<1> QED BY <1>1, Invariance, PTL

\* After the kill switch the engine is flat and has nothing queued.
THEOREM KilledEngineIsFlat == Spec => []KilledIsFlat
<1>1. IInv => KilledIsFlat
  BY DEF IInv
<1> QED BY <1>1, Invariance, PTL

\* For every feed and configuration the ledger balances without credit, and the
\* queue holds an order only for the position, or the lack of one, it was made for.
THEOREM LedgerAndQueueHold == Spec => []LedgerAndQueueAgree
<1>1. IInv => LedgerAndQueueAgree
  BY DEF IInv, LedgerAndQueueAgree
<1> QED BY <1>1, Invariance, PTL

\* After the kill switch nothing moves: the switch stays thrown and the cash,
\* the trades, the position and the queue stay as they are.
THEOREM KillSwitchIsFinal == Spec => FrozenAfterKill
<1>1. ASSUME IInv, [Next]_vars, killed
      PROVE  UNCHANGED <<killed, totals, position, pending>>
  <2>1. position = NONE /\ pending = {} /\ pc \notin {"signal", "fill_at_close"}
    BY <1>1 DEF IInv, KilledIsFlat, KilledNeverSignals
  <2>2. CASE UNCHANGED vars
    BY <2>2 DEF vars
  <2>3. CASE NoPositionAtRisk \/ OrdersProcessed \/ SquareOff \/ RecordState
             \/ EndOfBacktest
    BY <2>1, <2>3
       DEF NoPositionAtRisk, OrdersProcessed, SquareOff, RecordState, EndOfBacktest
  <2>4. ~(StopLossExit \/ TakeProfitExit \/ DrawdownKill \/ HoldPosition
          \/ HandleSignal)
    BY <2>1 DEF StopLossExit, TakeProfitExit, DrawdownKill, HoldPosition,
                NoPriceExit, HandleSignal
  <2>5. ~(FillSell \/ FillBuy)
    BY <2>1 DEF FillSell, FillBuy, Oldest, Sells, Buys
  <2> QED BY <1>1, <2>2, <2>3, <2>4, <2>5 DEF Next
<1>2. IInv /\ [Next]_vars => [killed => UNCHANGED <<killed, totals, position, pending>>]_vars
  BY <1>1
<1> QED BY <1>2, Invariance, PTL DEF Spec, FrozenAfterKill

-----------------------------------------------------------------------------
(* The portfolio implements the account                                    *)

\* A sale takes the whole book value off the books.
LEMMA CloseIsSell ==
  ASSUME IInv, position # NONE, NEW price \in Nat, NEW reason \in Reason,
         ClosePosition(price, reason)
  PROVE  Account!Sell
<1>1. AccountOK' /\ position' = NONE /\ cash' >= cash /\ AccountOK
  BY InvAccountOK, CloseKeepsAccount DEF IInv, TypeOK
<1>2. /\ position.entryPrice \in Nat \ {0} /\ position.quantity \in Nat \ {0}
      /\ position.entryFees \in Nat
  BY DEF IInv, TypeOK, Position
<1>3. Value(position.entryPrice, position.quantity) \in Nat \ {0}
  BY <1>2, CostPositive
<1>4. BookValue \in Nat \ {0} /\ BookValue' = 0
  BY <1>1, <1>2, <1>3 DEF BookValue
<1>5. cash \in Int /\ realizedPnl \in Int /\ cash' \in Int /\ realizedPnl' \in Int
  BY <1>1 DEF AccountOK
<1>6. realizedPnl' = realizedPnl + (cash' - cash) - (BookValue - BookValue')
  <2> DEFINE start == InitialCapital * Den * Den * Den * Den
             b == BookValue
             cashAfter == cash'
             realizedAfter == realizedPnl'
  <2>1. start \in Int
    BY ConfigAssumption, RateAssumption
  <2>2. cash + b = start + realizedPnl
    BY <1>1 DEF AccountOK, Balanced, Account!Balanced
  <2>3. cashAfter + 0 = start + realizedAfter
    BY <1>1 DEF AccountOK, Balanced, Account!Balanced, BookValue
  <2>4. b \in Int /\ cashAfter \in Int /\ realizedAfter \in Int
    BY <1>4, <1>5
  <2> HIDE DEF start, b, cashAfter, realizedAfter
  <2>5. realizedAfter = realizedPnl + (cashAfter - cash) - (b - 0)
    BY <2>1, <2>2, <2>3, <2>4, <1>5
  <2> QED BY <2>5, <1>4 DEF b, cashAfter, realizedAfter
<1> QED BY <1>1, <1>4, <1>6 DEF Account!Sell

\* A purchase turns cash into book value, a refused one changes nothing.
LEMMA OpenIsBuy ==
  ASSUME IInv, position = NONE, NEW price \in Nat \ {0}, NEW order \in Order,
         OpenPosition(order, price)
  PROVE  Account!Buy \/ UNCHANGED <<cash, BookValue, realizedPnl>>
<1> DEFINE fees == CalculateFees(price, order.quantity)
           cost == Value(price, order.quantity) + fees
<1>1. order.quantity \in Nat \ {0}
  BY DEF Order
<1>2. fees \in Nat /\ Value(price, order.quantity) \in Nat \ {0}
  BY <1>1, FeesBounded, CostPositive
<1>3. CASE cost > cash
  BY <1>3 DEF OpenPosition, totals, BookValue
<1>4. CASE ~(cost > cash)
  <2>1. /\ cash' = cash - cost /\ realizedPnl' = realizedPnl
        /\ position'.entryPrice = price /\ position'.quantity = order.quantity
        /\ position'.entryFees = fees
    BY <1>4 DEF OpenPosition
  <2>2. position' # NONE
    <3>1. position' \in [entryPrice : Nat \ {0}, quantity : Nat \ {0},
                         entryFees : Nat, entryBar : Nat, highest : Nat,
                         stop : Int \union {NONE}, take : Int \union {NONE}]
      BY <1>1, <1>2, <1>4, LevelTypes DEF OpenPosition, IInv, TypeOK
    <3> QED BY <3>1, RateAssumption DEF Position
  <2>3. BookValue = 0 /\ BookValue' = cost
    BY <2>1, <2>2 DEF BookValue
  <2>4. cash \in Int
    BY DEF IInv, TypeOK
  <2> HIDE DEF fees
  <2> QED BY <1>2, <1>4, <2>1, <2>3, <2>4 DEF Account!Buy
<1> QED BY <1>3, <1>4

LEMMA StepImplementsAccount ==
  ASSUME IInv, [Next]_vars
  PROVE  [Account!Next]_<<cash, BookValue, realizedPnl>>
<1>1. ASSUME NEW price \in Nat, NEW reason \in Reason, position # NONE,
             ExecuteRiskExit(price, reason)
      PROVE  Account!Next
  BY <1>1, SlippedPrices, CloseIsSell DEF ExecuteRiskExit, Account!Next
<1>2. Px(bar.close) \in Nat
  BY BarPrices DEF IInv
<1>3. CASE StopLossExit
  <2>1. CheckStopLoss(UpdateTrailingStop) \in Nat /\ position # NONE
    BY <1>3, TrailingKeepsPosition, ExitPrices DEF StopLossExit, IInv
  <2> QED BY <1>1, <1>3, <2>1 DEF StopLossExit, Reason
<1>4. CASE TakeProfitExit
  <2>1. CheckTakeProfit(UpdateTrailingStop) \in Nat /\ position # NONE
    BY <1>4, TrailingKeepsPosition, ExitPrices DEF TakeProfitExit, IInv
  <2> QED BY <1>1, <1>4, <2>1 DEF TakeProfitExit, Reason
<1>5. CASE DrawdownKill
  BY <1>1, <1>2, <1>5 DEF DrawdownKill, NoPriceExit, Reason
<1>6. CASE HoldPosition
  <2>1. /\ position' = UpdateTrailingStop /\ position # NONE
        /\ UNCHANGED <<cash, realizedPnl>>
    BY <1>6 DEF HoldPosition, NoPriceExit, totals
  <2>2. /\ position' \in Position
        /\ position'.quantity = position.quantity
        /\ position'.entryPrice = position.entryPrice
        /\ position'.entryFees = position.entryFees
    BY <2>1, TrailingKeepsPosition DEF IInv
  <2>3. position' # NONE
    BY <2>2, RateAssumption
  <2> QED BY <2>1, <2>2, <2>3 DEF BookValue
<1>7. CASE FillSell
  <2>1. PICK o \in Oldest(Sells) :
          IF position # NONE
          THEN ClosePosition(SlippedSell(FillBase), "strategy_sell")
          ELSE UNCHANGED <<totals, position>>
    BY <1>7 DEF FillSell
  <2>2. SlippedSell(FillBase) \in Nat
    BY BarPrices, SlippedPrices DEF IInv, FillBase
  <2>3. CASE position # NONE
    BY <2>1, <2>2, <2>3, CloseIsSell DEF Reason, Account!Next
  <2>4. CASE position = NONE
    BY <2>1, <2>4 DEF totals, BookValue
  <2> QED BY <2>3, <2>4
<1>8. CASE FillBuy
  <2>1. PICK o \in Oldest(Buys) : OpenPosition(o, SlippedBuy(FillBase))
    BY <1>8 DEF FillBuy
  <2>2. position = NONE /\ o \in Order
    BY DEF Oldest, Buys, IInv, PendingMatchesPosition, TypeOK
  <2>3. SlippedBuy(FillBase) \in Nat \ {0}
    BY BarPrices, SlippedPrices DEF IInv, FillBase
  <2> QED BY <2>1, <2>2, <2>3, OpenIsBuy DEF Account!Next
<1>9. CASE SquareOff
  <2>1. CASE position # NONE /\ SquareOffDue
    BY <1>1, <1>2, <1>9, <2>1 DEF SquareOff, Reason
  <2>2. CASE ~(position # NONE /\ SquareOffDue)
    BY <1>9, <2>2 DEF SquareOff, totals, BookValue
  <2> QED BY <2>1, <2>2
<1>10. CASE EndOfBacktest
  <2>1. CASE ClosePositionsAtEnd /\ position # NONE
    BY <1>1, <1>2, <1>10, <2>1 DEF EndOfBacktest, Reason
  <2>2. CASE ~(ClosePositionsAtEnd /\ position # NONE)
    BY <1>10, <2>2 DEF EndOfBacktest, totals, BookValue
  <2> QED BY <2>1, <2>2
<1>11. CASE NoPositionAtRisk \/ OrdersProcessed \/ HandleSignal \/ RecordState
            \/ UNCHANGED vars
  BY <1>11 DEF NoPositionAtRisk, OrdersProcessed, HandleSignal, RecordState,
               vars, totals, BookValue
<1> QED BY <1>3, <1>4, <1>5, <1>6, <1>7, <1>8, <1>9, <1>10, <1>11 DEF Next

\* The backtest portfolio is an account: every step of the engine is a
\* purchase, a sale or invisible to the account.
THEOREM BacktestImplementsAccount == Spec => ImplementsAccount
<1>1. Init => Account!Init
  BY DEF Init, Account!Init, BookValue
<1>2. IInv /\ [Next]_vars => [Account!Next]_(Account!account)
  BY StepImplementsAccount DEF Account!account
<1> QED BY <1>1, <1>2, Invariance, PTL DEF Spec, ImplementsAccount, Account!Spec

-----------------------------------------------------------------------------
(* Timing: what next-bar execution guarantees                              *)

\* The queue holds no order of the current bar while orders are being filled,
\* and nothing is filled at the close.
OrdersLag ==
  /\ pc # "fill_at_close"
  /\ \A o \in pending : /\ o.timestamp <= i
                        /\ pc \in {"risk_exits", "pending_orders"}
                             => o.timestamp < i

LEMMA OrdersLagStep ==
  ASSUME ExecutionMode = "next_bar_open", IInv, OrdersLag, [Next]_vars
  PROVE  OrdersLag'
<1>1. i \in Nat
  BY DEF IInv, TypeOK
<1>2. CASE StopLossExit \/ TakeProfitExit \/ DrawdownKill
  BY <1>2 DEF StopLossExit, TakeProfitExit, DrawdownKill, ExecuteRiskExit,
              OrdersLag
<1>3. CASE HoldPosition \/ NoPositionAtRisk
  BY <1>3 DEF HoldPosition, NoPriceExit, NoPositionAtRisk, OrdersLag
<1>4. CASE FillSell \/ FillBuy
  <2>1. UNCHANGED <<i, pc>> /\ pending' \subseteq pending
    BY <1>4 DEF FillSell, FillBuy
  <2> QED BY <2>1 DEF OrdersLag
<1>5. CASE OrdersProcessed
  BY <1>5 DEF OrdersProcessed, OrdersLag
<1>6. CASE SquareOff \/ EndOfBacktest
  <2>1. UNCHANGED i /\ (pending' = {} \/ pending' = pending)
        /\ pc' \in {"record", "signal", "done"}
    BY <1>6 DEF SquareOff, EndOfBacktest, ExecuteRiskExit
  <2> QED BY <2>1 DEF OrdersLag
<1>7. CASE HandleSignal
  <2>1. UNCHANGED i /\ pc' = "record"
    BY <1>7 DEF HandleSignal
  <2>2. \A o \in pending' : o \in pending \/ o.timestamp = i
    BY <1>7 DEF HandleSignal, SubmitBuy, SubmitSell
  <2> QED BY <1>1, <2>1, <2>2 DEF OrdersLag
<1>8. CASE RecordState
  <2>1. /\ pending' = pending
        /\ \/ i' = i + 1 /\ pc' = "risk_exits"
           \/ i' = i /\ pc' = "end"
    BY <1>8 DEF RecordState
  <2>2. \A o \in pending : o.timestamp \in Nat
    BY DEF IInv, TypeOK, Order
  <2> QED BY <1>1, <2>1, <2>2 DEF OrdersLag
<1>9. CASE UNCHANGED vars
  BY <1>9 DEF vars, OrdersLag
<1> QED BY <1>2, <1>3, <1>4, <1>5, <1>6, <1>7, <1>8, <1>9 DEF Next

\* Under next-bar execution no position is ever entered on the bar its signal
\* came from, and the entry is made at the open of the bar it is entered on.
THEOREM NextBarHasNoLookahead ==
  ASSUME ExecutionMode = "next_bar_open" PROVE Spec => NoLookahead
<1>1. Init => OrdersLag
  BY DEF Init, OrdersLag
<1>2. IInv /\ OrdersLag /\ [Next]_vars => OrdersLag'
  BY OrdersLagStep
<1>3. ASSUME IInv, OrdersLag, [Next]_vars, Entering
      PROVE  /\ \E o \in pending : o.side = "buy" /\ o.timestamp < i
             /\ position'.entryPrice = SlippedBuy(Px(bar.open))
  <2>1. FillBuy
    BY <1>3
       DEF Next, vars, totals, Entering, StopLossExit, TakeProfitExit,
           DrawdownKill, NoPriceExit, HoldPosition, NoPositionAtRisk, FillSell,
           OrdersProcessed, SquareOff, HandleSignal, RecordState, EndOfBacktest,
           ExecuteRiskExit, ClosePosition
  <2>2. pc = "pending_orders"
    BY <1>3, <2>1 DEF FillBuy, Filling, OrdersLag
  <2>3. PICK o \in Oldest(Buys) : OpenPosition(o, SlippedBuy(FillBase))
    BY <2>1 DEF FillBuy
  <2>4. o \in pending /\ o.side = "buy" /\ o.timestamp < i
    BY <1>3, <2>2 DEF Oldest, Buys, OrdersLag
  <2>5. position'.entryPrice = SlippedBuy(FillBase)
    BY <1>3, <2>3 DEF OpenPosition, Entering
  <2> QED BY <2>2, <2>4, <2>5 DEF FillBase
<1>4. IInv /\ OrdersLag /\ [Next]_vars
        => [Entering => /\ \E o \in pending : o.side = "buy" /\ o.timestamp < i
                        /\ position'.entryPrice = SlippedBuy(Px(bar.open))]_vars
  BY <1>3
<1> QED BY <1>1, <1>2, <1>4, Invariance, PTL DEF Spec, NoLookahead

\* Why square-off works: a position never outlives a session's last bar, and
\* on that bar it is gone before the state is recorded.
SessionInv ==
  /\ TradesWithinSession
  /\ ForceSquareOff =>
       /\ position # NONE =>
            \A s \in SessionLast : ~(position.entryBar <= s /\ s < i)
       /\ pc \in {"signal", "record"} /\ i \in SessionLast => position = NONE

\* Closing a position that obeys the rule adds a trade that obeys it.
LEMMA CloseWithinSession ==
  ASSUME IInv, SessionInv, position # NONE, NEW price \in Nat,
         NEW reason \in Reason, ClosePosition(price, reason)
  PROVE  TradesWithinSession' /\ position' = NONE
<1>1. \A t \in trades' : \/ t \in trades
                         \/ t.entryBar = position.entryBar /\ t.exitBar = i
  BY DEF ClosePosition
<1>2. position' = NONE
  BY DEF ClosePosition
<1> QED BY <1>1, <1>2 DEF SessionInv, TradesWithinSession

LEMMA SessionInvStep ==
  ASSUME ExecutionMode = "next_bar_open", IInv, OrdersLag, SessionInv,
         [Next]_vars
  PROVE  SessionInv'
<1>1. i \in Nat
  BY DEF IInv, TypeOK
<1>2. ASSUME NEW price \in Nat, NEW reason \in Reason, position # NONE,
             ExecuteRiskExit(price, reason)
      PROVE  SessionInv'
  BY <1>2, SlippedPrices, CloseWithinSession DEF ExecuteRiskExit, SessionInv
<1>3. Px(bar.close) \in Nat
  BY BarPrices DEF IInv
<1>4. CASE StopLossExit
  <2>1. CheckStopLoss(UpdateTrailingStop) \in Nat /\ position # NONE
    BY <1>4, TrailingKeepsPosition, ExitPrices DEF StopLossExit, IInv
  <2> QED BY <1>2, <1>4, <2>1 DEF StopLossExit, Reason
<1>5. CASE TakeProfitExit
  <2>1. CheckTakeProfit(UpdateTrailingStop) \in Nat /\ position # NONE
    BY <1>5, TrailingKeepsPosition, ExitPrices DEF TakeProfitExit, IInv
  <2> QED BY <1>2, <1>5, <2>1 DEF TakeProfitExit, Reason
<1>6. CASE DrawdownKill
  BY <1>2, <1>3, <1>6 DEF DrawdownKill, NoPriceExit, Reason
<1>7. CASE HoldPosition
  <2>1. /\ position # NONE /\ position'.entryBar = position.entryBar
        /\ pc' = "pending_orders" /\ UNCHANGED <<i, trades>>
    BY <1>7, TrailingKeepsPosition
       DEF HoldPosition, NoPriceExit, totals, IInv
  <2> QED BY <2>1 DEF SessionInv, TradesWithinSession
<1>8. CASE FillSell
  <2>1. PICK o \in Oldest(Sells) :
          IF position # NONE
          THEN ClosePosition(SlippedSell(FillBase), "strategy_sell")
          ELSE UNCHANGED <<totals, position>>
    BY <1>8 DEF FillSell
  <2>2. SlippedSell(FillBase) \in Nat
    BY BarPrices, SlippedPrices DEF IInv, FillBase
  <2>3. CASE position # NONE
    BY <2>1, <2>2, <2>3, CloseWithinSession DEF Reason, SessionInv
  <2>4. CASE position = NONE
    BY <1>8, <2>1, <2>4 DEF FillSell, totals, SessionInv, TradesWithinSession
  <2> QED BY <2>3, <2>4
<1>9. CASE FillBuy
  <2>1. PICK o \in Oldest(Buys) : OpenPosition(o, SlippedBuy(FillBase))
    BY <1>9 DEF FillBuy
  <2>2. trades' = trades /\ UNCHANGED <<i, pc>>
        /\ (position' = position \/ position'.entryBar = i)
    BY <1>9, <2>1 DEF OpenPosition, totals, FillBuy
  <2>3. pc = "pending_orders"
    BY <1>9 DEF FillBuy, Filling, OrdersLag
  <2>4. \A s \in SessionLast : s \in Int
    BY DataAssumption
  <2> QED BY <1>1, <2>2, <2>3, <2>4 DEF SessionInv, TradesWithinSession
<1>10. CASE SquareOff
  <2>1. CASE position # NONE /\ SquareOffDue
    BY <1>2, <1>3, <1>10, <2>1 DEF SquareOff, Reason
  <2>2. CASE ~(position # NONE /\ SquareOffDue)
    BY <1>10, <2>2
       DEF SquareOff, SquareOffDue, totals, SessionInv, TradesWithinSession
  <2> QED BY <2>1, <2>2
<1>11. CASE EndOfBacktest
  <2>1. CASE ClosePositionsAtEnd /\ position # NONE
    BY <1>2, <1>3, <1>11, <2>1 DEF EndOfBacktest, Reason
  <2>2. CASE ~(ClosePositionsAtEnd /\ position # NONE)
    BY <1>11, <2>2
       DEF EndOfBacktest, totals, SessionInv, TradesWithinSession
  <2> QED BY <2>1, <2>2
<1>12. CASE RecordState
  <2>1. /\ UNCHANGED <<trades, position>> /\ pc' \notin {"signal", "record"}
        /\ pc = "record" /\ i' \in {i, i + 1}
    BY <1>12 DEF RecordState, totals
  <2>2. \A s \in SessionLast : s \in Int
    BY DataAssumption
  <2>3. \A s \in SessionLast : s < i' => s < i \/ s = i
    BY <1>1, <2>1, <2>2
  <2> QED BY <2>1, <2>3 DEF SessionInv, TradesWithinSession
<1>13. CASE NoPositionAtRisk \/ OrdersProcessed
  BY <1>13
     DEF NoPositionAtRisk, OrdersProcessed, OrdersLag, Filling, totals,
         SessionInv, TradesWithinSession
<1>14. CASE HandleSignal
  BY <1>14 DEF HandleSignal, totals, SessionInv, TradesWithinSession
<1>15. CASE UNCHANGED vars
  BY <1>15 DEF vars, totals, SessionInv, TradesWithinSession
<1> QED BY <1>4, <1>5, <1>6, <1>7, <1>8, <1>9, <1>10, <1>11, <1>12, <1>13,
           <1>14, <1>15
        DEF Next

\* Under next-bar execution with forced square-off no trade, at any length of
\* the data and any place of the session ends, spans the end of a session.
THEOREM NextBarTradesWithinSession ==
  ASSUME ExecutionMode = "next_bar_open" PROVE Spec => []TradesWithinSession
<1>1. Init => OrdersLag /\ SessionInv
  BY DEF Init, OrdersLag, SessionInv, TradesWithinSession
<1>2. IInv /\ OrdersLag /\ SessionInv /\ [Next]_vars => OrdersLag' /\ SessionInv'
  BY OrdersLagStep, SessionInvStep
<1>3. SessionInv => TradesWithinSession
  BY DEF SessionInv
<1> QED BY <1>1, <1>2, <1>3, Invariance, PTL DEF Spec

-----------------------------------------------------------------------------
(* Prices: what an exit brings in                                         *)

\* Of two prices the lower one is still the lower one after slippage.
LEMMA SlippedSellMonotone ==
  ASSUME NEW x \in Nat, NEW y \in Nat, x <= y
  PROVE  SlippedSell(x) <= SlippedSell(y)
<1> DEFINE d == y - x
           s == SlippageRate
<1>1. s \in Nat /\ s <= Den /\ Den \in Nat \ {0} /\ d \in Nat
  BY RateAssumption
<1>2. y * s = x * s + d * s /\ d * s <= d * Den
  <2>1. \A k, a, b, c \in Nat : b = a + k => b * c = a * c + k * c
    OBVIOUS
  <2>2. \A k, a, b \in Nat : a <= b => k * a <= k * b
    OBVIOUS
  <2> HIDE DEF s
  <2> QED BY <1>1, <2>1, <2>2
<1>3. \A a, k, m \in Nat : \A D \in Nat \ {0} :
        m <= k * D => (a + m) \div D <= a \div D + k
  <2> SUFFICES ASSUME NEW a \in Nat, NEW k \in Nat, NEW m \in Nat, NEW D \in Nat \ {0},
                      m <= k * D
               PROVE  (a + m) \div D <= a \div D + k
    OBVIOUS
  <2>1. a < (a \div D + 1) * D /\ a \div D \in Nat
    OBVIOUS
  <2>2. ((a + m) \div D) * D <= a + m /\ (a + m) \div D \in Nat
    OBVIOUS
  <2> DEFINE u == (a + m) \div D
             v == a \div D
  <2>3. u * D < (v + 1 + k) * D
    <3> HIDE DEF u, v
    <3>1. (v + 1 + k) * D = (v + 1) * D + k * D
      BY <2>1 DEF v
    <3> QED BY <2>1, <2>2, <3>1 DEF u, v
  <2>4. \A p, q \in Nat : p * D < q * D => p < q
    OBVIOUS
  <2> HIDE DEF u, v
  <2>5. u < v + 1 + k
    BY <2>1, <2>2, <2>3, <2>4 DEF u, v
  <2> QED BY <2>1, <2>2, <2>5 DEF u, v
<1>4. (y * s) \div Den <= (x * s) \div Den + d
  <2> HIDE DEF d, s
  <2> QED BY <1>1, <1>2, <1>3
<1>5. (y * s) \div Den \in Int /\ (x * s) \div Den \in Int
  BY <1>1
<1> QED BY <1>4, <1>5 DEF SlippedSell

\* A price the current bar traded at.
Traded(price) == price \in Nat /\ Px(bar.low) <= price /\ price <= Px(bar.high)

LEMMA BarTraded ==
  ASSUME TypeOK PROVE Traded(Px(bar.open)) /\ Traded(Px(bar.close))
<1>1. bar \in Bar /\ bar.low <= bar.open /\ bar.open <= bar.high
      /\ bar.low <= bar.close /\ bar.close <= bar.high
  BY DataAssumption DEF TypeOK
<1>2. \A x, y \in Nat : x <= y => Px(x) <= Px(y)
  BY RateAssumption DEF Px
<1> QED BY <1>1, <1>2, BarPrices DEF Traded, Bar

\* A stop or a target is left at a price of the bar, however far off it lay.
LEMMA LevelTraded ==
  ASSUME TypeOK, NEW p \in Position
  PROVE  /\ CheckStopLoss(p) # NONE => Traded(CheckStopLoss(p))
         /\ CheckTakeProfit(p) # NONE => Traded(CheckTakeProfit(p))
<1>1. p.stop \in Int \union {NONE} /\ p.take \in Int \union {NONE}
  BY DEF Position
<1>2. /\ Traded(Px(bar.open))
      /\ {Px(bar.open), Px(bar.low), Px(bar.high)} \subseteq Nat \ {0}
  BY BarTraded, BarPrices
<1>3. CheckStopLoss(p) # NONE => Traded(CheckStopLoss(p))
  BY <1>1, <1>2 DEF CheckStopLoss, Traded
<1>4. CheckTakeProfit(p) # NONE => Traded(CheckTakeProfit(p))
  BY <1>1, <1>2 DEF CheckTakeProfit, Traded
<1> QED BY <1>3, <1>4

\* What is on the books of this bar was sold within it, and nothing is of a later one.
ExitInv == ExitWithinBar /\ \A t \in trades : t.exitBar <= i

\* A position sold at such a price is a trade the bar could have seen.
LEMMA CloseIsReal ==
  ASSUME TypeOK, ExitInv, NEW price, Traded(price), NEW reason,
         ClosePosition(SlippedSell(price), reason), UNCHANGED <<i, bar>>
  PROVE  ExitInv'
<1> DEFINE sold == SlippedSell(price)
<1> DEFINE exitFees == CalculateFees(sold, position.quantity)
           net == Value(sold - position.entryPrice, position.quantity)
                    - (position.entryFees + exitFees)
           t == [entryBar |-> position.entryBar, exitBar |-> i, exitPrice |-> sold,
                 quantity |-> position.quantity, fees |-> position.entryFees + exitFees,
                 netPnl |-> net, reason |-> reason]
<1>1. trades' = trades \union {t} /\ t.exitBar = i /\ t.exitPrice = sold
  BY DEF ClosePosition
<1>2. /\ SlippedSell(Px(bar.low)) <= sold
      /\ sold <= SlippedSell(Px(bar.high))
  BY BarPrices, SlippedSellMonotone DEF Traded
<1>3. i \in Nat
  BY DEF TypeOK
<1>4. /\ SlippedSell(Px(bar.low))' = SlippedSell(Px(bar.low))
      /\ SlippedSell(Px(bar.high))' = SlippedSell(Px(bar.high))
  BY DEF Px, SlippedSell
<1> HIDE DEF sold, t
<1>5. \A x \in trades' : x.exitBar <= i'
  BY <1>1, <1>3 DEF ExitInv
<1>6. \A x \in trades' : x.exitBar = i' =>
        /\ x.exitPrice >= SlippedSell(Px(bar.low))'
        /\ x.exitPrice <= SlippedSell(Px(bar.high))'
  BY <1>1, <1>2, <1>4 DEF ExitInv, ExitWithinBar
<1> QED BY <1>5, <1>6 DEF ExitInv, ExitWithinBar

\* A step that writes no trade and stays at the bar.
LEMMA NoTradeIsReal ==
  ASSUME ExitInv, UNCHANGED <<i, bar, trades>>
  PROVE  ExitInv'
BY DEF ExitInv, ExitWithinBar, Px, SlippedSell

LEMMA ExitInvStep ==
  ASSUME IInv, ExitInv, [Next]_vars
  PROVE  ExitInv'
<1>1. TypeOK /\ i \in Nat
  BY DEF IInv, TypeOK
<1>2. position # NONE => UpdateTrailingStop \in Position
  BY <1>1, TrailingKeepsPosition
<1>3. CASE StopLossExit
  <2>1. Traded(CheckStopLoss(UpdateTrailingStop))
    BY <1>1, <1>2, <1>3, LevelTraded DEF StopLossExit
  <2> QED BY <1>1, <1>3, <2>1, CloseIsReal DEF StopLossExit, ExecuteRiskExit
<1>4. CASE TakeProfitExit
  <2>1. Traded(CheckTakeProfit(UpdateTrailingStop))
    BY <1>1, <1>2, <1>4, LevelTraded DEF TakeProfitExit
  <2> QED BY <1>1, <1>4, <2>1, CloseIsReal DEF TakeProfitExit, ExecuteRiskExit
<1>5. CASE DrawdownKill
  BY <1>1, <1>5, BarTraded, CloseIsReal DEF DrawdownKill, ExecuteRiskExit
<1>6. CASE HoldPosition \/ NoPositionAtRisk
  BY <1>6, NoTradeIsReal DEF HoldPosition, NoPositionAtRisk, totals
<1>7. CASE FillSell
  <2>1. Traded(FillBase)
    BY <1>1, BarTraded DEF FillBase
  <2>2. PICK o \in Oldest(Sells) :
          IF position # NONE
          THEN ClosePosition(SlippedSell(FillBase), "strategy_sell")
          ELSE UNCHANGED <<totals, position>>
    BY <1>7 DEF FillSell
  <2>3. UNCHANGED <<i, bar>>
    BY <1>7 DEF FillSell
  <2> QED BY <1>1, <2>1, <2>2, <2>3, CloseIsReal, NoTradeIsReal DEF totals
<1>8. CASE FillBuy
  BY <1>8, NoTradeIsReal DEF FillBuy, OpenPosition, totals
<1>9. CASE OrdersProcessed \/ HandleSignal
  BY <1>9, NoTradeIsReal DEF OrdersProcessed, HandleSignal, totals
<1>10. CASE SquareOff
  <2>1. CASE position # NONE /\ SquareOffDue
    BY <1>1, <1>10, <2>1, BarTraded, CloseIsReal DEF SquareOff, ExecuteRiskExit
  <2>2. CASE ~(position # NONE /\ SquareOffDue)
    BY <1>10, <2>2, NoTradeIsReal DEF SquareOff, totals
  <2> QED BY <2>1, <2>2
<1>11. CASE RecordState
  <2>1. CASE i < NumBars - 1
    <3>1. i' = i + 1 /\ trades' = trades
      BY <1>11, <2>1 DEF RecordState, totals
    <3>2. \A t \in trades : t.exitBar \in Nat
      BY <1>1 DEF TypeOK, Trade
    <3>3. \A t \in trades' : t.exitBar <= i' /\ t.exitBar # i'
      BY <1>1, <3>1, <3>2 DEF ExitInv
    <3> QED BY <3>3 DEF ExitInv, ExitWithinBar
  <2>2. CASE ~(i < NumBars - 1)
    BY <1>11, <2>2, NoTradeIsReal DEF RecordState, totals
  <2> QED BY <2>1, <2>2
<1>12. CASE EndOfBacktest
  <2>1. CASE ClosePositionsAtEnd /\ position # NONE
    BY <1>1, <1>12, <2>1, BarTraded, CloseIsReal DEF EndOfBacktest, ExecuteRiskExit
  <2>2. CASE ~(ClosePositionsAtEnd /\ position # NONE)
    BY <1>12, <2>2, NoTradeIsReal DEF EndOfBacktest, totals
  <2> QED BY <2>1, <2>2
<1>13. CASE UNCHANGED vars
  BY <1>13, NoTradeIsReal DEF vars, totals
<1> QED BY <1>3, <1>4, <1>5, <1>6, <1>7, <1>8, <1>9, <1>10, <1>11, <1>12, <1>13 DEF Next

\* In either execution mode every trade was closed at a price, less slippage, of
\* the bar it was closed on, whatever the feed and however far the stop was off.
THEOREM ExitsWithinBars == Spec => []ExitWithinBar
<1>1. Init => ExitInv
  BY DEF Init, ExitInv, ExitWithinBar
<1>2. ExitInv => ExitWithinBar
  BY DEF ExitInv
<1> QED BY <1>1, <1>2, ExitInvStep, Invariance, PTL DEF Spec

\* Under next-bar execution both hold of every trade in the book: the price it was
\* closed at and that it spans no end of a session.
THEOREM NextBarExitsAreReal ==
  ASSUME ExecutionMode = "next_bar_open" PROVE Spec => []ExitsAreReal
<1>1. ExitWithinBar /\ TradesWithinSession => ExitsAreReal
  BY DEF ExitsAreReal
<1> QED BY <1>1, ExitsWithinBars, NextBarTradesWithinSession, PTL

-----------------------------------------------------------------------------
(* Orders at the broker                                                    *)

\* The words Kite has for the state of an order.
OrderStates == {"OPEN", "TRIGGER_PENDING", "CANCEL_PENDING", "COMPLETE", "CANCELLED", "REJECTED"}
OverStates == {"COMPLETE", "CANCELLED", "REJECTED"}
\* What the calls name.
CallSymbols == {c.symbol : c \in OrderCalls}
CallSides == {c.side : c \in OrderCalls}
CallVarieties == {c.variety : c \in OrderCalls}

\* The orders Kite can have, the answers and the calls there can be.
LiveOrder ==
  [symbol : CallSymbols, side : {"buy", "sell"}, quantity : Nat,
   type : {"market", "limit", "sl", "sl-m"}, variety : CallVarieties \union {DefaultVariety},
   attempt : Nat, state : OrderStates]

OrderAnswer ==
  [op : {"none", "place_order", "cancel_order", "get_order_status", "get_orders"}, ok : BOOLEAN, id : Nat,
   status : {"none", "pending", "open", "complete", "cancelled", "rejected"},
   symbol : CallSymbols \union {""}, side : CallSides \union {"", "buy", "sell"}, halves : Nat]

CallRecord ==
  [stage : {"checked", "handled"},
   op : {"place_order", "cancel_order", "get_order_status", "get_orders", "get_account"}, id : Nat,
   order : OrderCalls \union {NoCall}, reply : OrderAnswer,
   seen : [mode : ModeWords, env : ModeWords, enabled : BOOLEAN, authenticated : BOOLEAN]]

OrdersTypeOK ==
  /\ lo \in [mode : ModeWords, enabled : BOOLEAN, env : ModeWords, authenticated : BOOLEAN,
             client : {NoClient, "connected"}, envChanges : Nat, logins : Nat]
  /\ call \in CallRecord \union {NoCall}
  /\ attempts \in Seq({"waiting", "answered", "raised"})
  /\ kite \in Seq(LiveOrder)
  /\ told \subseteq DOMAIN kite
  /\ answer \in OrderAnswer

\* What the check of a call that sends has seen.
SeenLive ==
  /\ call.seen.authenticated /\ call.seen.enabled
  /\ "live" \in {call.seen.mode, call.seen.env}
  /\ {call.seen.mode, call.seen.env} \subseteq {"live", NoMode}

\* The call under way: what it may send it was let through for; a call of
\* place_order is the last attempt, and has its order once it is handled; what
\* waits to be answered is true.
CallUnderWay ==
  /\ call.op \in {"place_order", "cancel_order"} => SeenLive
  /\ call.op \in {"cancel_order", "get_order_status"} => call.id \in DOMAIN kite
  /\ call.op = "place_order" =>
       /\ call.order \in OrderCalls /\ attempts # <<>> /\ attempts[Len(attempts)] = "waiting"
       /\ call.stage = "checked" => \A n \in DOMAIN kite : kite[n].attempt # Len(attempts)
       /\ call.stage = "handled" => /\ call.reply.op = "place_order"
                                    /\ call.reply.id \in DOMAIN kite
                                    /\ kite[call.reply.id].attempt = Len(attempts)
  /\ (call.stage = "handled" /\ call.op # "place_order") =>
       /\ call.reply.op \in {"none", call.op}
       /\ call.reply.op = "get_orders" => call.reply.id = Len(kite)
  /\ call.stage = "handled" => IsTrue(call.reply)

\* The inductive invariant: besides the two properties, the call under way and
\* that every order is of an attempt.
LoInv ==
  /\ OrdersTypeOK
  /\ AnswersAreTrue
  /\ LostOrdersAreFound
  /\ \A n \in DOMAIN kite : kite[n].attempt \in DOMAIN attempts
  /\ call # NoCall => CallUnderWay

\* The same of an answer a and the orders q.
TrueOf(a, q) ==
  LET order == q[a.id]
  IN  (a.ok /\ a.op \in {"place_order", "get_order_status"}) =>
        /\ a.id \in DOMAIN q
        /\ a.symbol = "" => a.status = "pending" /\ a.halves = 0
        /\ a.symbol # "" => /\ order.symbol = a.symbol
                            /\ a.side \in {"buy", "sell"} => order.side = a.side
                            /\ a.halves - 2 * order.quantity \in {0, 1}
        /\ a.status \in {"complete", "cancelled", "rejected"} => StatusMap(order.state)[2] = a.status

LEMMA TrueOfKite ==
  /\ \A a : IsTrue(a) <=> TrueOf(a, kite)
  /\ AnswersAreTrue <=> TrueOf(answer, kite)
  /\ AnswersAreTrue' <=> TrueOf(answer', kite')
  /\ IsTrue(call.reply)' <=> TrueOf(call'.reply, kite')
BY DEF IsTrue, TrueOf, AnswersAreTrue

\* The words for the states of an order.
LEMMA StatusWords ==
  /\ \A s \in OrderStates : StatusMap(s)[2] \in {"none", "pending", "open", "complete", "cancelled", "rejected"}
  /\ \A s \in OrderStates \ OverStates : StatusMap(s)[2] \notin {"complete", "cancelled", "rejected"}
<1> DEFINE pairs == {<<"COMPLETE", "complete">>, <<"CANCELLED", "cancelled">>,
                     <<"REJECTED", "rejected">>, <<"OPEN", "open">>}
<1>1. \A s \in {"COMPLETE", "CANCELLED", "REJECTED", "OPEN"} :
        /\ StatusMap(s) = CHOOSE pair \in pairs : pair[1] = s
        /\ \E pair \in pairs : pair[1] = s
  BY DEF StatusMap
<1>2. \A s \in {"COMPLETE", "CANCELLED", "REJECTED", "OPEN"} :
        StatusMap(s) \in pairs /\ StatusMap(s)[1] = s
  BY <1>1
<1>3. /\ StatusMap("COMPLETE")[2] = "complete"
      /\ StatusMap("CANCELLED")[2] = "cancelled"
      /\ StatusMap("REJECTED")[2] = "rejected"
      /\ StatusMap("OPEN")[2] = "open"
  BY <1>2
<1>4. /\ StatusMap("TRIGGER_PENDING")[2] = "pending"
      /\ StatusMap("CANCEL_PENDING")[2] = "pending"
  BY DEF StatusMap
<1> QED BY <1>3, <1>4 DEF OrderStates, OverStates

\* The order Kite gets for a call, and the answer that says so.
LEMMA OrderParamsSound ==
  ASSUME NEW order \in OrderCalls, attempts \in Seq({"waiting", "answered", "raised"}), NEW id \in Nat
  PROVE  /\ OrderParams(order) \in LiveOrder
         /\ OrderParams(order).attempt = Len(attempts)
         /\ Answer("place_order", TRUE, id, "pending", order.symbol, order.side, order.halves) \in OrderAnswer
         /\ \A q : (id \in DOMAIN q /\ q[id] = OrderParams(order)) =>
              TrueOf(Answer("place_order", TRUE, id, "pending", order.symbol, order.side, order.halves), q)
<1>1. /\ order.halves \in Nat /\ order.symbol # ""
      /\ order.symbol \in CallSymbols /\ order.side \in CallSides /\ order.variety \in CallVarieties
  BY OrdersAssumption DEF CallSymbols, CallSides, CallVarieties
<1>2. order.halves \div 2 \in Nat /\ order.halves - 2 * (order.halves \div 2) \in {0, 1}
  <2>1. \A h \in Nat : h \div 2 \in Nat /\ h - 2 * (h \div 2) \in {0, 1}
    OBVIOUS
  <2> QED BY <1>1, <2>1
<1>3. KiteType(order.type) \in {"market", "limit", "sl", "sl-m"} /\ KiteSide(order.side) \in {"buy", "sell"}
      /\ (order.side \in {"buy", "sell"} => KiteSide(order.side) = order.side)
  BY DEF KiteType, KiteSide
<1>4. Len(attempts) \in Nat
  OBVIOUS
<1>5. OrderParams(order) \in LiveOrder
  BY <1>1, <1>2, <1>3, <1>4 DEF OrderParams, LiveOrder, OrderStates
<1>6. Answer("place_order", TRUE, id, "pending", order.symbol, order.side, order.halves) \in OrderAnswer
  BY <1>1 DEF Answer, OrderAnswer
<1>7. ASSUME NEW q, id \in DOMAIN q, q[id] = OrderParams(order)
      PROVE  TrueOf(Answer("place_order", TRUE, id, "pending", order.symbol, order.side, order.halves), q)
  <2> DEFINE a == Answer("place_order", TRUE, id, "pending", order.symbol, order.side, order.halves)
  <2>1. /\ a.id = id /\ a.symbol = order.symbol /\ a.side = order.side /\ a.halves = order.halves
        /\ a.status = "pending"
    BY DEF Answer
  <2>2. /\ q[id].symbol = order.symbol /\ q[id].side = KiteSide(order.side)
        /\ q[id].quantity = order.halves \div 2
    BY <1>7 DEF OrderParams
  <2> HIDE DEF a
  <2>3. a.halves - 2 * q[id].quantity \in {0, 1}
    BY <1>2, <2>1, <2>2
  <2>4. TrueOf(a, q)
    BY <1>1, <1>3, <1>7, <2>1, <2>2, <2>3 DEF TrueOf
  <2> QED BY <2>4 DEF a
<1> QED BY <1>5, <1>6, <1>7 DEF OrderParams

\* The gate lets a call through only when both settings that are there say live.
LEMMA GateMeansLive ==
  ASSUME MayTrade
  PROVE  /\ lo.authenticated /\ lo.enabled
         /\ "live" \in {lo.mode, lo.env} /\ {lo.mode, lo.env} \subseteq {"live", NoMode}
<1>1. GetExecutionMode(lo.mode, lo.env) = "live" /\ lo.enabled /\ lo.authenticated
  BY DEF MayTrade, Ready, IsLiveExecutionAllowed
<1>2. NoMode # "live"
  BY OrdersAssumption
<1> QED BY <1>1, <1>2 DEF GetExecutionMode

\* A true answer stays true when an order joins, and when one that is not over
\* changes its state.
LEMMA TrueOfMore ==
  ASSUME NEW q \in Seq(LiveOrder), NEW o \in LiveOrder, NEW a, TrueOf(a, q)
  PROVE  TrueOf(a, Append(q, o))
<1>1. \A n \in DOMAIN q : n \in DOMAIN Append(q, o) /\ Append(q, o)[n] = q[n]
  OBVIOUS
<1> QED BY <1>1 DEF TrueOf

\* The orders when one of them changes its state.
Restated(q, id, state) == [q EXCEPT ![id].state = state]

LEMMA RestatedOrders ==
  ASSUME NEW q \in Seq(LiveOrder), NEW id \in DOMAIN q, NEW state \in OrderStates
  PROVE  LET r == Restated(q, id, state) IN
         /\ r \in Seq(LiveOrder) /\ DOMAIN r = DOMAIN q /\ Len(r) = Len(q)
         /\ \A n \in DOMAIN q : /\ r[n].symbol = q[n].symbol /\ r[n].side = q[n].side
                                /\ r[n].quantity = q[n].quantity /\ r[n].attempt = q[n].attempt
                                /\ r[n].state = IF n = id THEN state ELSE q[n].state
<1> DEFINE r == Restated(q, id, state)
           o == [q[id] EXCEPT !.state = state]
<1>1. q[id] \in LiveOrder
  OBVIOUS
<1>2. o \in LiveOrder /\ o.symbol = q[id].symbol /\ o.side = q[id].side
      /\ o.quantity = q[id].quantity /\ o.attempt = q[id].attempt /\ o.state = state
  BY <1>1 DEF LiveOrder
<1>3. r = [q EXCEPT ![id] = o]
  BY DEF Restated
<1> HIDE DEF r, o
<1>4. r \in Seq(LiveOrder) /\ DOMAIN r = DOMAIN q /\ Len(r) = Len(q)
      /\ r[id] = o /\ \A n \in DOMAIN q : n # id => r[n] = q[n]
  BY <1>2, <1>3
<1>5. \A n \in DOMAIN q : /\ r[n].symbol = q[n].symbol /\ r[n].side = q[n].side
                          /\ r[n].quantity = q[n].quantity /\ r[n].attempt = q[n].attempt
                          /\ r[n].state = IF n = id THEN state ELSE q[n].state
  BY <1>2, <1>4
<1> QED BY <1>4, <1>5 DEF r

LEMMA TrueOfRestated ==
  ASSUME NEW q \in Seq(LiveOrder), NEW id \in DOMAIN q, q[id].state \notin OverStates,
         NEW state \in OrderStates, NEW a, TrueOf(a, q)
  PROVE  TrueOf(a, Restated(q, id, state))
<1> DEFINE r == Restated(q, id, state)
<1>1. /\ DOMAIN r = DOMAIN q
      /\ \A n \in DOMAIN q : /\ r[n].symbol = q[n].symbol /\ r[n].side = q[n].side
                             /\ r[n].quantity = q[n].quantity
                             /\ r[n].state = IF n = id THEN state ELSE q[n].state
  BY RestatedOrders
<1>2. q[id] \in LiveOrder
  OBVIOUS
<1>3. q[id].state \in OrderStates \ OverStates
  BY <1>2 DEF LiveOrder
<1>4. StatusMap(q[id].state)[2] \notin {"complete", "cancelled", "rejected"}
  BY <1>3, StatusWords
<1> HIDE DEF r
<1>5. TrueOf(a, r)
  BY <1>1, <1>4 DEF TrueOf
<1> QED BY <1>5 DEF r

\* An answer about no order is true of all.
LEMMA NoAnswerTrue == NoAnswer \in OrderAnswer /\ ~NoAnswer.ok /\ NoAnswer.op = "none"
                      /\ \A q : TrueOf(NoAnswer, q)
BY DEF NoAnswer, Answer, OrderAnswer, TrueOf

\* What a step leaves true that makes no order, no attempt and tells the caller nothing.
LEMMA QuietStep ==
  ASSUME LoInv, UNCHANGED <<attempts, told>>, answer' \in {answer, NoAnswer},
         lo' \in [mode : ModeWords, enabled : BOOLEAN, env : ModeWords, authenticated : BOOLEAN,
                  client : {NoClient, "connected"}, envChanges : Nat, logins : Nat],
         kite' \in Seq(LiveOrder), DOMAIN kite' = DOMAIN kite,
         \A n \in DOMAIN kite : kite'[n].attempt = kite[n].attempt,
         TrueOf(answer, kite'),
         call' \in CallRecord \union {NoCall}, call' # NoCall => CallUnderWay'
  PROVE  LoInv'
<1>1. OrdersTypeOK'
  BY NoAnswerTrue DEF LoInv, OrdersTypeOK
<1>2. AnswersAreTrue'
  BY NoAnswerTrue, TrueOfKite
<1>3. LostOrdersAreFound'
  <2>1. told \subseteq DOMAIN kite
    BY DEF LoInv, OrdersTypeOK
  <2>2. answer' = answer \/ ~answer'.ok
    BY NoAnswerTrue
  <2> QED BY <2>1, <2>2 DEF LoInv, LostOrdersAreFound
<1>4. \A n \in DOMAIN kite' : kite'[n].attempt \in DOMAIN attempts'
  BY DEF LoInv
<1> QED BY <1>1, <1>2, <1>3, <1>4 DEF LoInv

\* A broker object just made has sent nothing.
LEMMA LoInitInv == LoInit => LoInv
<1> SUFFICES ASSUME LoInit PROVE LoInv OBVIOUS
<1>1. OrdersTypeOK
  BY NoAnswerTrue DEF LoInit, OrdersTypeOK, NoClient
<1>2. AnswersAreTrue /\ LostOrdersAreFound
  BY NoAnswerTrue, TrueOfKite DEF LoInit, LostOrdersAreFound
<1> QED BY <1>1, <1>2 DEF LoInit, LoInv

\* The orders as they are, nothing changed in them.
LEMMA SameOrders ==
  ASSUME LoInv
  PROVE  /\ kite \in Seq(LiveOrder) /\ TrueOf(answer, kite)
         /\ lo \in [mode : ModeWords, enabled : BOOLEAN, env : ModeWords, authenticated : BOOLEAN,
                    client : {NoClient, "connected"}, envChanges : Nat, logins : Nat]
         /\ call \in CallRecord \union {NoCall} /\ Len(kite) \in Nat
BY TrueOfKite DEF LoInv, OrdersTypeOK

\* A stage is a stage of a call.
LEMMA CallIsThere ==
  ASSUME LoInv, call.stage \in {"checked", "handled"}
  PROVE  call # NoCall /\ call \in CallRecord
<1>1. NoCall.stage = "none"
  BY DEF NoCall
<1> QED BY <1>1, SameOrders

\* A refusal, and a login, send nothing.
LEMMA RefusedKeeps == ASSUME LoInv, call = NoCall, Refused PROVE LoInv'
BY SameOrders, QuietStep DEF Refused

LEMMA AuthenticateKeeps == ASSUME LoInv, Authenticate PROVE LoInv'
<1>1. PICK valid \in BOOLEAN :
        lo' = [lo EXCEPT !.client = IF valid THEN "connected" ELSE @,
                         !.authenticated = valid, !.logins = @ + 1]
  BY DEF Authenticate
<1>2. lo' \in [mode : ModeWords, enabled : BOOLEAN, env : ModeWords, authenticated : BOOLEAN,
               client : {NoClient, "connected"}, envChanges : Nat, logins : Nat]
  <2> DEFINE client == IF valid THEN "connected" ELSE lo.client
             logins == lo.logins + 1
  <2>1. client \in {NoClient, "connected"} /\ logins \in Nat
    BY SameOrders
  <2>2. lo' = [lo EXCEPT !.client = client, !.authenticated = valid, !.logins = logins]
    BY <1>1
  <2> HIDE DEF client, logins
  <2> QED BY <2>1, <2>2, SameOrders
<1> QED BY <1>2, SameOrders, QuietStep DEF Authenticate

\* What a call that begins has seen at its check.
LEMMA BeginsSound ==
  ASSUME LoInv, NEW op \in {"place_order", "cancel_order", "get_order_status", "get_orders", "get_account"},
         NEW id \in Nat, NEW order \in OrderCalls \union {NoCall}, Begins(op, id, order)
  PROVE  /\ call' \in CallRecord /\ call'.stage = "checked" /\ call'.op = op /\ call'.id = id
         /\ call'.order = order /\ (MayTrade => SeenLive')
<1> DEFINE c == [stage |-> "checked", op |-> op, id |-> id, order |-> order, reply |-> NoAnswer,
                 seen |-> [mode |-> lo.mode, env |-> lo.env, enabled |-> lo.enabled,
                           authenticated |-> lo.authenticated]]
<1>1. call' = c
  BY DEF Begins
<1>2. c \in CallRecord
  BY SameOrders, NoAnswerTrue DEF CallRecord
<1>3. MayTrade => SeenLive'
  BY <1>1, GateMeansLive DEF SeenLive
<1> QED BY <1>1, <1>2, <1>3

LEMMA PlaceOrderKeeps == ASSUME LoInv, NEW order \in OrderCalls, PlaceOrder(order) PROVE LoInv'
<1>1. CASE Refused
  BY <1>1, RefusedKeeps DEF PlaceOrder
<1>2. CASE MayTrade /\ attempts' = Append(attempts, "waiting") /\ Begins("place_order", 0, order)
  <2>1. /\ call' \in CallRecord /\ call'.stage = "checked" /\ call'.op = "place_order"
        /\ call'.order = order /\ SeenLive'
    BY <1>2, BeginsSound
  <2>2. UNCHANGED <<lo, kite, told, answer>>
    BY <1>2 DEF Begins
  <2>3. attempts \in Seq({"waiting", "answered", "raised"})
    BY DEF LoInv, OrdersTypeOK
  <2>4. /\ attempts' \in Seq({"waiting", "answered", "raised"})
        /\ Len(attempts') = Len(attempts) + 1 /\ Len(attempts) \in Nat
        /\ attempts'[Len(attempts')] = "waiting"
        /\ DOMAIN attempts = 1 .. Len(attempts) /\ DOMAIN attempts' = 1 .. Len(attempts) + 1
        /\ \A k \in DOMAIN attempts : attempts'[k] = attempts[k]
    BY <1>2, <2>3
  <2>5. \A n \in DOMAIN kite : kite[n].attempt \in DOMAIN attempts
    BY DEF LoInv
  <2>6. \A n \in DOMAIN kite : kite[n].attempt # Len(attempts')
    BY <2>4, <2>5
  <2>7. OrdersTypeOK'
    BY <2>1, <2>2, <2>4 DEF LoInv, OrdersTypeOK
  <2>8. AnswersAreTrue'
    BY <2>2, TrueOfKite DEF LoInv
  <2>9. LostOrdersAreFound'
    <3>1. \A k \in DOMAIN attempts' : attempts'[k] = "answered" => k \in DOMAIN attempts
      BY <2>4
    <3> QED BY <2>2, <2>4, <2>5, <3>1 DEF LoInv, LostOrdersAreFound
  <2>10. CallUnderWay'
    <3>1. attempts' # <<>>
      BY <2>4
    <3> QED BY <2>1, <2>2, <2>4, <2>6, <3>1 DEF CallUnderWay
  <2>11. \A n \in DOMAIN kite' : kite'[n].attempt \in DOMAIN attempts'
    BY <2>2, <2>4, <2>5
  <2> QED BY <2>7, <2>8, <2>9, <2>10, <2>11 DEF LoInv
<1> QED BY <1>1, <1>2 DEF PlaceOrder

\* A call that begins and is not an order.
LEMMA OtherBeginsKeeps ==
  ASSUME LoInv, NEW op \in {"cancel_order", "get_order_status", "get_orders", "get_account"},
         NEW id \in Nat, Begins(op, id, NoCall), UNCHANGED attempts,
         op = "cancel_order" => MayTrade,
         op \in {"cancel_order", "get_order_status"} => id \in DOMAIN kite
  PROVE  LoInv'
<1>1. /\ call' \in CallRecord /\ call'.stage = "checked" /\ call'.op = op /\ call'.id = id
      /\ (MayTrade => SeenLive')
  BY BeginsSound
<1>2. UNCHANGED <<lo, kite, told, answer>>
  BY DEF Begins
<1>3. CallUnderWay'
  BY <1>1, <1>2 DEF CallUnderWay
<1> QED BY <1>1, <1>2, <1>3, SameOrders, QuietStep

LEMMA CancelOrderKeeps == ASSUME LoInv, NEW id \in told, CancelOrder(id) PROVE LoInv'
<1>1. id \in DOMAIN kite /\ id \in Nat
  BY DEF LoInv, OrdersTypeOK
<1>2. CASE Refused
  BY <1>2, RefusedKeeps DEF CancelOrder
<1>3. CASE MayTrade /\ Begins("cancel_order", id, NoCall) /\ UNCHANGED attempts
  BY <1>1, <1>3, OtherBeginsKeeps
<1> QED BY <1>2, <1>3 DEF CancelOrder

LEMMA QueryKeeps ==
  ASSUME LoInv, NEW op \in {"get_order_status", "get_orders", "get_account"}, NEW id \in Nat,
         op = "get_order_status" => id \in DOMAIN kite, Query(op, id)
  PROVE  LoInv'
<1>1. CASE Refused
  BY <1>1, RefusedKeeps DEF Query
<1>2. CASE Begins(op, id, NoCall) /\ UNCHANGED attempts
  BY <1>2, OtherBeginsKeeps
<1> QED BY <1>1, <1>2 DEF Query

\* What is under way once Kite has handled it.
LEMMA HandledSound ==
  ASSUME LoInv, NEW reply \in OrderAnswer, Handled(reply)
  PROVE  /\ call \in CallRecord /\ call # NoCall /\ CallUnderWay
         /\ call' \in CallRecord /\ call'.stage = "handled" /\ call'.op = call.op /\ call'.id = call.id
         /\ call'.order = call.order /\ call'.reply = reply /\ call'.seen = call.seen
         /\ UNCHANGED <<lo, attempts, told, answer>>
<1>1. call.stage = "checked" /\ call' = [call EXCEPT !.stage = "handled", !.reply = reply]
      /\ UNCHANGED <<lo, attempts, told, answer>>
  BY DEF Handled
<1>3. call \in CallRecord /\ call # NoCall
  BY <1>1, CallIsThere
<1>4. /\ call' \in CallRecord /\ call'.stage = "handled" /\ call'.op = call.op /\ call'.id = call.id
      /\ call'.order = call.order /\ call'.reply = reply /\ call'.seen = call.seen
  <2>1. \A c \in CallRecord : LET d == [c EXCEPT !.stage = "handled", !.reply = reply] IN
          /\ d \in CallRecord /\ d.stage = "handled" /\ d.op = c.op /\ d.id = c.id
          /\ d.order = c.order /\ d.reply = reply /\ d.seen = c.seen
    BY DEF CallRecord
  <2> QED BY <1>1, <1>3, <2>1
<1> QED BY <1>1, <1>3, <1>4 DEF LoInv

\* An answer that reads the orders and changes none.
LEMMA TellsKeeps ==
  ASSUME LoInv, NEW reply \in OrderAnswer, Handled(reply), UNCHANGED kite, call.op # "place_order",
         reply.op \in {"none", call.op}, reply.op = "get_orders" => reply.id = Len(kite),
         TrueOf(reply, kite)
  PROVE  LoInv'
<1>1. /\ CallUnderWay
      /\ call' \in CallRecord /\ call'.stage = "handled" /\ call'.op = call.op /\ call'.id = call.id
      /\ call'.reply = reply /\ call'.seen = call.seen
      /\ UNCHANGED <<lo, attempts, told, answer>>
  BY HandledSound
<1>2. CallUnderWay'
  BY <1>1, TrueOfKite DEF CallUnderWay, SeenLive
<1> QED BY <1>1, <1>2, SameOrders, QuietStep

LEMMA KiteTellsStatusKeeps == ASSUME LoInv, KiteTellsStatus PROVE LoInv'
<1> DEFINE latest == kite[call.id]
           a == Answer("get_order_status", TRUE, call.id, StatusMap(latest.state)[2],
                       latest.symbol, latest.side, 2 * latest.quantity)
           b == Answer("get_order_status", TRUE, call.id, "pending", "", "", 0)
<1>0. call.stage = "checked" /\ call.op = "get_order_status" /\ UNCHANGED kite /\ (Handled(a) \/ Handled(b))
  BY DEF KiteTellsStatus, Handled
<1>1. call \in CallRecord /\ call # NoCall
  BY <1>0, CallIsThere
<1>2. call.id \in DOMAIN kite /\ call.id \in Nat
  BY <1>0, <1>1 DEF LoInv, CallUnderWay, CallRecord
<1>3. latest \in LiveOrder
  BY <1>2, SameOrders
<1>4. /\ latest.state \in OrderStates /\ latest.symbol \in CallSymbols /\ latest.side \in {"buy", "sell"}
      /\ latest.quantity \in Nat
  BY <1>3 DEF LiveOrder
<1>5. latest.symbol # ""
  BY <1>4, OrdersAssumption DEF CallSymbols
<1>6. StatusMap(latest.state)[2] \in {"none", "pending", "open", "complete", "cancelled", "rejected"}
  BY <1>4, StatusWords
<1>7. 2 * latest.quantity \in Nat
  BY <1>4
<1>8. a \in OrderAnswer /\ a.op = "get_order_status" /\ TrueOf(a, kite)
  <2> HIDE DEF latest
  <2>1. a \in OrderAnswer /\ a.op = "get_order_status"
    BY <1>2, <1>4, <1>6, <1>7 DEF Answer, OrderAnswer
  <2>2. 2 * latest.quantity - 2 * latest.quantity \in {0, 1}
    BY <1>7
  <2>3. TrueOf(a, kite)
    BY <1>2, <1>5, <2>2 DEF Answer, TrueOf, latest
  <2> QED BY <2>1, <2>3
<1>9. b \in OrderAnswer /\ b.op = "get_order_status" /\ TrueOf(b, kite)
  BY <1>2 DEF Answer, OrderAnswer, TrueOf
<1> HIDE DEF a, b
<1> QED BY <1>0, <1>8, <1>9, TellsKeeps

LEMMA KiteListsOrdersKeeps == ASSUME LoInv, KiteListsOrders PROVE LoInv'
<1> DEFINE a == Answer("get_orders", TRUE, Len(kite), "none", "", "", 0)
<1>1. a \in OrderAnswer /\ a.op = "get_orders" /\ a.id = Len(kite) /\ TrueOf(a, kite)
  BY SameOrders DEF Answer, OrderAnswer, TrueOf
<1> QED BY <1>1, TellsKeeps DEF KiteListsOrders

LEMMA KiteTellsAccountKeeps == ASSUME LoInv, KiteTellsAccount PROVE LoInv'
BY NoAnswerTrue, TellsKeeps DEF KiteTellsAccount

\* A call adds one order, of its own attempt.
LEMMA KiteTakesOrderKeeps == ASSUME LoInv, KiteTakesOrder PROVE LoInv'
<1> DEFINE id == Len(kite) + 1
           order == call.order
           o == OrderParams(order)
           a == Answer("place_order", TRUE, id, "pending", order.symbol, order.side, order.halves)
<1>0. call.stage = "checked" /\ call.op = "place_order" /\ Handled(a) /\ kite' = Append(kite, o)
  BY DEF KiteTakesOrder, Handled
<1>1. call \in CallRecord /\ call # NoCall
  BY <1>0, CallIsThere
<1>2. /\ CallUnderWay /\ order \in OrderCalls /\ attempts # <<>> /\ attempts[Len(attempts)] = "waiting"
      /\ \A n \in DOMAIN kite : kite[n].attempt # Len(attempts)
  BY <1>0, <1>1 DEF LoInv, CallUnderWay
<1>3. attempts \in Seq({"waiting", "answered", "raised"}) /\ id \in Nat /\ kite \in Seq(LiveOrder)
  BY SameOrders DEF LoInv, OrdersTypeOK
<1>4. /\ o \in LiveOrder /\ o.attempt = Len(attempts) /\ a \in OrderAnswer
      /\ \A q : (id \in DOMAIN q /\ q[id] = o) => TrueOf(a, q)
  BY <1>2, <1>3, OrderParamsSound
<1>a. a.op = "place_order" /\ a.id = id
  BY DEF Answer
<1>b. Len(attempts) \in DOMAIN attempts
  <2>1. Len(attempts) \in Nat /\ DOMAIN attempts = 1 .. Len(attempts) /\ Len(attempts) # 0
    BY <1>2, <1>3
  <2> QED BY <2>1
<1> HIDE DEF a, o, order
<1>5. /\ kite' \in Seq(LiveOrder) /\ DOMAIN kite = 1 .. Len(kite) /\ DOMAIN kite' = 1 .. Len(kite) + 1
      /\ kite'[id] = o /\ Len(kite) \in Nat
      /\ \A n \in DOMAIN kite : kite'[n] = kite[n]
  BY <1>0, <1>3, <1>4
<1>n. \A n \in DOMAIN kite' : n \in DOMAIN kite \/ n = id
  BY <1>5
<1>i. id \in DOMAIN kite' /\ id \notin DOMAIN kite /\ DOMAIN kite \subseteq DOMAIN kite'
  BY <1>5
<1> HIDE DEF id
<1>6. /\ call' \in CallRecord /\ call'.stage = "handled" /\ call'.op = call.op /\ call'.id = call.id
      /\ call'.order = call.order /\ call'.reply = a /\ call'.seen = call.seen
      /\ UNCHANGED <<lo, attempts, told, answer>>
  BY <1>0, <1>4, HandledSound
<1>7. OrdersTypeOK'
  BY <1>5, <1>6, <1>i DEF LoInv, OrdersTypeOK
<1>8. AnswersAreTrue'
  <2>1. TrueOf(answer, Append(kite, o))
    BY <1>4, SameOrders, TrueOfMore
  <2> QED BY <1>0, <1>6, <2>1, TrueOfKite
<1>9. LostOrdersAreFound'
  <2>0. told \subseteq DOMAIN kite
    BY DEF LoInv, OrdersTypeOK
  <2>1. \A m, n \in DOMAIN kite' : kite'[m].attempt = kite'[n].attempt => m = n
    BY <1>2, <1>4, <1>5, <1>n DEF LoInv, LostOrdersAreFound
  <2>2. \A n \in DOMAIN kite' : n \notin told => attempts[kite'[n].attempt] \in {"raised", "waiting"}
    BY <1>2, <1>4, <1>5, <1>n DEF LoInv, LostOrdersAreFound
  <2>3. \A k \in DOMAIN attempts : attempts[k] = "answered" => \E n \in told : kite'[n].attempt = k
    BY <1>5, <2>0 DEF LoInv, LostOrdersAreFound
  <2>4. (answer.ok /\ answer.op = "get_orders") =>
          \A n \in DOMAIN kite' : n \in told \/ attempts[kite'[n].attempt] = "waiting"
    BY <1>2, <1>4, <1>5, <1>n DEF LoInv, LostOrdersAreFound
  <2> QED BY <1>6, <2>1, <2>2, <2>3, <2>4 DEF LostOrdersAreFound
<1>10. CallUnderWay'
  <2>1. TrueOf(a, kite')
    BY <1>4, <1>5, <1>i
  <2> QED BY <1>0, <1>2, <1>4, <1>5, <1>6, <1>a, <1>i, <2>1, TrueOfKite
          DEF CallUnderWay, SeenLive, order
<1>11. \A n \in DOMAIN kite' : kite'[n].attempt \in DOMAIN attempts'
  BY <1>4, <1>5, <1>6, <1>n, <1>b DEF LoInv
<1> QED BY <1>7, <1>8, <1>9, <1>10, <1>11 DEF LoInv

\* An order that changes its state, and is not over, leaves what is under way as it is.
LEMMA RestatedKeeps ==
  ASSUME LoInv, NEW id \in DOMAIN kite, kite[id].state \notin OverStates, NEW state \in OrderStates,
         kite' = Restated(kite, id, state), UNCHANGED <<lo, attempts, told, answer>>,
         call' \in CallRecord \union {NoCall}, call' # NoCall => CallUnderWay'
  PROVE  LoInv'
<1>1. /\ kite' \in Seq(LiveOrder) /\ DOMAIN kite' = DOMAIN kite
      /\ \A n \in DOMAIN kite : kite'[n].attempt = kite[n].attempt
  BY SameOrders, RestatedOrders
<1>2. TrueOf(answer, kite')
  BY SameOrders, TrueOfRestated
<1> QED BY <1>1, <1>2, SameOrders, QuietStep

LEMMA KiteTakesCancellationKeeps == ASSUME LoInv, KiteTakesCancellation PROVE LoInv'
<1> DEFINE id == call.id
           a == Answer("cancel_order", TRUE, id, "cancelled", "", "", 0)
<1>0. /\ call.stage = "checked" /\ call.op = "cancel_order" /\ Handled(a) /\ kite[id].state = "OPEN"
      /\ kite' = Restated(kite, id, "CANCEL_PENDING")
  BY DEF KiteTakesCancellation, Handled, Restated
<1>1. call \in CallRecord /\ call # NoCall
  BY <1>0, CallIsThere
<1>2. id \in DOMAIN kite /\ id \in Nat
  BY <1>0, <1>1 DEF LoInv, CallUnderWay, CallRecord
<1>3. a \in OrderAnswer /\ a.op = "cancel_order" /\ \A q : TrueOf(a, q)
  BY <1>2 DEF Answer, OrderAnswer, TrueOf
<1> HIDE DEF a
<1>4. /\ CallUnderWay
      /\ call' \in CallRecord /\ call'.stage = "handled" /\ call'.op = call.op /\ call'.id = call.id
      /\ call'.reply = a /\ call'.seen = call.seen
      /\ UNCHANGED <<lo, attempts, told, answer>>
  BY <1>0, <1>3, HandledSound
<1>5. "CANCEL_PENDING" \in OrderStates /\ "OPEN" \notin OverStates
  BY DEF OrderStates, OverStates
<1>6. DOMAIN kite' = DOMAIN kite
  BY <1>0, <1>2, <1>5, SameOrders, RestatedOrders
<1>7. CallUnderWay'
  BY <1>0, <1>2, <1>3, <1>4, <1>6, TrueOfKite DEF CallUnderWay, SeenLive
<1> QED BY <1>0, <1>2, <1>4, <1>5, <1>7, RestatedKeeps

\* The exchange moves no order that is over, and asks for no cancellation.
LEMMA ExchangeMoves ==
  ASSUME LoInv, NEW id \in DOMAIN kite, Exchange(id)
  PROVE  \E state \in OrderStates \ {"CANCEL_PENDING"} :
           kite[id].state \notin OverStates /\ kite' = Restated(kite, id, state)
<1>1. kite[id] \in LiveOrder
  BY SameOrders
<1>2. kite[id].state \in OrderStates
  BY <1>1 DEF LiveOrder
<1>3. CASE kite[id].state = "OPEN"
  BY <1>3 DEF Exchange, OrderStates, OverStates, Restated
<1>4. CASE kite[id].state = "TRIGGER_PENDING"
  BY <1>4 DEF Exchange, OrderStates, OverStates, Restated
<1>5. CASE kite[id].state = "CANCEL_PENDING"
  BY <1>5 DEF Exchange, OrderStates, OverStates, Restated
<1>6. CASE kite[id].state \in OverStates
  BY <1>6 DEF Exchange, OverStates
<1> QED BY <1>2, <1>3, <1>4, <1>5, <1>6 DEF OrderStates, OverStates

LEMMA ExchangeKeeps == ASSUME LoInv, NEW id \in DOMAIN kite, Exchange(id) PROVE LoInv'
<1>1. PICK state \in OrderStates :
        kite[id].state \notin OverStates /\ kite' = Restated(kite, id, state)
  BY ExchangeMoves
<1>2. UNCHANGED <<lo, call, attempts, told, answer>>
  BY DEF Exchange
<1>3. /\ DOMAIN kite' = DOMAIN kite /\ Len(kite') = Len(kite)
      /\ \A n \in DOMAIN kite : kite'[n].attempt = kite[n].attempt
  BY <1>1, SameOrders, RestatedOrders
<1>4. ASSUME call # NoCall PROVE CallUnderWay'
  <2>1. CallUnderWay
    BY <1>4 DEF LoInv
  <2>2. call.stage = "handled" => TrueOf(call.reply, kite')
    BY <1>1, <2>1, SameOrders, TrueOfKite, TrueOfRestated DEF CallUnderWay
  <2> QED BY <1>2, <1>3, <2>1, <2>2, TrueOfKite DEF CallUnderWay, SeenLive
<1> QED BY <1>1, <1>2, <1>4, SameOrders, RestatedKeeps

\* A change of the environment reaches no call that has begun.
LEMMA EnvironmentKeeps == ASSUME LoInv, EnvironmentChanges PROVE LoInv'
<1>1. lo' \in [mode : ModeWords, enabled : BOOLEAN, env : ModeWords, authenticated : BOOLEAN,
               client : {NoClient, "connected"}, envChanges : Nat, logins : Nat]
  <2>1. PICK env \in ModeWords : lo' = [lo EXCEPT !.env = env, !.envChanges = @ + 1]
    BY DEF EnvironmentChanges
  <2> DEFINE changes == lo.envChanges + 1
  <2>2. changes \in Nat
    BY SameOrders
  <2>3. lo' = [lo EXCEPT !.env = env, !.envChanges = changes]
    BY <2>1
  <2> HIDE DEF changes
  <2> QED BY <2>2, <2>3, SameOrders
<1>2. call # NoCall => CallUnderWay'
  BY DEF LoInv, CallUnderWay, SeenLive, EnvironmentChanges, IsTrue
<1> QED BY <1>1, <1>2, SameOrders, QuietStep DEF EnvironmentChanges

\* The last attempt when its call ends.
LEMMA BecameSound ==
  ASSUME LoInv, call # NoCall, NEW outcome \in {"answered", "raised"}, Became(outcome)
  PROVE  /\ attempts' \in Seq({"waiting", "answered", "raised"}) /\ DOMAIN attempts' = DOMAIN attempts
         /\ call.op # "place_order" => attempts' = attempts
         /\ call.op = "place_order" =>
              \A k \in DOMAIN attempts : attempts'[k] = IF k = Len(attempts) THEN outcome ELSE attempts[k]
<1>1. attempts \in Seq({"waiting", "answered", "raised"})
  BY DEF LoInv, OrdersTypeOK
<1>2. CASE call.op = "place_order"
  <2>1. attempts' = [attempts EXCEPT ![Len(attempts)] = outcome]
    BY <1>2 DEF Became
  <2>2. attempts' \in Seq({"waiting", "answered", "raised"}) /\ DOMAIN attempts' = DOMAIN attempts
    <3>1. \A S : \A f \in Seq(S), k \in Nat, v \in S :
            [f EXCEPT ![k] = v] \in Seq(S) /\ DOMAIN [f EXCEPT ![k] = v] = DOMAIN f
      <4> TAKE S
      <4> TAKE f \in Seq(S), k \in Nat, v \in S
      <4> DEFINE n == Len(f)
                 g == [f EXCEPT ![k] = v]
      <4>1. n \in Nat /\ f \in [1 .. n -> S]
        OBVIOUS
      <4>2. g \in [1 .. n -> S] /\ DOMAIN g = DOMAIN f
        <5> HIDE DEF n
        <5> QED BY <4>1
      <4> HIDE DEF n, g
      <4>3. g \in Seq(S)
        BY <4>1, <4>2
      <4> QED BY <4>2, <4>3 DEF g
    <3>2. Len(attempts) \in Nat /\ outcome \in {"waiting", "answered", "raised"}
      BY <1>1
    <3> QED BY <1>1, <2>1, <3>1, <3>2
  <2>3. \A k \in DOMAIN attempts : attempts'[k] = IF k = Len(attempts) THEN outcome ELSE attempts[k]
    BY <1>1, <2>1
  <2> QED BY <1>2, <2>2, <2>3
<1>3. CASE call.op # "place_order"
  BY <1>1, <1>3 DEF Became
<1> QED BY <1>2, <1>3

\* A call that raises may leave an order behind that nobody was told of.
LEMMA RaisesKeeps == ASSUME LoInv, Raises PROVE LoInv'
<1>0. /\ call.stage \in {"checked", "handled"} /\ answer' = NoAnswer /\ Became("raised") /\ call' = NoCall
      /\ UNCHANGED <<lo, kite, told>>
  BY DEF Raises
<1>1. call # NoCall
  BY <1>0 DEF NoCall
<1>2. /\ attempts' \in Seq({"waiting", "answered", "raised"}) /\ DOMAIN attempts' = DOMAIN attempts
      /\ \A k \in DOMAIN attempts : attempts'[k] = attempts[k] \/ attempts'[k] = "raised"
  BY <1>0, <1>1, BecameSound
<1>3. OrdersTypeOK'
  BY <1>0, <1>2, NoAnswerTrue DEF LoInv, OrdersTypeOK
<1>4. AnswersAreTrue'
  BY <1>0, NoAnswerTrue, TrueOfKite
<1>5. LostOrdersAreFound'
  <2>1. \A n \in DOMAIN kite : kite[n].attempt \in DOMAIN attempts
    BY DEF LoInv
  <2>2. \A k \in DOMAIN attempts : attempts'[k] = "answered" => attempts[k] = "answered"
    BY <1>2
  <2> QED BY <1>0, <1>2, <2>1, <2>2, NoAnswerTrue DEF LoInv, LostOrdersAreFound
<1>6. \A n \in DOMAIN kite' : kite'[n].attempt \in DOMAIN attempts'
  BY <1>0, <1>2 DEF LoInv
<1> QED BY <1>0, <1>3, <1>4, <1>5, <1>6 DEF LoInv

\* An answer that comes tells the caller what it names.
LEMMA ReturnsKeeps == ASSUME LoInv, Returns PROVE LoInv'
<1> DEFINE a == call.reply
<1>0. /\ call.stage = "handled" /\ answer' = a /\ Became("answered") /\ call' = NoCall
      /\ told' = told \union IdsIn(a) /\ UNCHANGED <<lo, kite>>
  BY DEF Returns
<1>1. call # NoCall /\ call \in CallRecord
  BY <1>0, CallIsThere
<1>2. CallUnderWay /\ TrueOf(a, kite) /\ a \in OrderAnswer
  BY <1>0, <1>1, TrueOfKite DEF LoInv, CallUnderWay, CallRecord
<1>3. /\ attempts' \in Seq({"waiting", "answered", "raised"}) /\ DOMAIN attempts' = DOMAIN attempts
      /\ call.op # "place_order" => attempts' = attempts
      /\ call.op = "place_order" =>
           \A k \in DOMAIN attempts : attempts'[k] = IF k = Len(attempts) THEN "answered" ELSE attempts[k]
  BY <1>0, <1>1, BecameSound
<1>4. kite \in Seq(LiveOrder) /\ DOMAIN kite = 1 .. Len(kite) /\ told \subseteq DOMAIN kite
      /\ \A n \in DOMAIN kite : kite[n].attempt \in DOMAIN attempts
  BY SameOrders DEF LoInv, OrdersTypeOK
<1>5. \/ call.op = "place_order" /\ a.op = "place_order" /\ IdsIn(a) = {a.id} /\ a.id \in DOMAIN kite
         /\ kite[a.id].attempt = Len(attempts)
      \/ call.op # "place_order" /\ a.op = "get_orders" /\ IdsIn(a) = DOMAIN kite
      \/ call.op # "place_order" /\ a.op \notin {"place_order", "get_orders"} /\ IdsIn(a) = {}
  <2>1. CASE call.op = "place_order"
    BY <1>0, <1>2, <2>1 DEF CallUnderWay, IdsIn
  <2>2. CASE call.op # "place_order"
    BY <1>0, <1>2, <1>4, <2>2 DEF CallUnderWay, IdsIn
  <2> QED BY <2>1, <2>2
<1> HIDE DEF a
<1>6. told' \subseteq DOMAIN kite /\ told \subseteq told'
  BY <1>0, <1>4, <1>5
<1>7. OrdersTypeOK'
  BY <1>0, <1>2, <1>3, <1>6 DEF LoInv, OrdersTypeOK
<1>8. AnswersAreTrue'
  BY <1>0, <1>2, TrueOfKite
<1>9. LostOrdersAreFound'
  <2>1. /\ \A m, n \in DOMAIN kite : kite[m].attempt = kite[n].attempt => m = n
        /\ \A n \in DOMAIN kite : n \notin told => attempts[kite[n].attempt] \in {"raised", "waiting"}
        /\ \A k \in DOMAIN attempts : attempts[k] = "answered" => \E n \in told : kite[n].attempt = k
    BY DEF LoInv, LostOrdersAreFound
  <2>2. CASE call.op # "place_order"
    <3>1. a.op = "get_orders" => told' = DOMAIN kite
      BY <1>0, <1>4, <1>5, <2>2
    <3> QED BY <1>0, <1>3, <1>6, <2>1, <2>2, <3>1 DEF LostOrdersAreFound
  <2>3. CASE call.op = "place_order"
    <3>1. /\ a.op = "place_order" /\ told' = told \union {a.id} /\ a.id \in DOMAIN kite
          /\ kite[a.id].attempt = Len(attempts)
      BY <1>0, <1>5, <2>3
    <3>2. \A n \in DOMAIN kite : n \notin told' => attempts'[kite[n].attempt] \in {"raised", "waiting"}
      BY <1>3, <1>4, <2>1, <2>3, <3>1
    <3>3. \A k \in DOMAIN attempts : attempts'[k] = "answered" => \E n \in told' : kite[n].attempt = k
      BY <1>3, <2>1, <2>3, <3>1
    <3> QED BY <1>0, <1>3, <2>1, <3>1, <3>2, <3>3 DEF LostOrdersAreFound
  <2> QED BY <2>2, <2>3
<1>10. \A n \in DOMAIN kite' : kite'[n].attempt \in DOMAIN attempts'
  BY <1>0, <1>3, <1>4
<1> QED BY <1>0, <1>7, <1>8, <1>9, <1>10 DEF LoInv

\* Every step keeps the invariant.
LEMMA LoNextInv == ASSUME LoInv, [LoNext]_loVars PROVE LoInv'
<1>0. \A id \in told : id \in DOMAIN kite /\ id \in Nat
  BY DEF LoInv, OrdersTypeOK
<1>1. ASSUME NEW order \in OrderCalls, PlaceOrder(order) PROVE LoInv'
  BY <1>1, PlaceOrderKeeps
<1>2. ASSUME NEW id \in told, CancelOrder(id) PROVE LoInv'
  BY <1>2, CancelOrderKeeps
<1>3. ASSUME NEW id \in told, GetOrderStatus(id) PROVE LoInv'
  BY <1>0, <1>3, QueryKeeps DEF GetOrderStatus
<1>4. CASE GetOrders
  BY <1>4, QueryKeeps DEF GetOrders
<1>5. CASE GetAccount
  BY <1>5, QueryKeeps DEF GetAccount
<1>6. CASE Authenticate
  BY <1>6, AuthenticateKeeps
<1>7. CASE KiteTakesOrder
  BY <1>7, KiteTakesOrderKeeps
<1>8. CASE KiteTakesCancellation
  BY <1>8, KiteTakesCancellationKeeps
<1>9. CASE KiteTellsStatus \/ KiteListsOrders \/ KiteTellsAccount
  BY <1>9, KiteTellsStatusKeeps, KiteListsOrdersKeeps, KiteTellsAccountKeeps
<1>10. CASE Returns
  BY <1>10, ReturnsKeeps
<1>11. CASE Raises
  BY <1>11, RaisesKeeps
<1>12. CASE EnvironmentChanges
  BY <1>12, EnvironmentKeeps
<1>13. ASSUME NEW id \in DOMAIN kite, Exchange(id) PROVE LoInv'
  BY <1>13, ExchangeKeeps
<1>14. CASE UNCHANGED loVars
  <2>1. call # NoCall => CallUnderWay'
    BY <1>14 DEF loVars, LoInv, CallUnderWay, SeenLive, IsTrue
  <2> QED BY <1>14, <2>1, SameOrders, QuietStep DEF loVars
<1> QED BY <1>1, <1>2, <1>3, <1>4, <1>5, <1>6, <1>7, <1>8, <1>9, <1>10, <1>11, <1>12, <1>13, <1>14
        DEF LoNext

\* No step sends what the check of its call did not let through.
LEMMA LoNextSafe == ASSUME LoInv, [LoNext]_loVars PROVE [NothingIsSentUnlessLive]_loVars
<1>l. Len(kite) \in Nat
  BY SameOrders
<1>q. ASSUME kite' = kite PROVE NothingIsSentUnlessLive
  BY <1>l, <1>q DEF NothingIsSentUnlessLive
<1>s. ASSUME call.stage = "checked", call.op \in {"place_order", "cancel_order"} PROVE NothingIsSentUnlessLive
  <2>1. call # NoCall
    BY <1>s DEF NoCall
  <2>2. SeenLive
    BY <1>s, <2>1 DEF LoInv, CallUnderWay
  <2> QED BY <1>s, <2>2 DEF NothingIsSentUnlessLive, SeenLive
<1>1. CASE KiteTakesOrder \/ KiteTakesCancellation
  BY <1>1, <1>s DEF KiteTakesOrder, KiteTakesCancellation, Handled
<1>2. ASSUME NEW id \in DOMAIN kite, Exchange(id) PROVE NothingIsSentUnlessLive
  <2>1. PICK state \in OrderStates \ {"CANCEL_PENDING"} :
          kite[id].state \notin OverStates /\ kite' = Restated(kite, id, state)
    BY <1>2, ExchangeMoves
  <2>2. /\ Len(kite') = Len(kite)
        /\ \A n \in DOMAIN kite : kite'[n].state = IF n = id THEN state ELSE kite[n].state
    BY <2>1, SameOrders, RestatedOrders
  <2>3. ~(Len(kite') > Len(kite))
    BY <2>2, <1>l
  <2>4. \A n \in DOMAIN kite : kite'[n].state = "CANCEL_PENDING" => kite[n].state = "CANCEL_PENDING"
    BY <2>1, <2>2
  <2> QED BY <2>3, <2>4 DEF NothingIsSentUnlessLive
<1>3. ASSUME LoNext, ~(KiteTakesOrder \/ KiteTakesCancellation), ~(\E id \in DOMAIN kite : Exchange(id))
      PROVE  kite' = kite
  BY <1>3 DEF LoNext, Authenticate, PlaceOrder, CancelOrder, GetOrderStatus, GetOrders, GetAccount, Query,
              Refused, Begins, KiteTellsStatus, KiteListsOrders, KiteTellsAccount, Returns, Raises,
              EnvironmentChanges
<1> QED BY <1>1, <1>2, <1>3, <1>q

\* In every run of the broker object, whatever the calls, logins, lost answers and
\* fates of the orders, and whenever the environment changes: what reaches Kite was
\* let through by the check of its call, an answer about an order is true of it, and
\* an order nobody was told of is the one order of a call that raised.
THEOREM OrdersUnderControl == LoSpec => OrdersStayUnderControl
<1>1. LoInv => AnswersAreTrue /\ LostOrdersAreFound
  BY DEF LoInv
<1> QED BY LoInitInv, LoNextInv, LoNextSafe, <1>1, PTL DEF LoSpec, OrdersStayUnderControl
=============================================================================
