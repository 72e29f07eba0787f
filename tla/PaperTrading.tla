---------------------------- MODULE PaperTrading ----------------------------
(***************************************************************************)
(* The paper-trading engine (src/paper_trading/paper_engine.py) with the   *)
(* portfolio state it keeps (models.py), the risk gate it asks             *)
(* (src/risk/risk_engine.py) and the cost model it charges                 *)
(* (src/execution/cost_model.py).                                          *)
(*                                                                         *)
(* A session replays the bars of every symbol from the first one, over the *)
(* state the session before it left.  At each timestamp it walks the       *)
(* ranked symbols three times - fills, protective exits, signals - then    *)
(* marks the portfolio; pc and k say where in that walk the engine is.     *)
(* The units are those of Backtest: prices in 1/Den^3 ticks, money in      *)
(* 1/Den^4 ticks, quantities in whole lots.                                *)
(***************************************************************************)
EXTENDS Integers, Sequences, FiniteSets, FiniteSetsExt

CONSTANTS
  Symbols,
  Feeds,               \* possible market data: Seq of [Symbols -> bar or NONE]
  NumBars,             \* the length of every feed
  MaxSessions,         \* bound on the number of sessions
  InitialCapital,
  Den,                 \* the denominator of every rate below
  CommissionRate, SlippageRate,
  StopLossPct, TakeProfitPct, TrailingStopPct,
  PositionSizePct, MaxRiskPerTradePct, MaxDrawdownPct,
  Limits,              \* [positions, exposure] of the regimes that may prevail
  OverrideQuantity,    \* the cap of a portfolio plan, or NONE
  MaxOrdersPerSession,
  AllowNewRisk,
  Modes,               \* [nextBar, closeAtEnd] a session may be started with
  NONE                 \* Python's None

ASSUME ConfigAssumption ==
  /\ {NumBars, MaxSessions, InitialCapital, Den, MaxOrdersPerSession,
      PositionSizePct} \subseteq Nat \ {0}
  /\ {CommissionRate, SlippageRate, MaxRiskPerTradePct, MaxDrawdownPct}
       \subseteq Nat
  /\ CommissionRate + 2 * SlippageRate <= Den     \* a sale brings in money
  /\ {StopLossPct, TakeProfitPct, TrailingStopPct}
       \subseteq (Nat \ {0}) \union {NONE}
  /\ OverrideQuantity \in Nat \union {NONE}
  /\ Limits \subseteq [positions : Nat, exposure : Nat]
  /\ Modes \subseteq [nextBar : BOOLEAN, closeAtEnd : BOOLEAN]
  /\ AllowNewRisk \in BOOLEAN

\* A bar with nothing for validate_ohlcv_dataframe to reject or to warn of.
SoundBar == {b \in [open : Nat, high : Nat, low : Nat, close : Nat] :
               /\ 0 < b.low
               /\ b.low <= b.open  /\ b.open <= b.high
               /\ b.low <= b.close /\ b.close <= b.high}

\* What is traded is on a finite list, and the data is sound.
ASSUME FeedAssumption ==
  /\ IsFiniteSet(Symbols) /\ NONE \notin Nat
  /\ \A f \in Feeds, t \in 1..NumBars, s \in Symbols :
       f[t][s] # NONE => f[t][s] \in SoundBar

VARIABLES
  feed,        \* the bars of all symbols, [1..NumBars -> [Symbols -> bar]]
  session,     \* sessions started so far
  mode,        \* use_next_bar_fill and close_open_positions_at_end
  last,        \* the last timestamp of this session's data (session_date)
  rank,        \* the session's ranked symbols
  now, pc, k,  \* timestamp, phase of the walk, index of the symbol in rank
  cash, realized, \* PaperPortfolioState.cash and realized_pnl
  open,        \* open_positions
  closedPnl,   \* the sum of realized_pnl over closed_positions
  pending,     \* the PENDING members of orders
  lastPrice,   \* last_prices, NONE before the first
  equity, peak,\* pnl_history: its last equity and its highest
  orderCount   \* session_order_count

walk == <<session, mode, last, rank, now, pc, k>>
account == <<cash, realized, open, closedPnl>>
history == <<lastPrice, equity, peak>>
vars == <<feed, walk, account, pending, history, orderCount>>

-----------------------------------------------------------------------------
(* Market data                                                             *)

BarOf(s) == feed[now][s]
Has(s) == feed[now][s] # NONE

\* The symbols with enough bars, and the timestamps of a session up to l.
Frames(l) == {s \in Symbols :
                Cardinality({t \in 1..l : feed[t][s] # NONE}) >= 2}
Timeline(l) == {t \in 1..l : \E s \in Frames(l) : feed[t][s] # NONE}

Rankings(S) == {r \in [1..Cardinality(S) -> S] :
                  \A i, j \in 1..Cardinality(S) : r[i] = r[j] => i = j}

-----------------------------------------------------------------------------
(* Prices, costs and the value of the portfolio                            *)

Px(ticks) == ticks * Den * Den * Den
Value(price, quantity) == price * quantity * Den

FillPrice(side, raw) ==
  LET slip == (raw * SlippageRate) \div Den
  IN  IF side = "buy" THEN raw + slip ELSE raw - slip

\* Commission plus the slippage that is already part of the fill price.
TotalCost(side, raw, quantity) ==
  LET fill == FillPrice(side, raw)
  IN  raw * quantity * CommissionRate
        + Value(IF side = "buy" THEN fill - raw ELSE raw - fill, quantity)

CashNeeded(raw, q) == Value(FillPrice("buy", raw), q) + TotalCost("buy", raw, q)
Proceeds(raw, q) == Value(FillPrice("sell", raw), q) - TotalCost("sell", raw, q)

Mark(p) == IF lastPrice[p.symbol] = NONE THEN p.entryPrice
           ELSE Px(lastPrice[p.symbol])

Deployed == MapThenSumSet(LAMBDA p : Value(Mark(p), p.quantity), open)
CurrentEquity == cash + Deployed

InDrawdown == (peak - equity) * Den > MaxDrawdownPct * peak

-----------------------------------------------------------------------------
(* Positions                                                               *)

OpenOf(s) == {p \in open : p.symbol = s}
PendingOf(s) == {o \in pending : o.symbol = s}
PendingSells(s) == {o \in PendingOf(s) : o.side = "sell"}
Position(s) == CHOOSE p \in open : p.symbol = s

\* p after update_market_price(price): the trailing stop only moves up.
Marked(p, price) ==
  LET top   == IF price > p.highest THEN price ELSE p.highest
      trail == (top * (Den - TrailingStopPct)) \div Den
  IN  IF TrailingStopPct = NONE THEN [p EXCEPT !.highest = top]
      ELSE [p EXCEPT !.highest = top,
                     !.stop = IF p.stop = NONE \/ trail > p.stop
                              THEN trail ELSE p.stop]

\* The price of the protective exit the bar calls for, NONE if it does not.
ExitPrice(p, bar) ==
  IF p.stop # NONE /\ Px(bar.open) <= p.stop THEN Px(bar.open)
  ELSE IF p.stop # NONE /\ Px(bar.low) <= p.stop THEN p.stop
  ELSE IF p.take # NONE /\ Px(bar.open) >= p.take THEN Px(bar.open)
  ELSE IF p.take # NONE /\ Px(bar.high) >= p.take THEN p.take
  ELSE NONE

-----------------------------------------------------------------------------
(* Order execution                                                         *)

\* The fill of a BUY: entry costs are realized at once.
OpenPosition(o, raw) ==
  /\ cash' = cash - CashNeeded(raw, o.quantity)
  /\ realized' = realized - TotalCost("buy", raw, o.quantity)
  /\ open' = open \union
       {[symbol |-> o.symbol, entryPrice |-> FillPrice("buy", raw),
         quantity |-> o.quantity,
         entryFees |-> TotalCost("buy", raw, o.quantity), entryBar |-> now,
         highest |-> FillPrice("buy", raw), stop |-> o.stop, take |-> o.take]}
  /\ UNCHANGED closedPnl

\* A BUY is rejected when the cash has become too short for it.
ExecuteBuy(o, raw) ==
  IF CashNeeded(raw, o.quantity) > cash THEN UNCHANGED account
  ELSE OpenPosition(o, raw)

Gross(p, raw) == Value(FillPrice("sell", raw) - p.entryPrice, p.quantity)

\* Broken variant: the entry costs are left out of the trade's result.
TradePnl_ForgetsEntry(p, raw) ==
  Gross(p, raw) - TotalCost("sell", raw, p.quantity)

\* What the whole trade made, the costs of both legs included.
TradePnl(p, raw) ==
  Gross(p, raw) - p.entryFees - TotalCost("sell", raw, p.quantity)

\* Broken variant: the entry costs, realized at the fill, are realized again.
ClosePosition_ChargesEntryTwice(p, raw) ==
  /\ cash' = cash + Proceeds(raw, p.quantity)
  /\ realized' = realized + TradePnl(p, raw)
  /\ closedPnl' = closedPnl + TradePnl(p, raw)
  /\ open' = open \ {p}

\* The sale of position p; realized already holds its entry costs.
ClosePosition(p, raw) ==
  /\ cash' = cash + Proceeds(raw, p.quantity)
  /\ realized' = realized + TradePnl(p, raw) + p.entryFees
  /\ closedPnl' = closedPnl + TradePnl(p, raw)
  /\ open' = open \ {p}

\* A SELL is rejected when there is no position left to close.
ExecuteSell(o, raw) ==
  IF OpenOf(o.symbol) = {} THEN UNCHANGED account
  ELSE ClosePosition(Position(o.symbol), raw)

Execute(o, raw) ==
  IF o.side = "buy" THEN ExecuteBuy(o, raw) ELSE ExecuteSell(o, raw)

-----------------------------------------------------------------------------
(* The session                                                             *)

Init ==
  /\ feed \in Feeds
  /\ session = 0 /\ mode = NONE /\ last = 0 /\ rank = <<>> /\ now = 0 /\ pc = "idle" /\ k = 1
  /\ cash = InitialCapital * Den * Den * Den * Den
  /\ realized = 0 /\ open = {} /\ closedPnl = 0
  /\ pending = {}
  /\ lastPrice = [s \in Symbols |-> NONE]
  /\ equity = 0 /\ peak = 0
  /\ orderCount = 0

\* run() up to the loop: flags, session date and ranking are inputs.
StartSession ==
  /\ pc = "idle" /\ session < MaxSessions
  /\ \E l \in 2..NumBars :
       /\ Frames(l) # {}
       /\ last' = l
       /\ now' = Min(Timeline(l))
       /\ \E r \in Rankings(Frames(l)) : rank' = r
  /\ session' = session + 1 /\ mode' \in Modes
  /\ pc' = "fill" /\ k' = 1
  /\ orderCount' = 0
  /\ UNCHANGED <<feed, account, pending, history>>

\* On to the next symbol of the phase, or to the next phase.
Advance(next) ==
  /\ IF k < Len(rank) THEN k' = k + 1 /\ pc' = pc ELSE k' = 1 /\ pc' = next
  /\ UNCHANGED <<feed, session, mode, last, rank, now>>

\* Broken variant: the bar is not compared with the bar of the signal.
Fillable_AnyBar(s) == {o \in PendingOf(s) : Has(s)}

Fillable(s) == {o \in PendingOf(s) : Has(s) /\ now > o.timestamp}

FillPending ==
  /\ pc = "fill"
  /\ \E o \in Fillable(rank[k]) :
       /\ Execute(o, Px(BarOf(o.symbol).open))
       /\ pending' = pending \ {o}
  /\ UNCHANGED <<feed, walk, history, orderCount>>

NothingToFill ==
  /\ pc = "fill" /\ Fillable(rank[k]) = {}
  /\ Advance("exit")
  /\ UNCHANGED <<account, pending, history, orderCount>>

\* A pending SELL keeps the protective exits of its symbol switched off.
Protected(s) == Has(s) /\ OpenOf(s) # {} /\ PendingSells(s) = {}

Unprotected ==
  /\ pc = "exit" /\ ~Protected(rank[k])
  /\ Advance("evaluate")
  /\ UNCHANGED <<account, pending, history, orderCount>>

\* The bar's high is fed to the trailing stop before the levels are compared.
ProtectiveExit ==
  /\ pc = "exit" /\ Protected(rank[k])
  /\ LET p   == Position(rank[k])
         q   == Marked(p, Px(BarOf(rank[k]).high))
         raw == ExitPrice(q, BarOf(rank[k]))
     IN  IF raw # NONE THEN ClosePosition(p, raw)
         ELSE /\ open' = (open \ {p}) \union {q}
              /\ UNCHANGED <<cash, realized, closedPnl>>
  /\ Advance("evaluate")
  /\ UNCHANGED <<pending, history, orderCount>>

-----------------------------------------------------------------------------
(* Signals                                                                 *)

Stop(close) == IF StopLossPct = NONE THEN NONE
               ELSE (Px(close) * (Den - StopLossPct)) \div Den
Take(close) == IF TakeProfitPct = NONE THEN NONE
               ELSE (Px(close) * (Den + TakeProfitPct)) \div Den

\* check_entry: the drawdown is that of the last snapshot, the positions are
\* the open ones - orders still pending are not counted.
CheckEntry(lim) ==
  /\ ~InDrawdown
  /\ Cardinality(open) < lim.positions
  /\ CurrentEquity > 0 => Deployed * Den < lim.exposure * CurrentEquity

\* The lots a slot of the portfolio buys at this close.
Sized(close, lim) ==
  LET lot      == Value(Px(close), 1)
      share    == CurrentEquity \div lim.positions
      slot     == IF cash < share THEN cash ELSE share
      straight == (slot * PositionSizePct) \div (Den * lot)
      risked   == (CurrentEquity * MaxRiskPerTradePct) \div (StopLossPct * lot)
  IN  Min({straight}
            \union (IF StopLossPct = NONE THEN {} ELSE {risked})
            \union (IF OverrideQuantity = NONE THEN {} ELSE {OverrideQuantity}))

\* Orders wait for the next bar, or are executed at once at the close.
Submit(o, close) ==
  /\ orderCount' = orderCount + 1
  /\ IF mode.nextBar
     THEN pending' = pending \union {o} /\ UNCHANGED account
     ELSE Execute(o, Px(close)) /\ UNCHANGED pending

\* Broken variant: only a BUY that waits holds back the next signal.
CanSignal_OverSells(s) ==
  pc = "evaluate" /\ Has(s) /\ PendingOf(s) = PendingSells(s)

CanSignal(s) == pc = "evaluate" /\ Has(s) /\ PendingOf(s) = {}

\* The order a BUY at close c asks for under the limits lim, checked and sized.
Buy(s, c, lim) ==
  [symbol |-> s, side |-> "buy", timestamp |-> now, quantity |-> Sized(c, lim),
   stop |-> Stop(c), take |-> Take(c)]

BuySignal(s) ==
  /\ CanSignal(s)
  /\ AllowNewRisk /\ OpenOf(s) = {}
  /\ orderCount < MaxOrdersPerSession
  /\ \E lim \in Limits : /\ CheckEntry(lim)
                         /\ Sized(BarOf(s).close, lim) > 0
                         /\ Submit(Buy(s, BarOf(s).close, lim), BarOf(s).close)
  /\ Advance("mark")
  /\ UNCHANGED history

SellSignal(s) ==
  /\ CanSignal(s)
  /\ OpenOf(s) # {}
  /\ Submit([symbol |-> s, side |-> "sell", timestamp |-> now,
             quantity |-> Position(s).quantity, stop |-> NONE, take |-> NONE],
            BarOf(s).close)
  /\ Advance("mark")
  /\ UNCHANGED history

\* No trade advised, an order pending, HOLD, or a signal that was turned down.
NoOrder ==
  /\ pc = "evaluate"
  /\ Advance("mark")
  /\ UNCHANGED <<account, pending, history, orderCount>>

-----------------------------------------------------------------------------
(* Marking and the end of the session                                      *)

Snapshot(c, positions, prices) ==
  /\ equity' = c + MapThenSumSet(
                     LAMBDA p : Value(Px(prices[p.symbol]), p.quantity), positions)
  /\ peak' = IF equity' > peak THEN equity' ELSE peak

MarkToMarket ==
  /\ pc = "mark"
  /\ LET prices == [s \in Symbols |-> IF s \in Frames(last) /\ Has(s)
                                      THEN BarOf(s).close ELSE lastPrice[s]]
         later  == {t \in Timeline(last) : t > now}
     IN  /\ lastPrice' = prices
         /\ open' = {Marked(p, Px(prices[p.symbol])) : p \in open}
         /\ Snapshot(cash, open, prices)
         /\ IF later # {} THEN now' = Min(later) /\ pc' = "fill"
            ELSE now' = now /\ pc' = (IF mode.closeAtEnd THEN "close" ELSE "idle")
  /\ k' = 1
  /\ UNCHANGED <<feed, session, mode, last, rank, cash, realized, closedPnl,
                 pending, orderCount>>

LastClose(s) ==
  LET t == Max({u \in 1..last : feed[u][s] # NONE}) IN feed[t][s].close

\* Orders still pending are left as they are.
CloseAtSessionEnd ==
  /\ pc = "close"
  /\ \E p \in open : /\ p.symbol \in Frames(last)
                     /\ ClosePosition(p, Px(LastClose(p.symbol)))
  /\ UNCHANGED <<feed, walk, pending, history, orderCount>>

EndSession ==
  /\ pc = "close"
  /\ \A p \in open : p.symbol \notin Frames(last)
  /\ Snapshot(cash, open, lastPrice)
  /\ pc' = "idle"
  /\ UNCHANGED <<feed, session, mode, last, rank, now, k, account, pending,
                 lastPrice, orderCount>>

Next ==
  \/ StartSession
  \/ FillPending \/ NothingToFill
  \/ Unprotected \/ ProtectiveExit
  \/ BuySignal(rank[k]) \/ SellSignal(rank[k]) \/ NoOrder
  \/ MarkToMarket
  \/ CloseAtSessionEnd \/ EndSession

Spec == Init /\ [][Next]_vars

-----------------------------------------------------------------------------
(* Properties                                                              *)

Pos == [symbol : Symbols, entryPrice : Nat \ {0}, quantity : Nat \ {0},
        entryFees : Nat, entryBar : 1..NumBars, highest : Nat,
        stop : Int \union {NONE}, take : Int \union {NONE}]

Order == [symbol : Symbols, side : {"buy", "sell"}, timestamp : 1..NumBars,
          quantity : Nat \ {0}, stop : Int \union {NONE},
          take : Int \union {NONE}]

\* Types of the state: quantities are positive, the walk stays inside the
\* session's data and the symbols that are ranked.
TypeOK ==
  /\ feed \in Feeds
  /\ session \in 0..MaxSessions /\ mode \in Modes \union {NONE}
  /\ last \in 0..NumBars /\ now \in 0..NumBars
  /\ pc \in {"idle", "fill", "exit", "evaluate", "mark", "close"}
  /\ rank \in Seq(Symbols) /\ k \in 1 .. (Len(rank) + 1)
  /\ pc # "idle" => now \in Timeline(last) /\ k \in 1..Len(rank)
  /\ {cash, realized, closedPnl, equity} \subseteq Int /\ peak \in Nat
  /\ open \subseteq Pos /\ pending \subseteq Order
  /\ lastPrice \in [Symbols -> Nat \union {NONE}]
  /\ orderCount \in Nat

EntryFees == MapThenSumSet(LAMBDA p : p.entryFees, open)

\* The book value of the portfolio: what the open positions cost, fees too.
Book == EntryFees
          + MapThenSumSet(LAMBDA p : Value(p.entryPrice, p.quantity), open)

\* Across fills, protective exits, rejections and sessions, realized_pnl is
\* what the closed positions made less the entry costs of the open ones, which
\* _execute_order charges when a position is opened and takes back when it is
\* closed.
RealizedMatchesPositions == realized = closedPnl - EntryFees

\* Whatever is sized at one close and filled at a later open, after other
\* symbols have spent the same cash, _execute_order never overdraws the account.
NeverOverdrawn == cash >= 0

\* The list of pending orders and the list of positions agree: no symbol has
\* two positions or two pending orders; a pending BUY is for a symbol without a
\* position; a pending SELL is for the whole position of its symbol, and can
\* have lost that position only to the forced close of the session's end - so
\* the orphan it leaves can never close a position opened after it.
QueueAgreesWithPositions ==
  \A s \in Symbols :
    /\ Cardinality(OpenOf(s)) <= 1 /\ Cardinality(PendingOf(s)) <= 1
    /\ \A o \in PendingOf(s) :
         IF o.side = "buy" THEN OpenOf(s) = {}
         ELSE /\ \A p \in OpenOf(s) : p.quantity = o.quantity
              /\ OpenOf(s) # {} \/ \E m \in Modes : m.closeAtEnd

\* In next-bar mode a signal never trades on its own bar or before it, not even
\* when a later session replays the bars before the signal: only an order whose
\* signal is older than the bar, a protective exit or the forced close trade.  A
\* protective exit pays for a price the bar has traded at, with the trailing stop
\* raised in the same step and gaps through a level - up to the two units of price
\* by which the rounding of the slippage can differ between the prices of a bar.
TradesAreReal ==
  [][cash' # cash =>
       \/ pc = "close"
       \/ pc = "evaluate" /\ ~mode.nextBar
       \/ pc = "fill" /\ \E o \in pending \ pending' : o.timestamp < now
       \/ /\ pc = "exit"
          /\ LET p == Position(rank[k])
                 b == BarOf(rank[k])
             IN  cash' - cash \in Proceeds(Px(b.low), p.quantity)
                                    .. Proceeds(Px(b.high), p.quantity)
                                         + Value(2, p.quantity)]_vars

Account == INSTANCE TradingAccount
             WITH Initial <- InitialCapital * Den * Den * Den * Den,
                  cash <- cash, book <- Book, realized <- closedPnl

\* The paper portfolio implements the abstract trading account: money only
\* moves between cash and the book, and profit is made by selling.
ImplementsAccount == Account!Spec
=============================================================================
