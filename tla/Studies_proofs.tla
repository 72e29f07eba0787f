--------------------------- MODULE Studies_proofs ---------------------------
(***************************************************************************)
(* What holds of the studies for every data set and configuration: the     *)
(* research runner never loses what a checkpoint names, nor does a regime  *)
(* matrix, which never repeats a unit either; a strategy whose             *)
(* stop is its own never holds a position without one, the intraday        *)
(* studies end every day flat, the DRAS backtest enters within its daily   *)
(* limits, the signals of a live session fit its limits together, the      *)
(* plan made of the picks keeps to its budgets, with totals that are true, *)
(* and a regime policy is judged on bars it was not trained on.            *)
(***************************************************************************)
EXTENDS IntradayBacktests, LiveSignals, ResearchRunner, StrategyMatrix, RegimeWalkForward,
        PortfolioPlan, SetSums, FiniteSetTheorems, WellFoundedInduction, TLAPS

-----------------------------------------------------------------------------
(* The stop of the compression burst                                       *)
(*                                                                         *)
(* The argument is about the hand-over between strategy and engine: an     *)
(* order to buy was placed on a signal that set the stop, and the stop is  *)
(* given up only together with an exit signal, which the engine turns into *)
(* an order as long as it holds the position.                              *)

SignalSpec == /\ ClockInit /\ SignalInit
              /\ [][SignalNext]_<<clockVars, signalVars>>

\* The strengthening: an order to buy that waits for the next bar has its stop.
OrderHasStop ==
  (strategy = "Burst" /\ order = "BUY") => trailingStop > 0

SignalInv == HeldHasStop /\ OrderHasStop

\* What the compression burst can do with its stop on a bar.
LEMMA BurstStop ==
  ASSUME NEW f, NEW t, NEW stop, f.stopLevel > 0
  PROVE  LET b == Burst(f, t, stop)
         IN  /\ b.signal = BUY => b.stop > 0
             /\ stop > 0 => (b.stop > 0 \/ b.signal = EXIT)
<1>1. BUY # EXIT /\ BUY # HOLD
  BY StrategyAssumption
<1> QED
  BY <1>1 DEF Burst

LEMMA BurstBars ==
  ASSUME NEW f \in Bars["Burst"]
  PROVE  f.stopLevel > 0
<1>1. f \in {g \in Facts({"close", "ema", "stopLevel"}, {"confirmed"}) :
               0 < g.stopLevel /\ g.stopLevel <= g.close}
  BY DEF Bars, BurstFacts
<1> HIDE DEF Facts
<1> QED
  BY <1>1

\* What the engine holds after a fill, and what it orders after a signal.
LEMMA EngineFillsAndOrders ==
  ASSUME held' \in FillOrder, NEW signal, order' \in OrdersFor(signal, held')
  PROVE  /\ held' => (order = "BUY" \/ (held /\ order # "EXIT"))
         /\ order' = "BUY" => signal = BUY
         /\ (held' /\ signal = EXIT) => order' = "EXIT"
<1>1. BUY # EXIT
  BY StrategyAssumption
<1> QED
  BY <1>1 DEF FillOrder, OrdersFor

LEMMA BarKeeps ==
  ASSUME SignalInv, NEW f \in Bars[strategy], SignalBar(f)
  PROVE  SignalInv'
<1> SUFFICES ASSUME strategy' = "Burst"
             PROVE  SignalInv'
  BY DEF SignalInv, HeldHasStop, OrderHasStop
<1>1. strategy = "Burst"
  BY DEF SignalBar
<1> DEFINE b == Burst(f, clock', trailingStop)
<1>2. Answer(f, clock') = b.signal /\ trailingStop' = b.stop
  BY <1>1 DEF SignalBar, Answer
<1>3. /\ held' => (order = "BUY" \/ (held /\ order # "EXIT"))
      /\ order' = "BUY" => b.signal = BUY
      /\ (held' /\ b.signal = EXIT) => order' = "EXIT"
  <2>1. held' \in FillOrder /\ order' \in OrdersFor(b.signal, held')
    BY <1>2 DEF SignalBar
  <2> QED
    BY <2>1, EngineFillsAndOrders
<1>4. /\ b.signal = BUY => b.stop > 0
      /\ trailingStop > 0 => (b.stop > 0 \/ b.signal = EXIT)
  BY <1>1, BurstBars, BurstStop
<1>5. held' => trailingStop > 0
  BY <1>1, <1>3 DEF SignalInv, HeldHasStop, OrderHasStop
<1> HIDE DEF b
<1> QED
  BY <1>2, <1>3, <1>4, <1>5 DEF SignalInv, HeldHasStop, OrderHasStop

\* A position of the compression burst always has a stop or is on its way out,
\* although the strategy sets its stop on a signal and is told of no fill.
THEOREM StopSafety == SignalSpec => []HeldHasStop
<1>1. SignalInit => SignalInv
  BY DEF SignalInit, SignalInv, HeldHasStop, OrderHasStop
<1>2. SignalInv /\ [SignalNext]_<<clockVars, signalVars>> => SignalInv'
  <2> SUFFICES ASSUME SignalInv, [SignalNext]_<<clockVars, signalVars>>
               PROVE  SignalInv'
    OBVIOUS
  <2>1. CASE SignalNext
    BY <2>1, BarKeeps DEF SignalNext
  <2>2. CASE UNCHANGED <<clockVars, signalVars>>
    BY <2>2 DEF signalVars, SignalInv, HeldHasStop, OrderHasStop
  <2> QED
    BY <2>1, <2>2
<1>3. SignalInv => HeldHasStop
  BY DEF SignalInv
<1> QED
  BY <1>1, <1>2, <1>3, PTL DEF SignalSpec

-----------------------------------------------------------------------------
(* Flat overnight                                                          *)
(*                                                                         *)
(* The DRAS backtest closes on every bar from 15:15 and enters on none of  *)
(* them; the trend backtest closes at the end of its session and enters    *)
(* only within it.  A strategy that squares off by the clock answers every *)
(* bar from 15:20 with an exit: the first of them stops the buying and     *)
(* orders the exit, which fills on the next.                               *)

LEMMA EarliestIsFirst ==
  ASSUME NEW times \in SUBSET Nat, times # {}
  PROVE  Earliest(times) \in times /\ \A u \in times : Earliest(times) <= u
<1>1. PICK t \in times : \A u \in times : ~(<<u, t>> \in OpToRel(<, Nat))
  BY WFMin, NatLessThanWellFounded
<1>2. \A u \in times : ~(u < t)
  BY <1>1 DEF OpToRel
<1>3. \A u \in times : t <= u
  <2>1. \A u \in Nat : u < t \/ t <= u
    OBVIOUS
  <2> QED
    BY <1>2, <2>1
<1> QED
  BY <1>3 DEF Earliest

OnGrid == clock = 0 \/ clock \in BarTimes

LEMMA GridIsPositive == \A t \in BarTimes : t \in Nat /\ t > 0
BY GridAssumption

\* A bar follows the one before it, or opens the next day.
LEMMA NextBarFacts ==
  ASSUME NextBar
  PROVE  /\ clock' \in BarTimes
         /\ \/ ~NewDay /\ \A t \in BarTimes : t > clock => clock' <= t
            \/ /\ \A t \in BarTimes : ~(t > clock)
               /\ \A t \in BarTimes : clock' <= t
<1> DEFINE later == {t \in BarTimes : t > clock}
<1>1. BarTimes \in SUBSET Nat /\ BarTimes # {} /\ later \in SUBSET Nat
  <2>1. BarTimes # {} /\ later \in SUBSET BarTimes
    BY GridAssumption
  <2> HIDE DEF later
  <2> QED
    BY <2>1, GridIsPositive
<1>2. CASE later # {} /\ clock' = Earliest(later) /\ UNCHANGED day
  <2>1. clock' \in later /\ \A t \in later : clock' <= t
    <3> HIDE DEF later
    <3> QED
      BY <1>1, <1>2, EarliestIsFirst
  <2> QED
    BY <2>1, <1>2 DEF NewDay
<1>3. CASE later = {} /\ clock' = Earliest(BarTimes)
  <2>1. clock' \in BarTimes /\ \A t \in BarTimes : clock' <= t
    BY <1>1, <1>3, EarliestIsFirst
  <2> QED
    BY <2>1, <1>3
<1> QED
  BY <1>2, <1>3 DEF NextBar

-----------------------------------------------------------------------------
(* The DRAS backtest: what each part of a turn makes of the position       *)

LEMMA LegKeepsBook ==
  ASSUME NEW st, "position" \in DOMAIN st.book, NEW exit, NEW qty, NEW reason
  PROVE  /\ DOMAIN CloseLeg(st, exit, qty, reason) = {"book", "trades"}
         /\ DOMAIN CloseLeg(st, exit, qty, reason).book = DOMAIN st.book
BY DEF CloseLeg

LEMMA CloseKeepsBook ==
  ASSUME NEW st, "position" \in DOMAIN st.book, NEW exit, NEW reason
  PROVE  /\ DOMAIN CloseAll(st, exit, reason).book = DOMAIN st.book
         /\ CloseAll(st, exit, reason).book.position = 0
<1> DEFINE closed == CloseLeg(st, exit, Shares(st.book.position), reason)
<1>2. DOMAIN closed = {"book", "trades"} /\ DOMAIN closed.book = DOMAIN st.book
  BY LegKeepsBook
<1>3. CloseAll(st, exit, reason) = [closed EXCEPT !.book = Flat(@)]
  BY DEF CloseAll
<1>4. DOMAIN Flat(closed.book) = DOMAIN st.book /\ Flat(closed.book).position = 0
  <2> HIDE DEF closed
  <2> QED
    BY <1>2 DEF Flat
<1>5. CloseAll(st, exit, reason).book = Flat(closed.book)
  <2> HIDE DEF closed
  <2> QED
    BY <1>2, <1>3
<1> QED
  BY <1>4, <1>5

LEMMA ExitsKeepBook ==
  ASSUME NEW st, DOMAIN st = {"book", "trades"}, "position" \in DOMAIN st.book,
         NEW b
  PROVE  /\ DOMAIN Exits(st, b).book = DOMAIN st.book
         /\ IsEod(clock') => Exits(st, b).book.position = 0
<1> DEFINE k == UpdateLevels(st.book, b)
           stop == EffectiveStop(k, b)
           reason == IF stop = k.activeTsl THEN "trail_stop" ELSE "stop_loss"
           now == [st EXCEPT !.book = k]
           half == PartialExit(now, b)
<1>1. DOMAIN k = DOMAIN st.book
  BY DEF UpdateLevels
<1>2. now.book = k
  <2> HIDE DEF k
  <2> QED
    OBVIOUS
<1>3. "position" \in DOMAIN now.book
  BY <1>1, <1>2
<1>4. DOMAIN half.book = DOMAIN st.book
  <2> DEFINE exit == Better(SideOf(now.book), Tp1Price(now.book), b.close)
             qty == Shares(now.book.position) \div 2
             closed == CloseLeg(now, exit, qty, "tp1_partial")
  <2>1. half = now \/ half = [closed EXCEPT !.book.halfExited = TRUE]
    BY DEF PartialExit
  <2>2. DOMAIN closed = {"book", "trades"} /\ DOMAIN closed.book = DOMAIN now.book
    <3> HIDE DEF now, exit, qty
    <3> QED
      BY <1>3, LegKeepsBook
  <2>3. DOMAIN now.book = DOMAIN st.book
    BY <1>1, <1>2
  <2> HIDE DEF closed, half, now, k
  <2> QED
    BY <2>1, <2>2, <2>3, <1>1, <1>2
<1>5. Exits(st, b) = IF IsEod(clock') THEN CloseAll(now, b.close, "eod_exit")
                     ELSE StopExit(half, b, stop, reason)
  BY DEF Exits
<1> HIDE DEF k, now, half, stop, reason
<1>6. CASE IsEod(clock')
  BY <1>6, <1>5, <1>3, <1>2, <1>1, CloseKeepsBook
<1>7. CASE ~IsEod(clock')
  <2>1. Exits(st, b) = half \/ Exits(st, b) = CloseAll(half, stop, reason)
    BY <1>7, <1>5 DEF StopExit
  <2> QED
    BY <2>1, <1>4, <1>7, CloseKeepsBook
<1> QED
  BY <1>6, <1>7

LEMMA EntryKeepsBook ==
  ASSUME NEW k, NEW b, clock' \in Nat
  PROVE  /\ DOMAIN Entry(k, b) = DOMAIN k
         /\ IsEod(clock') => Entry(k, b) = k
<1>1. IsEod(clock') => ~InWindow(clock')
  BY DEF IsEod, InWindow
<1>2. ~InWindow(clock') => Entry(k, b) = k
  BY DEF Entry
<1>3. DOMAIN Entry(k, b) = DOMAIN k
  BY DEF Entry
<1> QED
  BY <1>1, <1>2, <1>3

\* The other two studies, where they began.
TrendRests == trade.position = 0
SignalRests == held = FALSE /\ order = "none"

DrasInv ==
  /\ OnGrid /\ "position" \in DOMAIN book /\ DrasIsSquaredOff
  /\ TrendRests /\ SignalRests

LEMMA DrasBarHolds ==
  ASSUME DrasInv, NEW b, DrasBar(b)
  PROVE  /\ OnGrid' /\ ("position" \in DOMAIN book') /\ DrasIsSquaredOff'
<1> DEFINE k == [DailyReset(book) EXCEPT !.close = b.close]
           st == [book |-> k, trades |-> trades]
           after == IF k.position # 0 THEN Exits(st, b)
                    ELSE [st EXCEPT !.book = Entry(k, b)]
<1>1. clock' \in BarTimes /\ clock' \in Nat
  BY NextBarFacts, GridIsPositive DEF DrasBar
<1>2. "position" \in DOMAIN k
  BY DEF DailyReset, DrasInv
<1>3. book' = after.book
  BY DEF DrasBar
<1>4. st.book = k /\ DOMAIN st = {"book", "trades"}
  OBVIOUS
<1>5. CASE k.position # 0
  <2>1. book' = Exits(st, b).book
    BY <1>5, <1>3
  <2> HIDE DEF k, st
  <2>2. DOMAIN book' = DOMAIN k /\ (IsEod(clock') => book'.position = 0)
    BY <2>1, <1>2, <1>4, ExitsKeepBook
  <2> QED
    BY <2>2, <1>1, <1>2 DEF OnGrid, DrasIsSquaredOff
<1>6. CASE k.position = 0
  <2>1. book' = Entry(k, b)
    <3>1. book' = [st EXCEPT !.book = Entry(k, b)].book
      BY <1>6, <1>3
    <3> HIDE DEF k, Entry, st
    <3> QED
      BY <3>1, <1>4
  <2> HIDE DEF k, st
  <2>2. DOMAIN book' = DOMAIN k /\ (IsEod(clock') => book'.position = 0)
    BY <2>1, <1>1, <1>6, EntryKeepsBook
  <2> QED
    BY <2>2, <1>1, <1>2 DEF OnGrid, DrasIsSquaredOff
<1> QED
  BY <1>5, <1>6

LEMMA DrasEndHolds ==
  ASSUME DrasInv, EndOfData
  PROVE  /\ OnGrid' /\ ("position" \in DOMAIN book') /\ DrasIsSquaredOff'
<1> DEFINE st == [book |-> book, trades |-> trades]
           after == IF book.position # 0
                    THEN CloseAll(st, book.close, "end_of_data") ELSE st
<1>1. clock' = clock /\ book' = [after.book EXCEPT !.done = TRUE]
  BY DEF EndOfData, clockVars
<1>2. st.book = book
  OBVIOUS
<1>3. DOMAIN after.book = DOMAIN book /\ after.book.position = 0
  <2>1. CASE book.position # 0
    <3>1. after = CloseAll(st, book.close, "end_of_data")
      BY <2>1
    <3> HIDE DEF st, after
    <3> QED
      BY <3>1, <1>2, CloseKeepsBook DEF DrasInv
  <2> QED
    BY <2>1, <1>2
<1>4. DOMAIN book' = DOMAIN book /\ book'.position = 0
  <2> HIDE DEF after
  <2> QED
    BY <1>1, <1>3 DEF DrasInv
<1> QED
  BY <1>1, <1>4 DEF DrasInv, OnGrid, DrasIsSquaredOff

LEMMA DrasStepHolds == DrasInv /\ [DrasStep]_intradayVars => DrasInv'
<1> SUFFICES ASSUME DrasInv, [DrasStep]_intradayVars PROVE DrasInv'
  OBVIOUS
<1>1. CASE DrasStep
  <2>1. OnGrid' /\ ("position" \in DOMAIN book') /\ DrasIsSquaredOff'
    BY <1>1, DrasBarHolds, DrasEndHolds DEF DrasStep, DrasNext
  <2>2. TrendRests' /\ SignalRests'
    BY <1>1 DEF DrasInv, DrasStep, signalVars, TrendRests, SignalRests
  <2> QED
    BY <2>1, <2>2 DEF DrasInv
<1>2. CASE UNCHANGED intradayVars
  BY <1>2 DEF intradayVars, clockVars, drasVars, signalVars, DrasInv, OnGrid,
              DrasIsSquaredOff, TrendRests, SignalRests
<1> QED
  BY <1>1, <1>2

-----------------------------------------------------------------------------
(* The trend-following backtest                                            *)

TrendInv ==
  /\ OnGrid /\ OnlyTheLastEntryIsCarried
  /\ book.position = 0 /\ SignalRests

LEMMA TrendBarHolds ==
  ASSUME TrendInv, NEW b, TrendBar(b)
  PROVE  OnGrid' /\ OnlyTheLastEntryIsCarried'
<1> DEFINE protected == trade.position # 0 /\ ExitReason(trade, b) # "none"
           open == trade.position # 0 /\ ~protected
           entry == TrendSignal(b, clock')
           entered == [position |-> entry, entryPrice |-> b.close,
                       entryTime |-> <<day', clock'>>]
<1>1. clock' \in BarTimes /\ clock' \in Int
  BY NextBarFacts, GridIsPositive DEF TrendBar
<1>2. \/ ~(clock' >= SessionEnd)
      \/ trade' = NoTrade
      \/ entry # 0 /\ trade' = entered
  BY DEF TrendBar
<1>3. entry # 0 => clock' <= SessionEnd
  BY DEF TrendSignal, InSession
<1>4. ~(clock' >= SessionEnd) => OnlyTheLastEntryIsCarried'
  BY DEF OnlyTheLastEntryIsCarried
<1>5. trade' = NoTrade => OnlyTheLastEntryIsCarried'
  BY DEF OnlyTheLastEntryIsCarried, NoTrade
<1>6. ASSUME entry # 0, trade' = entered PROVE OnlyTheLastEntryIsCarried'
  <2>1. clock' >= SessionEnd => clock' = SessionEnd
    BY <1>1, <1>3, <1>6, TrendAssumption
  <2>2. trade'.entryTime = <<day', clock'>>
    BY <1>6
  <2> QED
    BY <2>1, <2>2 DEF OnlyTheLastEntryIsCarried
<1> QED
  BY <1>1, <1>2, <1>4, <1>5, <1>6 DEF OnGrid

LEMMA TrendStepHolds == TrendInv /\ [TrendStep]_intradayVars => TrendInv'
<1> SUFFICES ASSUME TrendInv, [TrendStep]_intradayVars PROVE TrendInv'
  OBVIOUS
<1>1. CASE TrendStep
  <2>1. OnGrid' /\ OnlyTheLastEntryIsCarried'
    BY <1>1, TrendBarHolds DEF TrendStep, TrendNext
  <2>2. (book.position = 0)' /\ SignalRests'
    BY <1>1 DEF TrendInv, TrendStep, drasVars, signalVars, SignalRests
  <2> QED
    BY <2>1, <2>2 DEF TrendInv
<1>2. CASE UNCHANGED intradayVars
  BY <1>2 DEF intradayVars, clockVars, drasVars, signalVars, TrendInv, OnGrid,
              OnlyTheLastEntryIsCarried, SignalRests
<1> QED
  BY <1>1, <1>2

-----------------------------------------------------------------------------
(* The strategies that square off by the clock                             *)

\* The strengthening: only a strategy past its warm-up buys or holds; from
\* 15:20 nothing is bought and what is held is on its way out.
Squared ==
  strategy \in SquaresOff =>
    /\ held \/ order = "BUY" => ready
    /\ ExitTime <= clock => (order # "BUY" /\ (held => order = "EXIT"))
    /\ (\A t \in BarTimes : t <= clock) => (~held /\ order # "BUY")

SignalsInv ==
  /\ OnGrid /\ Squared
  /\ book.position = 0 /\ TrendRests

\* The first rule that holds decides.
LEMMA FirstRuleDecides ==
  ASSUME NEW rules, 1 \in DOMAIN rules, \A i \in DOMAIN rules : i \in Nat /\ 1 <= i,
         rules[1].holds
  PROVE  FirstOf(rules) = rules[1].signal
<1> DEFINE hits == {i \in DOMAIN rules : rules[i].holds}
<1>1. 1 \in hits /\ hits \in SUBSET Nat
  OBVIOUS
<1>2. \A i \in hits : 1 <= i
  OBVIOUS
<1>3. Earliest(hits) = 1
  <2> DEFINE e == Earliest(hits)
  <2> HIDE DEF hits
  <2>1. e \in hits /\ \A u \in hits : e <= u
    BY <1>1, EarliestIsFirst
  <2> HIDE DEF e
  <2>2. e \in Nat /\ e <= 1 /\ 1 <= e
    BY <2>1, <1>1, <1>2
  <2>3. e = 1
    BY <2>2
  <2> QED
    BY <2>3 DEF e
<1> QED
  BY <1>1, <1>3 DEF FirstOf

LEMMA ClockRuleDecides ==
  ASSUME NEW f, NEW t \in Nat, NEW rules, DOMAIN rules = 1 .. 3,
         rules[1] = When(t >= ExitTime, EXIT)
  PROVE  /\ ~f.ready => Ready(f, rules) = HOLD
         /\ f.ready /\ ExitTime <= t => Ready(f, rules) = EXIT
<1>1. ~f.ready => Ready(f, rules) = HOLD
  BY DEF Ready
<1>2. ASSUME f.ready, ExitTime <= t PROVE Ready(f, rules) = EXIT
  <2>1. Ready(f, rules) = FirstOf(rules)
    BY <1>2 DEF Ready
  <2>2. rules[1].signal = EXIT
    BY DEF When
  <2>3. rules[1].holds = (t >= ExitTime)
    BY DEF When
  <2>4. (t >= ExitTime) = TRUE
    BY <1>2 DEF ExitTime
  <2>5. rules[1].holds
    <3> HIDE DEF ExitTime
    <3> QED
      BY <2>3, <2>4
  <2>6. 1 \in DOMAIN rules /\ \A i \in DOMAIN rules : i \in Nat /\ 1 <= i
    OBVIOUS
  <2>7. FirstOf(rules) = rules[1].signal
    BY <2>5, <2>6, FirstRuleDecides
  <2> QED
    BY <2>1, <2>2, <2>7
<1> QED
  BY <1>1, <1>2

\* From 15:20 on a strategy that squares off answers a bar with its exit, unless
\* it is still warming up and answers nothing.
LEMMA ExitByTheClock ==
  ASSUME strategy \in SquaresOff, NEW f, NEW t \in Nat
  PROVE  /\ ~f.ready => Answer(f, t) = HOLD
         /\ f.ready /\ ExitTime <= t => Answer(f, t) = EXIT
<1>1. CASE strategy = "CodexRegimeBreakout"
  <2> DEFINE rules == <<
        When(t >= ExitTime, EXIT),
        When(/\ Within(t, 600, 890) /\ f.confirmed /\ f.close > f.vwap
             /\ f.close > f.emaFast /\ f.close > f.rangeHigh, BUY),
        When(f.close < f.emaFast /\ f.close < f.vwap, EXIT)>>
  <2>1. Answer(f, t) = Ready(f, rules)
    BY <1>1 DEF Answer, CodexRegimeBreakout
  <2>2. DOMAIN rules = 1 .. 3 /\ rules[1] = When(t >= ExitTime, EXIT)
    OBVIOUS
  <2> HIDE DEF rules
  <2> QED
    BY <2>1, <2>2, ClockRuleDecides
<1>2. CASE strategy = "CodexTrendReentry"
  <2> DEFINE rules == <<
        When(t >= ExitTime, EXIT),
        When(/\ Within(t, 575, 880) /\ f.confirmed /\ f.close > f.vwap
             /\ f.close > f.emaFast /\ f.emaFast > f.emaSlow, BUY),
        When(f.close < f.emaSlow \/ (f.close < f.vwap /\ f.farBelow) \/ f.rsiWeak,
             EXIT)>>
  <2>1. Answer(f, t) = Ready(f, rules)
    BY <1>2 DEF Answer, CodexTrendReentry
  <2>2. DOMAIN rules = 1 .. 3 /\ rules[1] = When(t >= ExitTime, EXIT)
    OBVIOUS
  <2> HIDE DEF rules
  <2> QED
    BY <2>1, <2>2, ClockRuleDecides
<1>3. CASE strategy = "CodexRangeReversion"
  <2> DEFINE rules == <<
        When(t >= ExitTime, EXIT),
        When(/\ Within(t, 615, 885) /\ f.confirmed /\ f.close < f.vwap
             /\ ~f.farBelow /\ ~f.recovered, BUY),
        When(f.close >= f.vwap \/ f.recovered \/ f.farBelow, EXIT)>>
  <2>1. Answer(f, t) = Ready(f, rules)
    BY <1>3 DEF Answer, CodexRangeReversion
  <2>2. DOMAIN rules = 1 .. 3 /\ rules[1] = When(t >= ExitTime, EXIT)
    OBVIOUS
  <2> HIDE DEF rules
  <2> QED
    BY <2>1, <2>2, ClockRuleDecides
<1>4. CASE strategy = "Burst"
  <2>1. Answer(f, t) = Burst(f, t, trailingStop).signal
    BY <1>4 DEF Answer
  <2>2. ~f.ready => Answer(f, t) = HOLD
    BY <2>1 DEF Burst
  <2>3. ExitTime <= t => ~Within(t, 585, 870)
    BY DEF ExitTime, Within
  <2>4. f.ready /\ ~Within(t, 585, 870) => Answer(f, t) = EXIT
    BY <2>1 DEF Burst
  <2> QED
    BY <2>2, <2>3, <2>4
<1> QED
  BY <1>1, <1>2, <1>3, <1>4 DEF SquaresOff

LEMMA SquaredBar ==
  ASSUME SignalsInv, ExitFills, NEW f, SignalBar(f)
  PROVE  Squared'
<1> SUFFICES ASSUME strategy \in SquaresOff PROVE Squared'
  BY DEF Squared, SignalBar
<1> DEFINE answer == Answer(f, clock')
<1>1. clock' \in BarTimes /\ clock' \in Nat /\ clock \in Int
  BY NextBarFacts, GridIsPositive DEF SignalBar, SignalsInv, OnGrid
<1>2. /\ held \/ order = "BUY" => ready
      /\ ExitTime <= clock => (order # "BUY" /\ (held => order = "EXIT"))
      /\ (\A t \in BarTimes : t <= clock) => (~held /\ order # "BUY")
  BY DEF SignalsInv, Squared
<1>3. /\ held' => (order = "BUY" \/ (held /\ order # "EXIT"))
      /\ order' = "BUY" => answer = BUY
      /\ (held' /\ answer = EXIT) => order' = "EXIT"
  <2>1. held' \in FillOrder /\ order' \in OrdersFor(answer, held')
    BY DEF SignalBar
  <2> HIDE DEF answer
  <2> QED
    BY <2>1, EngineFillsAndOrders
<1>4. /\ ~f.ready => answer = HOLD
      /\ f.ready /\ ExitTime <= clock' => answer = EXIT
  BY <1>1, ExitByTheClock
<1>5. BUY # HOLD /\ BUY # EXIT
  BY StrategyAssumption
<1>6. CASE /\ ~NewDay /\ \A t \in BarTimes : t > clock => clock' <= t
  <2>1. ready => f.ready
    BY <1>6 DEF SignalBar
  <2>2. ready' = f.ready
    BY DEF SignalBar
  <2> HIDE DEF answer
  <2>3. held' => f.ready
    BY <1>2, <1>3, <2>1
  <2>4. order' = "BUY" => f.ready
    BY <1>3, <1>4, <1>5
  <2>5. ExitTime <= clock' => (order' # "BUY" /\ (held' => order' = "EXIT"))
    BY <2>3, <2>4, <1>3, <1>4, <1>5
  <2>6. ASSUME \A t \in BarTimes : t <= clock'
        PROVE  ~held' /\ order' # "BUY"
    <3>1. PICK first \in BarTimes, second \in BarTimes : ExitTime <= first /\ first < second
      BY DEF ExitFills
    <3>2. first \in Int /\ second \in Int /\ second <= clock'
      BY <2>6, GridIsPositive
    <3>3. first > clock => clock' <= first
      BY <1>6
    <3>4. ExitTime <= clock /\ ExitTime <= clock'
      BY <1>1, <3>1, <3>2, <3>3 DEF ExitTime
    <3> QED
      BY <3>4, <2>5, <1>2, <1>3
  <2> QED
    BY <2>2, <2>3, <2>4, <2>5, <2>6 DEF Squared
<1>7. CASE /\ \A t \in BarTimes : ~(t > clock)
           /\ \A t \in BarTimes : clock' <= t
  <2>1. \A t \in BarTimes : t <= clock
    BY <1>7, <1>1, GridIsPositive
  <2>2. ready' = f.ready
    BY DEF SignalBar
  <2> HIDE DEF answer
  <2>3. ~held'
    BY <2>1, <1>2, <1>3
  <2>4. order' = "BUY" => f.ready
    BY <1>3, <1>4, <1>5
  <2>5. ExitTime <= clock' => order' # "BUY"
    BY <2>4, <1>3, <1>4, <1>5
  <2>6. ASSUME \A t \in BarTimes : t <= clock'
        PROVE  FALSE
    <3>1. PICK first \in BarTimes, second \in BarTimes : ExitTime <= first /\ first < second
      BY DEF ExitFills
    <3>2. first \in Int /\ second \in Int /\ second <= clock' /\ clock' <= first
      BY <1>7, <2>6, GridIsPositive
    <3> QED
      BY <1>1, <3>1, <3>2
  <2> QED
    BY <2>2, <2>3, <2>4, <2>5, <2>6 DEF Squared
<1>8. NextBar
  BY DEF SignalBar
<1> QED
  BY <1>6, <1>7, <1>8, NextBarFacts

LEMMA SignalStepHolds ==
  ASSUME ExitFills
  PROVE  SignalsInv /\ [SignalStep]_intradayVars => SignalsInv'
<1> SUFFICES ASSUME SignalsInv, [SignalStep]_intradayVars PROVE SignalsInv'
  OBVIOUS
<1>1. CASE SignalStep
  <2>1. PICK f \in Bars[strategy] : SignalBar(f)
    BY <1>1 DEF SignalStep, SignalNext
  <2>2. OnGrid'
    BY <2>1, NextBarFacts DEF SignalBar, OnGrid
  <2>3. (book.position = 0)' /\ TrendRests'
    BY <1>1 DEF SignalsInv, SignalStep, drasVars, TrendRests
  <2>4. Squared'
    BY <2>1, SquaredBar
  <2> QED
    BY <2>2, <2>3, <2>4 DEF SignalsInv
<1>2. CASE UNCHANGED intradayVars
  BY <1>2 DEF intradayVars, clockVars, drasVars, signalVars, SignalsInv, OnGrid,
              Squared, TrendRests
<1> QED
  BY <1>1, <1>2

-----------------------------------------------------------------------------
(* Together                                                                *)

LEMMA IntradayBegins == IntradayInit => DrasInv /\ TrendInv /\ SignalsInv
<1> SUFFICES ASSUME IntradayInit PROVE DrasInv /\ TrendInv /\ SignalsInv
  OBVIOUS
<1>1. OnGrid /\ clock = 0
  BY DEF IntradayInit, ClockInit, OnGrid
<1>2. "position" \in DOMAIN book /\ book.position = 0
  BY DEF IntradayInit, DrasInit, FreshBook
<1>3. TrendRests
  BY DEF IntradayInit, TrendInit, NoTrade, TrendRests
<1>4. ready = FALSE /\ held = FALSE /\ order = "none"
  BY DEF IntradayInit, SignalInit
<1>5. SignalRests /\ Squared
  BY <1>1, <1>4, "none" # "BUY" DEF SignalRests, Squared, ExitTime
<1> QED
  BY <1>1, <1>2, <1>3, <1>4, <1>5
     DEF DrasInv, TrendInv, SignalsInv, DrasIsSquaredOff, OnlyTheLastEntryIsCarried, TrendRests

LEMMA RestingIsFlat ==
  /\ book.position = 0 => DrasIsSquaredOff
  /\ TrendRests => OnlyTheLastEntryIsCarried
  /\ SignalRests => SignalsSquareOff
  /\ Squared => SignalsSquareOff
BY DEF DrasIsSquaredOff, TrendRests, OnlyTheLastEntryIsCarried, SignalRests,
       SignalsSquareOff, Squared

\* The intraday studies end every day flat, but for the trend backtest's entry
\* on the bar that ends its session, for every grid of bars and set of bars,
\* when two bars of the day lie at or after 15:20 (backtest_dras, EOD force
\* close; backtest_strategy, end of session; the codex strategies).
THEOREM FlatSafety ==
  ASSUME ExitFills
  PROVE  (DrasStudy \/ TrendStudy \/ SignalStudy) => []FlatOvernight
<1>1. IntradayInit => DrasInv /\ TrendInv /\ SignalsInv
  BY IntradayBegins
<1>2. DrasInv /\ [DrasStep]_intradayVars => DrasInv'
  BY DrasStepHolds
<1>3. TrendInv /\ [TrendStep]_intradayVars => TrendInv'
  BY TrendStepHolds
<1>4. SignalsInv /\ [SignalStep]_intradayVars => SignalsInv'
  BY SignalStepHolds
<1>5. (DrasInv => FlatOvernight) /\ (TrendInv => FlatOvernight)
      /\ (SignalsInv => FlatOvernight)
  BY RestingIsFlat DEF DrasInv, TrendInv, SignalsInv, FlatOvernight
<1>6. DrasStudy => []FlatOvernight
  BY <1>1, <1>2, <1>5, PTL DEF DrasStudy
<1>7. TrendStudy => []FlatOvernight
  BY <1>1, <1>3, <1>5, PTL DEF TrendStudy
<1>8. SignalStudy => []FlatOvernight
  BY <1>1, <1>4, <1>5, PTL DEF SignalStudy
<1> QED
  BY <1>6, <1>7, <1>8

-----------------------------------------------------------------------------
(* The daily limits of the DRAS backtest                                   *)
(*                                                                         *)
(* The kill switch reads counters that every exit path keeps for itself.   *)
(* The argument ties them to the list of the closed legs: the equity is    *)
(* what the legs earned, the equity of the morning what the legs of        *)
(* earlier days did, the streak of losses ends where the counter says, and *)
(* an entry is counted before its last leg is.  A leg, whatever closed it, *)
(* keeps the tie (LegKeepsTheBook), and so does the reset of a new day,    *)
(* because the day before ended flat (NewDayKeeps).                        *)

LegReasons == {"tp1_partial", "stop_loss", "trail_stop", "eod_exit", "end_of_data"}

LegRow == [side : {-1, 1}, entry : Int, exit : Int, qty : Int, pnl : Int,
           equityAfter : Int, reason : LegReasons, day : Int]

\* The closed legs, what they earned, and which are of day d.
LegsOK(legs) == legs \in Seq(LegRow)
Earned(legs) == [i \in DOMAIN legs |-> legs[i].pnl]
DayLegs(legs, d) == {i \in DOMAIN legs : legs[i].day = d}
EarlierLegs(legs, d) == {i \in DOMAIN legs : legs[i].day # d}
WholeLegs(legs, d) == {i \in DayLegs(legs, d) : legs[i].reason # "tp1_partial"}

\* A list of legs is one, and its legs have a result and a day.
LEMMA LegsFacts ==
  ASSUME NEW legs, LegsOK(legs)
  PROVE  /\ Len(legs) \in Nat /\ DOMAIN legs = 1 .. Len(legs)
         /\ \A i \in DOMAIN legs : legs[i].pnl \in Int /\ legs[i].day \in Int
<1>1. Len(legs) \in Nat /\ DOMAIN legs = 1 .. Len(legs)
  BY DEF LegsOK
<1>2. \A i \in DOMAIN legs : legs[i] \in LegRow
  BY <1>1 DEF LegsOK
<1>3. \A leg \in LegRow : leg.pnl \in Int /\ leg.day \in Int
  BY DEF LegRow
<1> QED
  BY <1>1, <1>2, <1>3

\* What a fold over numbers of legs computes is their sum.
LEMMA PnlIsTotal ==
  ASSUME LegsOK(trades), NEW S \in SUBSET DOMAIN trades
  PROVE  PnlOf(S) = Total(Earned(trades), S)
<1> DEFINE c(s) == CHOOSE x \in s : TRUE
           w == Earned(trades)
           it == CHOOSE g : g = [s \in SUBSET S |->
                     IF s = {} THEN 0 ELSE trades[c(s)].pnl + g[s \ {c(s)}]]
<1>0. Weighs(w, S)
  <2>1. 1 \in Int /\ Len(trades) \in Int
    BY LegsFacts
  <2>2. IsFiniteSet(1 .. Len(trades))
    BY <2>1, FS_Interval
  <2>3. S \in SUBSET (1 .. Len(trades))
    BY LegsFacts
  <2>4. IsFiniteSet(S)
    BY <2>2, <2>3, FS_Subset
  <2>5. \A x \in S : w[x] \in Int
    BY LegsFacts DEF Earned
  <2> QED
    BY <2>4, <2>5 DEF Weighs
<1>1. PnlOf(S) = it[S]
  BY DEF PnlOf, MapThenSumSet, MapThenFoldSet
<1>2. \A s \in SUBSET S : s # {} => w[c(s)] = trades[c(s)].pnl
  BY DEF Earned
<1> HIDE DEF w
<1>3. PICK f : Sums(w, S, f)
  BY <1>0, SumsExist
<1>4. f = [s \in SUBSET S |-> IF s = {} THEN 0 ELSE trades[c(s)].pnl + f[s \ {c(s)}]]
  BY <1>2, <1>3 DEF Sums
<1>5. it = [s \in SUBSET S |-> IF s = {} THEN 0 ELSE trades[c(s)].pnl + it[s \ {c(s)}]]
  BY <1>4
<1> HIDE DEF it
<1>6. it[{}] = 0
  BY <1>5
<1>7. \A s \in SUBSET S : s # {} => it[s] = w[c(s)] + it[s \ {c(s)}]
  BY <1>2, <1>5
<1>8. Recurs(w, S, it)
  BY <1>6, <1>7 DEF Recurs
<1>9. Total(w, S) = it[S]
  BY <1>0, <1>8, SumIsTotal
<1> QED
  BY <1>1, <1>9 DEF w

\* The numbers of the legs are finitely many.
LEMMA LegsAreFinite ==
  ASSUME NEW legs, LegsOK(legs)
  PROVE  \A S \in SUBSET DOMAIN legs : IsFiniteSet(S) /\ Weighs(Earned(legs), S)
<1>1. 1 \in Int /\ Len(legs) \in Int
  BY LegsFacts
<1>2. IsFiniteSet(DOMAIN legs)
  BY <1>1, FS_Interval, LegsFacts
<1>3. \A S \in SUBSET DOMAIN legs : IsFiniteSet(S)
  BY <1>2, FS_Subset
<1>4. \A i \in DOMAIN legs : Earned(legs)[i] \in Int
  BY LegsFacts DEF Earned
<1> QED
  BY <1>3, <1>4 DEF Weighs

\* Two lists that agree on some numbers have the same sum there.
LEMMA SameLegsSameSum ==
  ASSUME NEW legs, LegsOK(legs), NEW more, LegsOK(more),
         NEW S, S \subseteq DOMAIN legs, S \subseteq DOMAIN more,
         \A i \in S : more[i] = legs[i]
  PROVE  Total(Earned(more), S) = Total(Earned(legs), S)
<1> DEFINE w == Earned(legs)
           v == Earned(more)
           h == [i \in S |-> i]
<1>1. Weighs(w, S) /\ Weighs(v, S)
  BY LegsAreFinite
<1>2. \A i \in S : v[h[i]] = w[i]
  BY DEF Earned
<1>3. /\ \A i \in S : h[i] \in S
      /\ \A i, j \in S : h[i] = h[j] => i = j
  OBVIOUS
<1>4. {h[i] : i \in S} = S
  OBVIOUS
<1> HIDE DEF w, v, h
<1>5. Total(w, S) = Total(v, {h[i] : i \in S})
  BY <1>1, <1>2, <1>3, TotalRenamed, SMTT(30)
<1> QED
  BY <1>4, <1>5 DEF w, v

\* The books after one more leg.
LEMMA OneMoreLeg ==
  ASSUME NEW legs, LegsOK(legs), NEW leg \in LegRow
  PROVE  LET more == Append(legs, leg)
             n == Len(legs) + 1
         IN  /\ LegsOK(more) /\ Len(more) = n /\ n \notin DOMAIN legs
             /\ DOMAIN more = DOMAIN legs \cup {n}
             /\ more[n] = leg /\ \A i \in DOMAIN legs : more[i] = legs[i]
             /\ \A S \in SUBSET DOMAIN legs :
                  /\ Total(Earned(legs), S) \in Int
                  /\ Total(Earned(more), S) = Total(Earned(legs), S)
                  /\ Total(Earned(more), S \cup {n}) = Total(Earned(legs), S) + leg.pnl
<1> DEFINE n == Len(legs) + 1
           more == Append(legs, leg)
<1>1. Len(legs) \in Nat /\ DOMAIN legs = 1 .. Len(legs)
  BY LegsFacts
<1>2. n \in Nat /\ n \notin DOMAIN legs /\ 1 .. n = DOMAIN legs \cup {n}
  BY <1>1
<1>3. /\ LegsOK(more) /\ Len(more) = n /\ more[n] = leg
      /\ \A i \in DOMAIN legs : more[i] = legs[i]
  BY <1>1 DEF LegsOK
<1>4. DOMAIN more = DOMAIN legs \cup {n}
  <2> HIDE DEF more, n
  <2> QED
    BY <1>2, <1>3, LegsFacts
<1>5. ASSUME NEW S \in SUBSET DOMAIN legs
      PROVE  /\ Total(Earned(legs), S) \in Int
             /\ Total(Earned(more), S) = Total(Earned(legs), S)
             /\ Total(Earned(more), S \cup {n}) = Total(Earned(legs), S) + leg.pnl
  <2> HIDE DEF more, n
  <2> DEFINE T == S \cup {n}
             w == Earned(legs)
             v == Earned(more)
  <2>1. S \subseteq DOMAIN more /\ T \in SUBSET DOMAIN more /\ n \notin S
    BY <1>2, <1>4
  <2>2. Weighs(w, S) /\ Weighs(v, T)
    BY <1>3, <2>1, LegsAreFinite
  <2>3. T \ {n} = S /\ n \in T
    BY <2>1
  <2>4. v[n] = leg.pnl
    BY <1>3, <1>4 DEF Earned
  <2>5. Total(v, S) = Total(w, S)
    BY <1>3, <2>1, SameLegsSameSum
  <2> HIDE DEF w, v, T
  <2>6. Total(w, S) \in Int
    BY <2>2, TotalFacts
  <2>7. Total(v, T) = v[n] + Total(v, T \ {n})
    BY <2>2, <2>3, TotalFacts
  <2>8. leg.pnl \in Int
    BY DEF LegRow
  <2>9. Total(v, T) = Total(w, S) + leg.pnl
    <3>1. Total(v, T) = leg.pnl + Total(w, S)
      BY <2>3, <2>4, <2>5, <2>7
    <3>2. \A x, y \in Int : x + y = y + x
      OBVIOUS
    <3> QED
      BY <2>6, <2>8, <3>1, <3>2
  <2> QED
    BY <2>5, <2>6, <2>9 DEF w, v, T
<1> QED
  BY <1>2, <1>3, <1>4, <1>5


BookFields == {"equity", "dayStartEquity", "tradesToday", "conLosses", "close", "done",
               "position", "entPrice", "initialSl", "activeTsl", "tp1Hit", "halfExited",
               "sig"}

\* The book is of numbers; an open position has its prices.
BookTyped(k) ==
  /\ DOMAIN k = BookFields
  /\ k.equity \in Int /\ k.dayStartEquity \in Int /\ k.position \in Int
  /\ k.tradesToday \in Nat /\ k.conLosses \in Nat /\ Level(k.activeTsl)
  /\ k.position # 0 => k.entPrice \in Int /\ k.initialSl \in Int /\ k.close \in Int

\* The equity is what the legs earned, the equity of the morning what those of
\* earlier days did.
Ledger(k, legs, d) ==
  /\ k.equity = InitialCapital + Total(Earned(legs), DOMAIN legs)
  /\ k.dayStartEquity = InitialCapital + Total(Earned(legs), EarlierLegs(legs, d))
  /\ k.equity = k.dayStartEquity + Total(Earned(legs), DayLegs(legs, d))

\* The leg before the losses in a row is of another day or a winner.
Streak(k, legs, d) ==
  ~(/\ Len(legs) - k.conLosses \in DayLegs(legs, d)
    /\ legs[Len(legs) - k.conLosses].pnl <= 0)

\* Every trade of the day was counted when it was entered.
OpenOnes(k) == IF k.position # 0 THEN 1 ELSE 0
EntriesCounted(k, legs, d) ==
  Cardinality(WholeLegs(legs, d)) + OpenOnes(k) <= k.tradesToday

\* Without equity in the morning there is no trade that day.
NoMoneyNoTrade(k) ==
  k.dayStartEquity <= 0 => k.position = 0 /\ k.equity = k.dayStartEquity

BookOK(k, legs, d) ==
  /\ LegsOK(legs) /\ \A i \in DOMAIN legs : legs[i].day <= d
  /\ BookTyped(k) /\ Ledger(k, legs, d) /\ Streak(k, legs, d)
  /\ EntriesCounted(k, legs, d) /\ NoMoneyNoTrade(k)

\* Prices, levels and flags may change.
LEMMA BookStays ==
  ASSUME NEW k, NEW legs, NEW d, BookOK(k, legs, d), NEW m, BookTyped(m),
         m.equity = k.equity, m.dayStartEquity = k.dayStartEquity,
         m.tradesToday = k.tradesToday, m.conLosses = k.conLosses,
         m.position = k.position
  PROVE  BookOK(m, legs, d)
BY DEF BookOK, Ledger, Streak, EntriesCounted, OpenOnes, NoMoneyNoTrade

\* A leg is closed: half of the position, or what is left of it.
LEMMA LegKeepsTheBook ==
  ASSUME NEW k, NEW legs, NEW d \in Int, BookOK(k, legs, d), k.position # 0,
         NEW leg \in LegRow, leg.day = d, NEW m, BookTyped(m),
         m.equity = k.equity + leg.pnl, m.dayStartEquity = k.dayStartEquity,
         m.tradesToday = k.tradesToday,
         m.conLosses = IF leg.pnl <= 0 THEN k.conLosses + 1 ELSE 0,
         m.position = 0 \/ leg.reason = "tp1_partial"
  PROVE  BookOK(m, Append(legs, leg), d)
<1> DEFINE n == Len(legs)
           more == Append(legs, leg)
<1>1. LegsOK(legs) /\ n \in Nat /\ DOMAIN legs = 1 .. n
  BY LegsFacts DEF BookOK
<1>2. /\ LegsOK(more) /\ Len(more) = n + 1 /\ n + 1 \notin DOMAIN legs
      /\ DOMAIN more = DOMAIN legs \cup {n + 1}
      /\ more[n + 1] = leg /\ \A i \in DOMAIN legs : more[i] = legs[i]
      /\ \A S \in SUBSET DOMAIN legs :
           /\ Total(Earned(legs), S) \in Int
           /\ Total(Earned(more), S) = Total(Earned(legs), S)
           /\ Total(Earned(more), S \cup {n + 1}) = Total(Earned(legs), S) + leg.pnl
  BY <1>1, OneMoreLeg
<1> SUFFICES BookOK(m, more, d)
  OBVIOUS
<1> HIDE DEF more
<1>3. /\ DayLegs(more, d) = DayLegs(legs, d) \cup {n + 1}
      /\ EarlierLegs(more, d) = EarlierLegs(legs, d)
      /\ DayLegs(legs, d) \in SUBSET DOMAIN legs
      /\ EarlierLegs(legs, d) \in SUBSET DOMAIN legs
  BY <1>2 DEF DayLegs, EarlierLegs
<1>4. \A i \in DOMAIN more : more[i].day <= d
  BY <1>2 DEF BookOK
<1>5. leg.pnl \in Int /\ k.equity \in Int /\ k.dayStartEquity \in Int
      /\ k.conLosses \in Nat
  BY DEF LegRow, BookOK, BookTyped
<1>6. Ledger(m, more, d)
  <2> DEFINE all == Total(Earned(legs), DOMAIN legs)
             early == Total(Earned(legs), EarlierLegs(legs, d))
             today == Total(Earned(legs), DayLegs(legs, d))
  <2>1. all \in Int /\ early \in Int /\ today \in Int
    BY <1>2, <1>3
  <2>2. /\ Total(Earned(more), DOMAIN more) = all + leg.pnl
        /\ Total(Earned(more), EarlierLegs(more, d)) = early
        /\ Total(Earned(more), DayLegs(more, d)) = today + leg.pnl
    BY <1>2, <1>3
  <2>3. /\ k.equity = InitialCapital + all /\ k.dayStartEquity = InitialCapital + early
        /\ k.equity = k.dayStartEquity + today
    BY DEF BookOK, Ledger
  <2> HIDE DEF all, early, today
  <2>4. InitialCapital \in Int
    BY DrasAssumption
  <2>5. /\ m.equity = InitialCapital + (all + leg.pnl)
        /\ m.dayStartEquity = InitialCapital + early
        /\ m.equity = m.dayStartEquity + (today + leg.pnl)
    BY <1>5, <2>1, <2>3, <2>4
  <2> QED
    BY <2>2, <2>5 DEF Ledger
<1>7. Streak(m, more, d)
  <2>1. CASE leg.pnl <= 0
    <3> DEFINE at == n - k.conLosses
    <3>0. m.conLosses = k.conLosses + 1 /\ Len(more) = n + 1
      BY <1>2, <2>1
    <3>1. Len(more) - m.conLosses = at /\ at \in Int /\ at <= n
      <4>1. \A x, y \in Int : (x + 1) - (y + 1) = x - y
        OBVIOUS
      <4>2. n \in Int /\ k.conLosses \in Int /\ at \in Int /\ at <= n
        BY <1>1, <1>5
      <4> QED
        BY <3>0, <4>1, <4>2
    <3>2. ~(at \in DayLegs(legs, d) /\ legs[at].pnl <= 0)
      BY DEF BookOK, Streak
    <3> HIDE DEF at
    <3>3. at # n + 1
      BY <1>1, <3>1
    <3>4. ~(at \in DayLegs(more, d) /\ more[at].pnl <= 0)
      BY <1>2, <1>3, <3>2, <3>3 DEF DayLegs
    <3> QED
      BY <3>1, <3>4 DEF Streak
  <2>2. CASE ~(leg.pnl <= 0)
    <3>1. Len(more) - m.conLosses = n + 1
      <4>1. m.conLosses = 0 /\ Len(more) = n + 1
        BY <1>2, <2>2
      <4> QED
        BY <1>1, <4>1
    <3> QED
      BY <1>2, <2>2, <3>1 DEF Streak
  <2> QED
    BY <2>1, <2>2
<1>8. EntriesCounted(m, more, d)
  <2> DEFINE W == WholeLegs(legs, d)
  <2>1. W \in SUBSET DOMAIN legs
    BY <1>3 DEF WholeLegs
  <2>2. IsFiniteSet(W) /\ Cardinality(W) \in Nat
    BY <1>1, <2>1, LegsAreFinite, FS_CardinalityType
  <2>3. Cardinality(W) + 1 <= k.tradesToday /\ k.tradesToday \in Nat
    BY DEF BookOK, EntriesCounted, OpenOnes, BookTyped
  <2>4. CASE leg.reason = "tp1_partial"
    <3>1. WholeLegs(more, d) = W
      BY <1>2, <1>3, <2>4 DEF WholeLegs, DayLegs
    <3>2. OpenOnes(m) = 0 \/ OpenOnes(m) = 1
      BY DEF OpenOnes
    <3> HIDE DEF W
    <3>3. Cardinality(W) + OpenOnes(m) <= k.tradesToday
      BY <2>2, <2>3, <3>2
    <3> QED
      BY <3>1, <3>3 DEF EntriesCounted
  <2>5. CASE m.position = 0 /\ leg.reason # "tp1_partial"
    <3>1. WholeLegs(more, d) = W \cup {n + 1} /\ n + 1 \notin W
      BY <1>2, <1>3, <2>5 DEF WholeLegs, DayLegs
    <3>2. OpenOnes(m) = 0
      BY <2>5 DEF OpenOnes
    <3> HIDE DEF W
    <3>3. Cardinality(WholeLegs(more, d)) = Cardinality(W) + 1
      BY <2>2, <3>1, FS_AddElement
    <3>4. Cardinality(WholeLegs(more, d)) + OpenOnes(m) <= k.tradesToday
      BY <2>2, <2>3, <3>2, <3>3
    <3> QED
      BY <3>4 DEF EntriesCounted
  <2> QED
    BY <2>4, <2>5
<1>9. NoMoneyNoTrade(m)
  BY DEF BookOK, NoMoneyNoTrade
<1> QED
  BY <1>2, <1>4, <1>6, <1>7, <1>8, <1>9 DEF BookOK


-----------------------------------------------------------------------------
(* What each exit of a turn makes of the book; the legs it closes are of   *)
(* the day of the bar.                                                     *)

\* A state of the loop, on the day of the bar.
StateOK(st) == DOMAIN st = {"book", "trades"} /\ BookOK(st.book, st.trades, day')

\* The better of two levels is one of them, and a price when one is.
LEMMA BetterIsInt ==
  ASSUME NEW s \in {-1, 1}, NEW x, NEW y, Level(x), Level(y)
  PROVE  /\ Level(Better(s, x, y))
         /\ (x \in Int \/ y \in Int) => Better(s, x, y) \in Int
BY DEF Level, Better

\* A side is a sign.
LEMMA SideIsSign == \A k : SideOf(k) \in {-1, 1}
BY DEF SideOf

\* What a leg earns is a number.
LEMMA PnlIsInt ==
  ASSUME NEW s \in {-1, 1}, NEW entry \in Int, NEW exit \in Int, NEW qty \in Int
  PROVE  Pnl(s, entry, exit, qty) \in Int
<1>1. \A x, y \in Int : x * y \in Int /\ x - y \in Int /\ x + y \in Int
  OBVIOUS
<1>2. CommissionPct \in Int /\ s \in Int /\ 100 \in Int
  BY DrasAssumption
<1>3. /\ 100 * s * (exit - entry) * qty \in Int
      /\ (entry + exit) * qty * CommissionPct \in Int
  BY <1>1, <1>2, Zenon
<1> QED
  BY <1>1, <1>3, Zenon DEF Pnl

\* What is left of the position when qty shares have gone.
Left(k, qty) == k.position - SideOf(k) * qty

\* A leg of the open position is closed.
LEMMA LegClosed ==
  ASSUME NEW st, StateOK(st), st.book.position # 0, day' \in Int,
         NEW exit \in Int, NEW qty \in Int, NEW reason \in LegReasons
  PROVE  LET k == st.book
             leg == Leg(k, SideOf(k), exit, qty, reason)
             closed == CloseLeg(st, exit, qty, reason)
         IN  /\ leg \in LegRow /\ leg.day = day' /\ leg.reason = reason
             /\ DOMAIN closed = {"book", "trades"} /\ DOMAIN closed.book = BookFields
             /\ closed.trades = Append(st.trades, leg)
             /\ closed.book.equity = k.equity + leg.pnl
             /\ closed.book.conLosses = IF leg.pnl <= 0 THEN k.conLosses + 1 ELSE 0
             /\ closed.book.position = Left(k, qty)
             /\ \A f \in BookFields \ {"equity", "conLosses", "position"} :
                  closed.book[f] = k[f]
<1> DEFINE k == st.book
           s == SideOf(k)
           pnl == Pnl(s, k.entPrice, exit, qty)
           leg == Leg(k, s, exit, qty, reason)
           closed == CloseLeg(st, exit, qty, reason)
<1>1. /\ DOMAIN k = BookFields /\ k.equity \in Int /\ k.position \in Int
      /\ k.entPrice \in Int /\ s \in {-1, 1}
  BY SideIsSign DEF StateOK, BookOK, BookTyped
<1>2. pnl \in Int
  BY <1>1, PnlIsInt
<1>3. /\ leg.pnl = pnl /\ leg \in LegRow /\ leg.day = day' /\ leg.reason = reason
  <2> HIDE DEF s, k
  <2>1. k.equity + pnl \in Int
    BY <1>1, <1>2
  <2> HIDE DEF pnl
  <2> QED
    BY <1>1, <1>2, <2>1 DEF Leg, LegRow, pnl
<1>4. closed = [book |-> [k EXCEPT !.equity = @ + pnl, !.position = @ - s * qty,
                                   !.conLosses = IF pnl <= 0 THEN @ + 1 ELSE 0],
                trades |-> Append(st.trades, leg)]
  BY DEF CloseLeg
<1> DEFINE m == [k EXCEPT !.equity = @ + pnl, !.position = @ - s * qty,
                          !.conLosses = IF pnl <= 0 THEN @ + 1 ELSE 0]
<1> HIDE DEF k, s, pnl, leg, closed
<1>5. /\ DOMAIN m = BookFields /\ m.equity = k.equity + pnl
      /\ m.conLosses = IF pnl <= 0 THEN k.conLosses + 1 ELSE 0
      /\ m.position = Left(k, qty)
      /\ \A f \in BookFields \ {"equity", "conLosses", "position"} : m[f] = k[f]
  BY <1>1 DEF BookFields, Left, s
<1>6. /\ closed.book = m /\ closed.trades = Append(st.trades, leg)
      /\ DOMAIN closed = {"book", "trades"}
  <2> HIDE DEF m
  <2> QED
    BY <1>4 DEF m
<1> HIDE DEF m
<1> SUFFICES /\ leg \in LegRow /\ leg.day = day' /\ leg.reason = reason
             /\ DOMAIN closed = {"book", "trades"} /\ DOMAIN closed.book = BookFields
             /\ closed.trades = Append(st.trades, leg)
             /\ closed.book.equity = k.equity + leg.pnl
             /\ closed.book.conLosses = IF leg.pnl <= 0 THEN k.conLosses + 1 ELSE 0
             /\ closed.book.position = Left(k, qty)
             /\ \A f \in BookFields \ {"equity", "conLosses", "position"} :
                  closed.book[f] = k[f]
  BY DEF k, s, leg, closed
<1> QED
  BY <1>3, <1>5, <1>6

\* The whole position leaves.
LEMMA CloseAllKeeps ==
  ASSUME NEW st, StateOK(st), st.book.position # 0, day' \in Int,
         NEW exit \in Int, NEW reason \in LegReasons
  PROVE  StateOK(CloseAll(st, exit, reason))
<1> DEFINE k == st.book
           qty == Shares(k.position)
           leg == Leg(k, SideOf(k), exit, qty, reason)
           closed == CloseLeg(st, exit, qty, reason)
           m == Flat(closed.book)
<1>1. BookOK(k, st.trades, day') /\ BookTyped(k) /\ qty \in Int
  BY DEF StateOK, BookOK, BookTyped, Shares
<1>2. /\ leg \in LegRow /\ leg.day = day' /\ leg.reason = reason
      /\ DOMAIN closed = {"book", "trades"} /\ DOMAIN closed.book = BookFields
      /\ closed.trades = Append(st.trades, leg)
      /\ closed.book.equity = k.equity + leg.pnl
      /\ closed.book.conLosses = IF leg.pnl <= 0 THEN k.conLosses + 1 ELSE 0
      /\ \A f \in BookFields \ {"equity", "conLosses", "position"} :
           closed.book[f] = k[f]
  <2> HIDE DEF qty
  <2> QED
    BY <1>1, LegClosed
<1>3. CloseAll(st, exit, reason) = [closed EXCEPT !.book = m]
  BY DEF CloseAll
<1> HIDE DEF qty, leg, closed
<1>4. /\ DOMAIN m = BookFields /\ m.position = 0 /\ m.activeTsl = NoLevel
      /\ \A f \in {"equity", "conLosses", "dayStartEquity", "tradesToday"} :
           m[f] = closed.book[f]
  BY <1>2 DEF Flat, BookFields
<1> HIDE DEF m
<1>5. leg.pnl \in Int
  BY <1>2 DEF LegRow
<1>6. /\ m.equity = k.equity + leg.pnl /\ m.dayStartEquity = k.dayStartEquity
      /\ m.tradesToday = k.tradesToday
      /\ m.conLosses = IF leg.pnl <= 0 THEN k.conLosses + 1 ELSE 0
  BY <1>2, <1>4 DEF BookFields
<1>7. BookTyped(m)
  BY <1>1, <1>4, <1>5, <1>6 DEF BookTyped, Level
<1>8. BookOK(m, Append(st.trades, leg), day')
  BY <1>1, <1>2, <1>4, <1>6, <1>7, LegKeepsTheBook
<1>9. DOMAIN CloseAll(st, exit, reason) = {"book", "trades"}
      /\ CloseAll(st, exit, reason).book = m
      /\ CloseAll(st, exit, reason).trades = Append(st.trades, leg)
  BY <1>2, <1>3
<1> QED
  BY <1>8, <1>9 DEF StateOK

\* The levels of an open position are numbers, and the stop it may leave at.
LEMMA LevelsAreInt ==
  ASSUME NEW k, BookTyped(k), k.position # 0, NEW b \in DrasBars
  PROVE  /\ BarOK(b) /\ Tp1Price(k) \in Int /\ EffectiveStop(k, b) \in Int
         /\ Level(Better(SideOf(k), k.activeTsl, Chandelier(SideOf(k), b)))
         /\ Better(SideOf(k), Tp1Price(k), b.close) \in Int
<1>1. BarOK(b) /\ b.close \in Int
  BY DrasAssumption DEF BarOK
<1>2. SideOf(k) \in {-1, 1}
  BY SideIsSign
<1>3. k.entPrice \in Int /\ k.initialSl \in Int /\ Level(k.activeTsl)
  BY DEF BookTyped
<1>4. Shares(k.entPrice - k.initialSl) \in Int
  BY <1>3 DEF Shares
<1>5. Tp1Price(k) \in Int
  BY <1>2, <1>3, <1>4 DEF Tp1Price
<1>6. FinalSl(k, b) \in Int
  BY <1>3 DEF FinalSl
<1>7. Level(Chandelier(SideOf(k), b))
  BY <1>1 DEF BarOK, Chandelier
<1>8. EffectiveStop(k, b) \in Int
  BY <1>2, <1>3, <1>6, BetterIsInt DEF Level, EffectiveStop
<1>9. Level(Better(SideOf(k), k.activeTsl, Chandelier(SideOf(k), b)))
  BY <1>2, <1>3, <1>7, BetterIsInt
<1>10. Better(SideOf(k), Tp1Price(k), b.close) \in Int
  BY <1>1, <1>2, <1>5, BetterIsInt DEF Level
<1> QED
  BY <1>1, <1>5, <1>8, <1>9, <1>10

\* Half of the position leaves.
LEMMA PartialKeeps ==
  ASSUME NEW st, StateOK(st), st.book.position # 0, day' \in Int, NEW b \in DrasBars
  PROVE  StateOK(PartialExit(st, b)) /\ PartialExit(st, b).book.position # 0
<1> DEFINE k == st.book
           half == Shares(k.position) \div 2
           exit == Better(SideOf(k), Tp1Price(k), b.close)
           leg == Leg(k, SideOf(k), exit, half, "tp1_partial")
           closed == CloseLeg(st, exit, half, "tp1_partial")
           m == [closed.book EXCEPT !.halfExited = TRUE]
<1>1. BookOK(k, st.trades, day') /\ BookTyped(k)
  BY DEF StateOK, BookOK
<1>2. half \in Int /\ exit \in Int
  BY <1>1, LevelsAreInt DEF BookTyped, Shares
<1>13. /\ Left(k, half) \in Int
       /\ Left(k, half) # 0
  <2>1. k.position \in Int /\ k.position # 0
    BY <1>1 DEF BookTyped
  <2>2. \A x \in Int : x # 0 => x - (IF x > 0 THEN 1 ELSE -1)
                                   * ((IF x < 0 THEN -x ELSE x) \div 2) # 0
    OBVIOUS
  <2> QED
    BY <1>2, <2>1, <2>2 DEF SideOf, Shares, Left
<1>3. PartialExit(st, b) = st \/ PartialExit(st, b) = [closed EXCEPT !.book.halfExited = TRUE]
  BY DEF PartialExit
<1>4. /\ leg \in LegRow /\ leg.day = day' /\ leg.reason = "tp1_partial"
      /\ DOMAIN closed = {"book", "trades"} /\ DOMAIN closed.book = BookFields
      /\ closed.trades = Append(st.trades, leg)
      /\ closed.book.equity = k.equity + leg.pnl
      /\ closed.book.conLosses = IF leg.pnl <= 0 THEN k.conLosses + 1 ELSE 0
      /\ closed.book.position = Left(k, half)
      /\ \A f \in BookFields \ {"equity", "conLosses", "position"} :
           closed.book[f] = k[f]
  <2>1. "tp1_partial" \in LegReasons
    BY DEF LegReasons
  <2> HIDE DEF half, exit
  <2> QED
    BY <1>2, <2>1, LegClosed
<1> HIDE DEF half, exit, leg, closed
<1>5. /\ DOMAIN m = BookFields
      /\ \A f \in BookFields \ {"halfExited"} : m[f] = closed.book[f]
  BY <1>4
<1>6. [closed EXCEPT !.book.halfExited = TRUE]
        = [closed EXCEPT !.book = m]
  BY <1>4
<1> HIDE DEF m
<1>7. /\ m.equity = k.equity + leg.pnl /\ m.dayStartEquity = k.dayStartEquity
      /\ m.tradesToday = k.tradesToday
      /\ m.conLosses = IF leg.pnl <= 0 THEN k.conLosses + 1 ELSE 0
      /\ m.position = Left(k, half) /\ m.activeTsl = k.activeTsl /\ m.entPrice = k.entPrice
      /\ m.initialSl = k.initialSl /\ m.close = k.close
  BY <1>4, <1>5 DEF BookFields
<1>8. leg.pnl \in Int
  BY <1>4 DEF LegRow
<1>9. BookTyped(m)
  BY <1>1, <1>5, <1>7, <1>8, <1>13 DEF BookTyped
<1>10. BookOK(m, Append(st.trades, leg), day')
  BY <1>1, <1>4, <1>7, <1>9, LegKeepsTheBook
<1>11. ASSUME NEW after, after = [closed EXCEPT !.book = m] 
       PROVE  StateOK(after) /\ after.book.position # 0
  BY <1>4, <1>7, <1>10, <1>11, <1>13 DEF StateOK
<1> QED
  BY <1>3, <1>6, <1>11

\* A turn with an open position: its exits.
LEMMA ExitsKeep ==
  ASSUME NEW st, StateOK(st), st.book.position # 0, day' \in Int, NEW b \in DrasBars
  PROVE  StateOK(Exits(st, b))
<1> DEFINE k == UpdateLevels(st.book, b)
           stop == EffectiveStop(k, b)
           reason == IF stop = k.activeTsl THEN "trail_stop" ELSE "stop_loss"
           now == [st EXCEPT !.book = k]
           half == PartialExit(now, b)
<1>1. BookOK(st.book, st.trades, day') /\ BookTyped(st.book)
  BY DEF StateOK, BookOK
<1>2. /\ DOMAIN k = BookFields
      /\ \A f \in BookFields \ {"tp1Hit", "activeTsl"} : k[f] = st.book[f]
      /\ k.activeTsl = Better(SideOf(st.book), st.book.activeTsl,
                              Chandelier(SideOf(st.book), b))
  BY <1>1 DEF UpdateLevels, BookTyped, BookFields
<1>3. Level(k.activeTsl) /\ BarOK(b)
  BY <1>1, <1>2, LevelsAreInt
<1> HIDE DEF k
<1>4. /\ k.equity = st.book.equity /\ k.dayStartEquity = st.book.dayStartEquity
      /\ k.tradesToday = st.book.tradesToday /\ k.conLosses = st.book.conLosses
      /\ k.position = st.book.position /\ k.entPrice = st.book.entPrice
      /\ k.initialSl = st.book.initialSl /\ k.close = st.book.close
  BY <1>2 DEF BookFields
<1>5. BookTyped(k)
  BY <1>1, <1>2, <1>3, <1>4 DEF BookTyped
<1>6. BookOK(k, st.trades, day')
  BY <1>1, <1>4, <1>5, BookStays
<1>7. StateOK(now) /\ now.book = k
  BY <1>6 DEF StateOK
<1>8. stop \in Int /\ reason \in LegReasons /\ "eod_exit" \in LegReasons /\ b.close \in Int
  BY <1>3, <1>4, <1>5, LevelsAreInt DEF LegReasons, BarOK
<1>9. StateOK(half) /\ half.book.position # 0
  BY <1>4, <1>7, PartialKeeps
<1>10. Exits(st, b) = IF IsEod(clock') THEN CloseAll(now, b.close, "eod_exit")
                      ELSE StopExit(half, b, stop, reason)
  BY DEF Exits, k
<1> HIDE DEF now, half, stop, reason
<1>11. CASE IsEod(clock')
  BY <1>4, <1>7, <1>8, <1>10, <1>11, CloseAllKeeps
<1>12. CASE ~IsEod(clock')
  BY <1>8, <1>9, <1>10, <1>12, CloseAllKeeps DEF StopExit
<1> QED
  BY <1>11, <1>12

-----------------------------------------------------------------------------
(* The reset of a new day, and an entry                                    *)

\* The day never goes back, and a new one begins when the grid is through.
LEMMA DayGoesOn ==
  ASSUME NextBar, day \in Int
  PROVE  /\ day' \in Int /\ day <= day'
         /\ NewDay => day < day' /\ \A t \in BarTimes : ~(t > clock)
<1>1. day' = day \/ (day' = day + 1 /\ {t \in BarTimes : t > clock} = {})
  BY DEF NextBar
<1> QED
  BY <1>1 DEF NewDay

DrasBookInv ==
  /\ DrasInv
  /\ day \in Int /\ BookOK(book, trades, day)
  /\ clock = 0 => trades = <<>> /\ book.position = 0

\* Nothing was closed today and nothing is open: the day begins with what is
\* there.
LEMMA NewDayKeeps ==
  ASSUME NEW k, NEW legs, NEW d \in Int, NEW e \in Int, BookOK(k, legs, d),
         k.position = 0, \A i \in DOMAIN legs : legs[i].day < e,
         NEW m, DOMAIN m = BookFields, m.equity = k.equity, m.position = 0,
         m.dayStartEquity = k.equity, m.tradesToday = 0, m.conLosses = 0,
         m.activeTsl = k.activeTsl
  PROVE  BookOK(m, legs, e)
<1>1. /\ LegsOK(legs) /\ BookTyped(k) /\ Ledger(k, legs, d)
  BY DEF BookOK
<1>2. \A i \in DOMAIN legs : legs[i].day \in Int /\ legs[i].day < e
  BY <1>1, LegsFacts
<1>3. DayLegs(legs, e) = {} /\ EarlierLegs(legs, e) = DOMAIN legs
  <2>1. \A x \in Int : x < e => x # e
    OBVIOUS
  <2> QED
    BY <1>2, <2>1 DEF DayLegs, EarlierLegs
<1>4. Total(Earned(legs), {}) = 0
  BY <1>1, LegsAreFinite, TotalFacts
<1>5. k.equity \in Int
  BY <1>1 DEF BookTyped
<1>6. Ledger(m, legs, e)
  BY <1>1, <1>3, <1>4, <1>5 DEF Ledger
<1>7. Streak(m, legs, e)
  BY <1>3 DEF Streak
<1>8. EntriesCounted(m, legs, e)
  <2>1. WholeLegs(legs, e) = {}
    BY <1>3 DEF WholeLegs
  <2> QED
    BY <2>1, FS_EmptySet DEF EntriesCounted, OpenOnes
<1>9. BookTyped(m)
  BY <1>1 DEF BookTyped
<1>10. \A i \in DOMAIN legs : legs[i].day <= e
  BY <1>2
<1> QED
  BY <1>1, <1>6, <1>7, <1>8, <1>9, <1>10 DEF BookOK, NoMoneyNoTrade

\* The book that a bar finds: of the bar's day, at the bar's close.
LEMMA ResetKeeps ==
  ASSUME DrasBookInv, \E t \in BarTimes : IsEod(t), NextBar, NEW b \in DrasBars
  PROVE  LET k == [DailyReset(book) EXCEPT !.close = b.close]
         IN  /\ BookOK(k, trades, day') /\ day' \in Int
             /\ k.position = book.position /\ k.close = b.close /\ b.close \in Int
<1> DEFINE k == [DailyReset(book) EXCEPT !.close = b.close]
<1>1. /\ day \in Int /\ day' \in Int /\ day <= day' /\ b.close \in Int
      /\ BookOK(book, trades, day) /\ BookTyped(book)
  BY DayGoesOn, DrasAssumption DEF DrasBookInv, BookOK, BarOK
<1>2. CASE clock # 0 /\ ~NewDay
  <2>1. k = [book EXCEPT !.close = b.close] /\ day' = day
    BY <1>2 DEF DailyReset, NewDay
  <2> HIDE DEF k
  <2>2. /\ DOMAIN k = BookFields /\ k.close = b.close
        /\ \A f \in BookFields \ {"close"} : k[f] = book[f]
    BY <1>1, <2>1 DEF BookTyped, BookFields
  <2>3. /\ k.equity = book.equity /\ k.dayStartEquity = book.dayStartEquity
        /\ k.tradesToday = book.tradesToday /\ k.conLosses = book.conLosses
        /\ k.position = book.position /\ k.entPrice = book.entPrice
        /\ k.initialSl = book.initialSl /\ k.activeTsl = book.activeTsl
    BY <2>2 DEF BookFields
  <2>4. BookTyped(k)
    BY <1>1, <2>2, <2>3 DEF BookTyped
  <2>5. BookOK(k, trades, day)
    BY <1>1, <2>3, <2>4, BookStays
  <2> QED
    BY <1>1, <2>1, <2>2, <2>3, <2>5 DEF k
<1>3. CASE clock = 0 \/ NewDay
  <2>1. book.position = 0
    <3>1. CASE clock = 0
      BY <3>1 DEF DrasBookInv
    <3>2. CASE clock # 0
      <4>1. clock \in BarTimes /\ \A t \in BarTimes : ~(t > clock)
        BY <1>1, <1>3, <3>2, DayGoesOn DEF DrasBookInv, DrasInv, OnGrid
      <4>2. IsEod(clock)
        BY <4>1, GridIsPositive DEF IsEod
      <4> QED
        BY <3>2, <4>2 DEF DrasBookInv, DrasInv, DrasIsSquaredOff
    <3> QED
      BY <3>1, <3>2
  <2>2. \A i \in DOMAIN trades : trades[i].day < day'
    <3>1. CASE clock = 0
      BY <3>1 DEF DrasBookInv
    <3>2. CASE clock # 0
      <4>1. day < day'
        BY <1>1, <1>3, <3>2, DayGoesOn
      <4>2. \A i \in DOMAIN trades : trades[i].day \in Int /\ trades[i].day <= day
        BY <1>1, LegsFacts DEF BookOK
      <4> QED
        BY <1>1, <4>1, <4>2
    <3> QED
      BY <3>1, <3>2
  <2>3. k = [[book EXCEPT !.dayStartEquity = book.equity, !.tradesToday = 0,
                          !.conLosses = 0] EXCEPT !.close = b.close]
    BY <1>3 DEF DailyReset
  <2> HIDE DEF k
  <2>4. /\ DOMAIN k = BookFields /\ k.close = b.close /\ k.equity = book.equity
        /\ k.position = book.position /\ k.dayStartEquity = book.equity
        /\ k.tradesToday = 0 /\ k.conLosses = 0 /\ k.activeTsl = book.activeTsl
    BY <1>1, <2>3 DEF BookTyped, BookFields
  <2>5. BookOK(k, trades, day')
    BY <1>1, <2>1, <2>2, <2>4, NewDayKeeps
  <2> QED
    BY <1>1, <2>4, <2>5 DEF k
<1> QED
  BY <1>2, <1>3

\* A share of the equity that buys something is of an equity there is.
LEMMA PositiveShare ==
  ASSUME NEW x \in Int, NEW y \in Nat, NEW z \in Int, z > 0, (x * y) \div z > 0
  PROVE  x > 0
<1>1. \A u \in Int : u <= 0 => u * y <= 0 /\ u * y \in Int
  OBVIOUS
<1>2. \A v \in Int : v <= 0 => v \div z <= 0
  OBVIOUS
<1> QED
  BY <1>1, <1>2

\* An entry is counted, and is made with money only.
LEMMA EntryKeeps ==
  ASSUME NEW k, NEW legs, NEW d \in Int, BookOK(k, legs, d), k.position = 0,
         NEW b \in DrasBars, k.close = b.close, b.close \in Int
  PROVE  /\ BookOK(Entry(k, b), legs, d)
         /\ Entry(k, b).position # 0 => ~KillSwitch(k) /\ k.dayStartEquity > 0
<1> DEFINE qty == PositionSize(k, b.slDist)
           m == [k EXCEPT !.position = b.side * qty,
                          !.entPrice = b.close,
                          !.initialSl = b.close - b.side * b.slDist,
                          !.sig = Favourable(b.side, b),
                          !.tradesToday = @ + 1]
<1>1. CASE Entry(k, b) = k
  BY <1>1
<1>2. CASE Entry(k, b) # k
  <2>1. /\ ~KillSwitch(k) /\ b.side # 0 /\ ~(b.slDist <= MinTick) /\ ~(qty <= 0)
        /\ Entry(k, b) = m
    BY <1>2 DEF Entry
  <2>2. /\ BookTyped(k) /\ k.equity \in Int /\ k.dayStartEquity \in Int
        /\ b.side \in {-1, 0, 1} /\ b.slDist \in Nat /\ MinTick \in Nat /\ RiskPct \in Nat
    BY DrasAssumption DEF BookOK, BookTyped, BarOK
  <2>3. qty \in Int
    <3>1. k.equity * RiskPct \in Int /\ 10000 * b.slDist \in Int /\ 10000 * b.slDist > 0
      BY <2>1, <2>2
    <3> QED
      BY <3>1 DEF PositionSize
  <2>4. k.equity > 0
    <3>1. 10000 * b.slDist \in Int /\ 10000 * b.slDist > 0
      BY <2>1, <2>2
    <3>2. (k.equity * RiskPct) \div (10000 * b.slDist) > 0
      BY <2>1, <2>3 DEF PositionSize
    <3> QED
      BY <2>2, <3>1, <3>2, PositiveShare
  <2>5. k.dayStartEquity > 0
    BY <2>2, <2>4 DEF BookOK, NoMoneyNoTrade
  <2>6. b.side * qty \in Int /\ b.close - b.side * b.slDist \in Int
    BY <2>2, <2>3
  <2> HIDE DEF qty
  <2>7. /\ DOMAIN m = BookFields /\ m.equity = k.equity /\ m.close = b.close
        /\ m.dayStartEquity = k.dayStartEquity /\ m.conLosses = k.conLosses
        /\ m.tradesToday = k.tradesToday + 1 /\ m.position = b.side * qty
        /\ m.entPrice = b.close /\ m.initialSl = b.close - b.side * b.slDist
        /\ m.activeTsl = k.activeTsl
    BY <2>2 DEF BookTyped, BookFields
  <2> HIDE DEF m
  <2>8. BookTyped(m)
    BY <2>2, <2>6, <2>7 DEF BookTyped
  <2>9. Ledger(m, legs, d) /\ Streak(m, legs, d) /\ NoMoneyNoTrade(m)
    BY <2>2, <2>5, <2>7 DEF BookOK, Ledger, Streak, NoMoneyNoTrade
  <2>10. EntriesCounted(m, legs, d)
    <3> DEFINE c == Cardinality(WholeLegs(legs, d))
    <3>1. c \in Nat
      <4>1. WholeLegs(legs, d) \in SUBSET DOMAIN legs /\ LegsOK(legs)
        BY DEF WholeLegs, DayLegs, BookOK
      <4> QED
        BY <4>1, LegsAreFinite, FS_CardinalityType
    <3>2. c + 0 <= k.tradesToday /\ k.tradesToday \in Nat
      BY <2>2 DEF BookOK, EntriesCounted, OpenOnes, BookTyped
    <3> HIDE DEF c
    <3>3. OpenOnes(m) = 0 \/ OpenOnes(m) = 1
      BY DEF OpenOnes
    <3>4. c + OpenOnes(m) <= m.tradesToday
      BY <2>7, <3>1, <3>2, <3>3
    <3> QED
      BY <3>4 DEF EntriesCounted, c
  <2>11. BookOK(m, legs, d)
    BY <2>8, <2>9, <2>10 DEF BookOK
  <2> QED
    BY <2>1, <2>5, <2>11
<1> QED
  BY <1>1, <1>2

-----------------------------------------------------------------------------
(* A bar, the end of the data, and what an entry finds                     *)

\* A bar keeps the tie, and if it enters, a book of its morning let it.
LEMMA DrasBarKeeps ==
  ASSUME DrasBookInv, \E t \in BarTimes : IsEod(t), NEW b \in DrasBars, DrasBar(b)
  PROVE  /\ day' \in Int /\ BookOK(book', trades', day') /\ clock' # 0
         /\ book.position = 0 /\ book'.position # 0 =>
              \E k : /\ BookOK(k, trades, day') /\ k.position = 0
                     /\ ~KillSwitch(k) /\ k.dayStartEquity > 0
<1> DEFINE k == [DailyReset(book) EXCEPT !.close = b.close]
           st == [book |-> k, trades |-> trades]
           after == IF k.position # 0 THEN Exits(st, b)
                    ELSE [st EXCEPT !.book = Entry(k, b)]
<1>1. /\ BookOK(k, trades, day') /\ day' \in Int
      /\ k.position = book.position /\ k.close = b.close /\ b.close \in Int
  BY ResetKeeps DEF DrasBar
<1>2. clock' # 0
  <2>1. clock' \in BarTimes
    BY NextBarFacts DEF DrasBar
  <2> QED
    BY <2>1, GridIsPositive
<1>3. book' = after.book /\ trades' = after.trades
  BY DEF DrasBar
<1> HIDE DEF k
<1>4. st.book = k /\ st.trades = trades /\ StateOK(st)
  BY <1>1 DEF StateOK
<1>5. CASE k.position # 0
  <2>1. after = Exits(st, b)
    BY <1>5
  <2> HIDE DEF after, st
  <2>2. StateOK(after)
    BY <1>1, <1>4, <1>5, <2>1, ExitsKeep
  <2> QED
    BY <1>1, <1>2, <1>3, <1>5, <2>2 DEF StateOK
<1>6. CASE k.position = 0
  <2>1. book' = Entry(k, b) /\ trades' = trades
    <3>1. after = [st EXCEPT !.book = Entry(k, b)]
      BY <1>6
    <3> HIDE DEF after
    <3> QED
      BY <1>3, <3>1
  <2>2. /\ BookOK(Entry(k, b), trades, day')
        /\ Entry(k, b).position # 0 => ~KillSwitch(k) /\ k.dayStartEquity > 0
    BY <1>1, <1>6, EntryKeeps
  <2> QED
    BY <1>1, <1>2, <1>6, <2>1, <2>2
<1> QED
  BY <1>5, <1>6

\* So does the end of the data, which enters nothing.
LEMMA DrasEndKeeps ==
  ASSUME DrasBookInv, EndOfData
  PROVE  /\ day' = day /\ clock' = clock /\ BookOK(book', trades', day')
         /\ book.position = 0 => book'.position = 0 /\ trades' = trades
<1> DEFINE st == [book |-> book, trades |-> trades]
           after == IF book.position # 0
                    THEN CloseAll(st, book.close, "end_of_data") ELSE st
<1>1. /\ day' = day /\ clock' = clock
      /\ book' = [after.book EXCEPT !.done = TRUE] /\ trades' = after.trades
  BY DEF EndOfData, clockVars
<1>2. day' \in Int /\ StateOK(st) /\ st.book = book /\ st.trades = trades
      /\ BookTyped(book)
  BY <1>1 DEF DrasBookInv, StateOK, BookOK
<1>3. StateOK(after)
  <2>1. "end_of_data" \in LegReasons
    BY DEF LegReasons
  <2>2. CASE book.position # 0
    <3>1. book.close \in Int
      BY <1>2, <2>2 DEF BookTyped
    <3> HIDE DEF st
    <3> QED
      BY <1>2, <2>1, <2>2, <3>1, CloseAllKeeps
  <2>3. CASE book.position = 0
    BY <1>2, <2>3
  <2> QED
    BY <2>2, <2>3
<1>4. book.position = 0 => after.book = book /\ after.trades = trades
  OBVIOUS
<1> HIDE DEF after
<1>5. BookOK(after.book, after.trades, day') /\ BookTyped(after.book)
  BY <1>3 DEF StateOK, BookOK
<1>6. /\ DOMAIN book' = BookFields
      /\ \A f \in BookFields \ {"done"} : book'[f] = after.book[f]
  BY <1>1, <1>5 DEF BookTyped
<1>7. /\ book'.equity = after.book.equity
      /\ book'.dayStartEquity = after.book.dayStartEquity
      /\ book'.tradesToday = after.book.tradesToday
      /\ book'.conLosses = after.book.conLosses
      /\ book'.position = after.book.position /\ book'.close = after.book.close
      /\ book'.entPrice = after.book.entPrice
      /\ book'.initialSl = after.book.initialSl
      /\ book'.activeTsl = after.book.activeTsl
  BY <1>6 DEF BookFields
<1>8. BookTyped(book')
  <2>1. ASSUME NEW m, DOMAIN m = BookFields, m.equity = after.book.equity,
               m.dayStartEquity = after.book.dayStartEquity,
               m.tradesToday = after.book.tradesToday,
               m.conLosses = after.book.conLosses,
               m.position = after.book.position, m.close = after.book.close,
               m.entPrice = after.book.entPrice,
               m.initialSl = after.book.initialSl,
               m.activeTsl = after.book.activeTsl
        PROVE  BookTyped(m)
    BY <1>5, <2>1 DEF BookTyped
  <2> QED
    BY <1>6, <1>7, <2>1
<1>9. BookOK(book', after.trades, day')
  BY <1>5, <1>7, <1>8, BookStays
<1> QED
  BY <1>1, <1>4, <1>7, <1>9

\* The counters of a book that lets an entry pass, read off its legs.
LEMMA CountersJudgeLegs ==
  ASSUME NEW k, NEW d \in Int, BookOK(k, trades, d), k.position = 0,
         ~KillSwitch(k), k.dayStartEquity > 0
  PROVE  LET n == Len(trades)
             today == {i \in 1 .. n : trades[i].day = d}
             atOpen == InitialCapital + PnlOf((1 .. n) \ today)
         IN  /\ \E i \in (n - MaxConLosses + 1) .. n :
                  ~(i \in today /\ trades[i].pnl <= 0)
             /\ Cardinality({i \in today : trades[i].reason # "tp1_partial"})
                  < MaxDailyTrades
             /\ -PnlOf(today) * 100 < DailyDdLimit * atOpen
<1> DEFINE n == Len(trades)
           today == {i \in 1 .. n : trades[i].day = d}
           earlier == (1 .. n) \ today
           whole == {i \in today : trades[i].reason # "tp1_partial"}
<1>1. LegsOK(trades) /\ BookTyped(k) /\ n \in Nat /\ DOMAIN trades = 1 .. n
  BY LegsFacts DEF BookOK
<1>2. /\ today = DayLegs(trades, d) /\ earlier = EarlierLegs(trades, d)
      /\ whole = WholeLegs(trades, d)
  BY <1>1 DEF DayLegs, EarlierLegs, WholeLegs
<1>3. today \in SUBSET DOMAIN trades /\ earlier \in SUBSET DOMAIN trades
      /\ whole \in SUBSET DOMAIN trades
  BY <1>1
<1>4. /\ PnlOf(today) = Total(Earned(trades), DayLegs(trades, d))
      /\ PnlOf(earlier) = Total(Earned(trades), EarlierLegs(trades, d))
      /\ PnlOf(today) \in Int /\ PnlOf(earlier) \in Int
  <2> HIDE DEF today, earlier
  <2>1. Weighs(Earned(trades), DOMAIN trades)
    BY <1>1, LegsAreFinite
  <2> QED
    BY <1>1, <1>2, <1>3, <2>1, PnlIsTotal, TotalFacts
<1>5. \E i \in (n - MaxConLosses + 1) .. n : ~(i \in today /\ trades[i].pnl <= 0)
  <2>1. k.conLosses \in Nat /\ k.conLosses < MaxConLosses /\ MaxConLosses \in Nat
    BY <1>1, DrasAssumption DEF BookTyped, KillSwitch
  <2>2. n - k.conLosses \in (n - MaxConLosses + 1) .. n
    BY <1>1, <2>1
  <2>3. ~(n - k.conLosses \in today /\ trades[n - k.conLosses].pnl <= 0)
    BY <1>2 DEF BookOK, Streak
  <2> HIDE DEF n, today
  <2> QED
    BY <2>2, <2>3
<1>6. Cardinality(whole) < MaxDailyTrades
  <2>1. k.tradesToday \in Nat /\ k.tradesToday < MaxDailyTrades /\ MaxDailyTrades \in Nat
    BY <1>1, DrasAssumption DEF BookTyped, KillSwitch
  <2>2. Cardinality(whole) + 0 <= k.tradesToday
    BY <1>2 DEF BookOK, EntriesCounted, OpenOnes
  <2>3. Cardinality(whole) \in Nat
    BY <1>1, <1>3, LegsAreFinite, FS_CardinalityType
  <2> HIDE DEF whole
  <2> QED
    BY <2>1, <2>2, <2>3
<1>7. -PnlOf(today) * 100 < DailyDdLimit * (InitialCapital + PnlOf(earlier))
  <2>1. /\ k.equity \in Int /\ k.dayStartEquity \in Int
        /\ InitialCapital \in Int /\ DailyDdLimit \in Int
    BY <1>1, DrasAssumption DEF BookTyped
  <2>2. ~((k.dayStartEquity - k.equity) * 100 >= DailyDdLimit * k.dayStartEquity)
    BY DEF KillSwitch
  <2>3. /\ k.dayStartEquity = InitialCapital + PnlOf(earlier)
        /\ k.equity = k.dayStartEquity + PnlOf(today)
    BY <1>4 DEF BookOK, Ledger
  <2> HIDE DEF today, earlier
  <2>4. k.dayStartEquity - k.equity = -PnlOf(today)
    BY <1>4, <2>1, <2>3
  <2>5. ~(-PnlOf(today) * 100 >= DailyDdLimit * (InitialCapital + PnlOf(earlier)))
    <3>1. \A x \in Int : (-x) * 100 = -x * 100
      OBVIOUS
    <3>2. (k.dayStartEquity - k.equity) * 100 = -PnlOf(today) * 100
      BY <1>4, <2>4, <3>1
    <3> QED
      BY <2>2, <2>3, <3>2
  <2>6. /\ -PnlOf(today) * 100 \in Int
        /\ DailyDdLimit * (InitialCapital + PnlOf(earlier)) \in Int
    BY <1>4, <2>1
  <2> QED
    BY <2>5, <2>6
<1> QED
  BY <1>5, <1>6, <1>7

\* Whatever the loop does next.
LEMMA DrasBookStep ==
  ASSUME DrasBookInv, \E t \in BarTimes : IsEod(t), [DrasStep]_intradayVars
  PROVE  /\ DrasBookInv'
         /\ book.position = 0 /\ book'.position # 0 =>
              \E k : /\ BookOK(k, trades, day') /\ k.position = 0 /\ day' \in Int
                     /\ ~KillSwitch(k) /\ k.dayStartEquity > 0
<1>1. DrasInv'
  BY DrasStepHolds DEF DrasBookInv
<1>2. CASE \E b \in DrasBars : DrasBar(b)
  BY <1>1, <1>2, DrasBarKeeps DEF DrasBookInv
<1>3. CASE EndOfData
  BY <1>1, <1>3, DrasEndKeeps DEF DrasBookInv
<1>4. CASE UNCHANGED intradayVars
  BY <1>1, <1>4 DEF DrasBookInv, intradayVars, drasVars, clockVars
<1> QED
  BY <1>2, <1>3, <1>4 DEF DrasStep, DrasNext

\* Before the first bar nothing is earned and nothing counted.
LEMMA DrasBookBegins == IntradayInit => DrasBookInv
<1> SUFFICES ASSUME IntradayInit PROVE DrasBookInv
  OBVIOUS
<1>1. /\ DrasInv /\ day = 1 /\ book = FreshBook /\ trades = <<>>
  BY IntradayBegins DEF IntradayInit, ClockInit, DrasInit
<1>2. LegsOK(trades) /\ DOMAIN trades = {}
  BY <1>1 DEF LegsOK
<1>3. BookTyped(FreshBook) /\ FreshBook.position = 0
  BY DrasAssumption DEF BookTyped, FreshBook, BookFields, Level
<1>4. \A S \in SUBSET DOMAIN trades : S = {} /\ Total(Earned(trades), S) = 0
  BY <1>2, LegsAreFinite, TotalFacts
<1>5. Ledger(FreshBook, trades, 1)
  <2>1. /\ DayLegs(trades, 1) \in SUBSET DOMAIN trades
        /\ EarlierLegs(trades, 1) \in SUBSET DOMAIN trades
        /\ DOMAIN trades \in SUBSET DOMAIN trades
    BY DEF DayLegs, EarlierLegs
  <2>2. InitialCapital \in Int /\ InitialCapital = InitialCapital + 0
    BY DrasAssumption
  <2>3. FreshBook.equity = InitialCapital /\ FreshBook.dayStartEquity = InitialCapital
    BY DEF FreshBook
  <2> QED
    BY <1>4, <2>1, <2>2, <2>3 DEF Ledger
<1>6. /\ Streak(FreshBook, trades, 1) /\ NoMoneyNoTrade(FreshBook)
      /\ EntriesCounted(FreshBook, trades, 1)
  <2>1. DayLegs(trades, 1) = {} /\ WholeLegs(trades, 1) = {}
    BY <1>2 DEF DayLegs, WholeLegs
  <2>2. FreshBook.tradesToday = 0 /\ FreshBook.equity = FreshBook.dayStartEquity
    BY DEF FreshBook
  <2>3. EntriesCounted(FreshBook, trades, 1)
    <3>1. Cardinality(WholeLegs(trades, 1)) = 0
      BY <2>1, FS_EmptySet
    <3> QED
      BY <1>3, <2>2, <3>1 DEF EntriesCounted, OpenOnes
  <2> QED
    BY <1>3, <2>1, <2>2, <2>3 DEF Streak, NoMoneyNoTrade
<1>7. BookOK(FreshBook, trades, 1)
  BY <1>2, <1>3, <1>5, <1>6 DEF BookOK
<1> QED
  BY <1>1, <1>3, <1>7 DEF DrasBookInv

\* The daily limits of backtest_dras hold of the legs themselves, on every
\* grid of bars with one at or after 15:15: an entry never follows
\* MaxConLosses losing legs in a row on that day, MaxDailyTrades trades of the
\* day, or a realised loss of the limit on the equity of its morning.  The
\* counters the kill switch reads never fall behind the list of the legs.
THEOREM DrasLimits ==
  ASSUME \E t \in BarTimes : IsEod(t)
  PROVE  DrasStudy => EntriesRespectDailyLimits
<1> DEFINE Limits ==
      book.position = 0 /\ book'.position # 0 =>
        LET n == Len(trades)
            today == {i \in 1 .. n : trades[i].day = day'}
            atOpen == InitialCapital + PnlOf((1 .. n) \ today)
        IN  /\ \E i \in (n - MaxConLosses + 1) .. n :
                 ~(i \in today /\ trades[i].pnl <= 0)
            /\ Cardinality({i \in today : trades[i].reason # "tp1_partial"})
                 < MaxDailyTrades
            /\ -PnlOf(today) * 100 < DailyDdLimit * atOpen
<1>1. IntradayInit => DrasBookInv
  BY DrasBookBegins
<1>2. DrasBookInv /\ [DrasStep]_intradayVars => DrasBookInv'
  BY DrasBookStep
<1>3. DrasBookInv /\ [DrasStep]_intradayVars => [Limits]_drasVars
  <2> SUFFICES ASSUME DrasBookInv, [DrasStep]_intradayVars,
                      book.position = 0, book'.position # 0
               PROVE  Limits
    OBVIOUS
  <2>1. PICK k : /\ BookOK(k, trades, day') /\ k.position = 0 /\ day' \in Int
                 /\ ~KillSwitch(k) /\ k.dayStartEquity > 0
    BY DrasBookStep
  <2> QED
    BY <2>1, CountersJudgeLegs
<1>4. DrasStudy => [][Limits]_drasVars
  <2> HIDE DEF Limits
  <2> QED
    BY <1>1, <1>2, <1>3, PTL DEF DrasStudy
<1> QED
  BY <1>4, PTL DEF EntriesRespectDailyLimits

-----------------------------------------------------------------------------
(* The signals of a live session                                           *)
(*                                                                         *)
(* Every signal was checked against the estimates before it was added to   *)
(* them, so the last one accepted bounds them all.  The other steps leave  *)
(* alone what the property reads.                                          *)

LiveTyped ==
  /\ DOMAIN live = {"pc", "session", "config", "policy", "watchlist", "frames",
                    "ranked", "regimes", "open", "deployed", "decisions"}
  /\ live.config \in LiveConfigs
  /\ live.open \in Int /\ live.deployed \in Int

LiveInv == LiveTyped /\ SignalsFitTogether

\* What a step of the session leaves alone, but for its place and its input.
KeepsSignals ==
  /\ DOMAIN live' = DOMAIN live
  /\ live'.config = live.config /\ live'.policy = live.policy
  /\ live'.open = live.open /\ live'.deployed = live.deployed
  /\ {d \in live'.decisions : d.type = "actionable_signal"} = Actionable

LEMMA NewSessionHolds ==
  ASSUME NEW n, NEW c \in LiveConfigs, NEW p
  PROVE  /\ live = NewSession(n, c, p) => LiveInv
         /\ live' = NewSession(n, c, p) => LiveInv'
BY LiveAssumption
   DEF NewSession, LiveInv, LiveTyped, SignalsFitTogether, Actionable

LEMMA NotionalStays ==
  ASSUME live'.config = live.config
  PROVE  Notional' = Notional
BY DEF Notional, SlotCapital, LiveDrawdownMode

LEMMA ChoiceStays ==
  ASSUME live'.policy = live.policy
  PROVE  \A r : SelectLive(r)' = SelectLive(r)
BY DEF SelectLive

LEMMA QuietKeepsSignals ==
  ASSUME LiveInv, KeepsSignals
  PROVE  LiveInv'
<1>1. LiveTyped'
  BY DEF LiveInv, LiveTyped, KeepsSignals
<1>2. Notional' = Notional
  BY NotionalStays DEF KeepsSignals
<1>3. Actionable' = Actionable
  BY DEF KeepsSignals, Actionable
<1>4. \A r : SelectLive(r)' = SelectLive(r)
  BY ChoiceStays DEF KeepsSignals
<1>5. \A r : LimitsIn(r)' = LimitsIn(r)
  BY DEF LimitsIn
<1> HIDE DEF Notional, Actionable, SelectLive, LimitsIn
<1> QED
  BY <1>1, <1>2, <1>3, <1>4, <1>5 DEF LiveInv, SignalsFitTogether, KeepsSignals

LEMMA AcceptKeepsSignals ==
  ASSUME LiveInv, NEW regime, NEW symbol,
         SelectLive(regime).trade, RiskAllows(regime),
         LET d == [symbol |-> symbol, regime |-> regime, type |-> "actionable_signal"]
         IN  live' = [Decided(d) EXCEPT !.open = @ + 1, !.deployed = @ + Notional]
  PROVE  LiveInv'
<1> DEFINE accepted == [symbol |-> symbol, regime |-> regime, type |-> "actionable_signal"]
           slot == Notional
<1>1. slot \in Int
  BY LiveAssumption DEF Notional, SlotCapital
<1>2. /\ DOMAIN live' = DOMAIN live
      /\ live'.config = live.config /\ live'.policy = live.policy
      /\ live'.open = live.open + 1 /\ live'.deployed = live.deployed + slot
      /\ live'.decisions = live.decisions \cup {accepted}
  BY DEF LiveInv, LiveTyped, Decided
<1>3. Notional' = slot
  BY <1>2, NotionalStays
<1>4. Actionable' = Actionable \cup {accepted}
  BY <1>2 DEF Actionable
<1>5. \A r : SelectLive(r)' = SelectLive(r)
  BY <1>2, ChoiceStays
<1>6. \A r : LimitsIn(r)' = LimitsIn(r)
  BY DEF LimitsIn
<1>7. LiveTyped'
  <2> HIDE DEF slot, accepted
  <2> QED
    BY <1>1, <1>2 DEF LiveInv, LiveTyped
<1>8. ASSUME live.config.precheck PROVE SignalsFitTogether'
  <2>1. /\ live.config.drawdown <= MaxDrawdown
        /\ live.open < LimitsIn(regime).open
        /\ 100 * live.deployed < LimitsIn(regime).exposure * Equity
    BY <1>8 DEF RiskAllows, CheckLiveEntry
  <2>2. live'.config.drawdown <= MaxDrawdown
    BY <2>1, <1>2
  <2>3. accepted \in Actionable' /\ accepted.regime = regime
    BY <1>4
  <2>4. LimitsIn(regime).open \in Int
    BY LiveAssumption DEF LimitsIn
  <2>5. live'.open <= LimitsIn(regime)'.open
    <3> HIDE DEF LimitsIn
    <3> QED
      BY <2>1, <2>4, <1>2, <1>6 DEF LiveInv, LiveTyped
  <2>6. live'.deployed - Notional' = live.deployed
    <3> HIDE DEF slot
    <3> QED
      BY <1>1, <1>2, <1>3 DEF LiveInv, LiveTyped
  <2>7. 100 * (live'.deployed - Notional') < LimitsIn(regime)'.exposure * Equity
    <3> HIDE DEF LimitsIn
    <3> QED
      BY <2>1, <2>6, <1>6
  <2>8. \A d \in Actionable : SelectLive(d.regime).trade
    BY <1>8 DEF LiveInv, SignalsFitTogether
  <2>9. \A d \in Actionable' : SelectLive(d.regime)'.trade
    <3> SUFFICES ASSUME NEW d \in Actionable' PROVE SelectLive(d.regime)'.trade
      OBVIOUS
    <3>1. CASE d \in Actionable
      <4> HIDE DEF SelectLive, Actionable
      <4> QED
        BY <3>1, <2>8, <1>5
    <3>2. CASE d = accepted
      <4>1. d.regime = regime
        BY <3>2
      <4> HIDE DEF SelectLive
      <4> QED
        BY <4>1, <1>5
    <3> QED
      BY <3>1, <3>2, <1>4
  <2> HIDE DEF accepted, slot, SelectLive, Actionable, Notional, LimitsIn
  <2> QED
    BY <2>2, <2>3, <2>5, <2>7, <2>9 DEF SignalsFitTogether
<1>9. ASSUME ~live.config.precheck PROVE SignalsFitTogether'
  BY <1>9, <1>2 DEF SignalsFitTogether
<1> QED
  BY <1>7, <1>8, <1>9 DEF LiveInv

LEMMA DecisionKeepsSignals == LiveInv /\ GenerateDecision => LiveInv'
<1> SUFFICES ASSUME LiveInv, GenerateDecision PROVE LiveInv'
  OBVIOUS
<1> DEFINE symbol == Head(live.ranked)
           regime == Head(live.regimes)
           Decision(type) == [symbol |-> symbol, regime |-> regime, type |-> type]
<1>1. \/ live' = Decided(Decision("no_trade"))
      \/ live' = Decided(Decision("risk_rejected"))
      \/ /\ SelectLive(regime).trade /\ RiskAllows(regime)
         /\ live' = [Decided(Decision("actionable_signal")) EXCEPT
                       !.open = @ + 1, !.deployed = @ + Notional]
  BY DEF GenerateDecision
<1>2. ASSUME NEW type \in {"no_trade", "risk_rejected"},
             live' = Decided(Decision(type))
      PROVE  KeepsSignals
  BY <1>2 DEF Decided, KeepsSignals, LiveInv, LiveTyped, Actionable
<1>3. CASE \/ live' = Decided(Decision("no_trade"))
           \/ live' = Decided(Decision("risk_rejected"))
  BY <1>3, <1>2, QuietKeepsSignals
<1>4. CASE /\ SelectLive(regime).trade /\ RiskAllows(regime)
           /\ live' = [Decided(Decision("actionable_signal")) EXCEPT
                         !.open = @ + 1, !.deployed = @ + Notional]
  <2> HIDE DEF symbol, regime
  <2> QED
    BY <1>4, AcceptKeepsSignals
<1> QED
  BY <1>1, <1>3, <1>4

LEMMA LiveStepHolds == LiveInv /\ [LiveNext]_liveVars => LiveInv'
<1> SUFFICES ASSUME LiveInv, [LiveNext]_liveVars PROVE LiveInv'
  OBVIOUS
<1>1. CASE Begin
  BY <1>1, QuietKeepsSignals DEF Begin, KeepsSignals, LiveInv, LiveTyped, Actionable
<1>2. CASE LoadLatestData
  BY <1>2, QuietKeepsSignals
     DEF LoadLatestData, KeepsSignals, LiveInv, LiveTyped, Actionable
<1>3. CASE RankSymbols
  <2>1. PICK ranked : live' = [live EXCEPT !.pc = "regimes", !.ranked = ranked]
    BY <1>3 DEF RankSymbols
  <2> QED
    BY <2>1, QuietKeepsSignals DEF KeepsSignals, LiveInv, LiveTyped, Actionable
<1>4. CASE ComputeRegimes
  BY <1>4, QuietKeepsSignals
     DEF ComputeRegimes, KeepsSignals, LiveInv, LiveTyped, Actionable
<1>5. CASE GenerateDecision
  BY <1>5, DecisionKeepsSignals
<1>6. CASE StrategyRaises
  BY <1>6, QuietKeepsSignals
     DEF StrategyRaises, KeepsSignals, LiveInv, LiveTyped, Actionable
<1>7. CASE ExportSession
  BY <1>7, QuietKeepsSignals
     DEF ExportSession, KeepsSignals, LiveInv, LiveTyped, Actionable
<1>8. CASE NextSession
  BY <1>8, NewSessionHolds DEF NextSession
<1>9. CASE UNCHANGED liveVars
  BY <1>9, QuietKeepsSignals DEF liveVars, KeepsSignals, Actionable
<1> QED
  BY <1>1, <1>2, <1>3, <1>4, <1>5, <1>6, <1>7, <1>8, <1>9 DEF LiveNext

\* LiveSignalPipeline (signals_pipeline.py): the accepted signals of one
\* session fit the limits of the portfolio together, for every watch-list,
\* policy, table of limits and sequence of sessions.
THEOREM LiveSafety == LiveSpec => []SignalsFitTogether
<1>1. LiveInit => LiveInv
  BY NewSessionHolds DEF LiveInit
<1>2. LiveInv /\ [LiveNext]_liveVars => LiveInv'
  BY LiveStepHolds
<1>3. LiveInv => SignalsFitTogether
  BY DEF LiveInv
<1> QED
  BY <1>1, <1>2, <1>3, PTL DEF LiveSpec

-----------------------------------------------------------------------------
(* The checkpoint of the research runner                                   *)
(*                                                                         *)
(* It never names a symbol whose rows are not on disk, and a run exports   *)
(* every symbol it skips, for every universe, every set of command lines   *)
(* and any number of crashes.                                              *)

\* What a running process knows of its command line and of the filter.
Running ==
  /\ run \in Nat
  /\ settings \in [1..MaxRuns -> Settings \union {NONE}]
  /\ pc # "idle" => run \in 1..MaxRuns
  /\ pc # "idle" => filtered \in {FALSE, settings[run].filter}

\* Some run with the hash h among the first n, with the command lines ss, has
\* all it owes for sym in the rows s.
Owed(s, sym, h, ss, n) ==
  \E r \in 1..n :
    /\ ss[r].config = h
    /\ {[sym |-> sym, strategy |-> st, run |-> r] :
          st \in {u \in Strategies : /\ <<sym, u>> \notin Broken
                                     /\ ss[r].filter => u \notin Blocked}}
         \subseteq s

Backed ==
  checkpoint # NONE =>
    \A sym \in checkpoint.completed :
      Owed(incremental, sym, checkpoint.hash, settings, run)

\* The symbols a running process will not touch again have their rows on disk
\* and in memory, until the results are out.
Kept ==
  pc \notin {"idle", "cleanup"} =>
    \A sym \in completed :
      /\ Owed(incremental, sym, settings[run].config, settings, run)
      /\ Owed(rows, sym, settings[run].config, settings, run)

Exported == pc = "manifest" => results.rows = rows

CheckpointInv == Running /\ Backed /\ Kept /\ Exported

\* Rows that are there stay there when rows are added and runs are started.
LEMMA RowsStay ==
  ASSUME NEW s, NEW t, s \subseteq t, NEW sym, NEW h, NEW ss, NEW tt,
         NEW n \in Nat, NEW k \in Nat, n <= k,
         \A r \in 1..n : tt[r] = ss[r],
         Owed(s, sym, h, ss, n)
  PROVE  Owed(t, sym, h, tt, k)
<1>1. PICK r \in 1..n :
        /\ ss[r].config = h
        /\ {[sym |-> sym, strategy |-> st, run |-> r] :
              st \in {u \in Strategies : /\ <<sym, u>> \notin Broken
                                         /\ ss[r].filter => u \notin Blocked}}
             \subseteq s
  BY DEF Owed
<1>2. r \in 1..k /\ tt[r] = ss[r]
  OBVIOUS
<1> QED
  BY <1>1, <1>2 DEF Owed

\* What is made of a symbol contains what a run of its settings owes.
LEMMA FinishedSymbolIsPaid ==
  ASSUME NEW sym, NEW s, run \in Nat, run > 0, filtered \in {FALSE, settings[run].filter},
         ProcessSymbol(sym) \subseteq s
  PROVE  Owed(s, sym, settings[run].config, settings, run)
<1>1. {[sym |-> sym, strategy |-> st, run |-> run] :
         st \in {u \in Strategies : /\ <<sym, u>> \notin Broken
                                    /\ settings[run].filter => u \notin Blocked}}
        \subseteq ProcessSymbol(sym)
  BY DEF ProcessSymbol, Allowed
<1>2. run \in 1..run
  OBVIOUS
<1> QED
  BY <1>1, <1>2 DEF Owed

LEMMA RunStartsBacked == Init => CheckpointInv
BY DEF Init, CheckpointInv, Running, Backed, Kept, Exported

LEMMA StartKeepsBacked == CheckpointInv /\ Start => CheckpointInv'
<1> SUFFICES ASSUME CheckpointInv, Start PROVE CheckpointInv'
  OBVIOUS
<1> USE DEF CheckpointInv
<1>1. PICK s \in Settings :
        /\ settings' = [settings EXCEPT ![run + 1] = s]
        /\ filtered' \in {FALSE, s.filter}
        /\ completed' = IF Resumable(s) THEN checkpoint.completed ELSE {}
        /\ rows' = PriorRows(s)
  BY DEF Start
<1>2. /\ pc = "idle" /\ pc' = "loop" /\ run < MaxRuns /\ run' = run + 1
      /\ UNCHANGED <<checkpoint, incremental, results>>
  BY DEF Start, disk
<1>3. run \in Nat /\ MaxRuns \in Nat
  BY ConfigAssumption DEF Running
<1>4. run' \in 1..MaxRuns /\ run' \in Nat /\ run <= run'
  BY <1>2, <1>3
<1>5. settings'[run'] = s /\ \A r \in 1..run : settings'[r] = settings[r]
  BY <1>1, <1>2, <1>3, <1>4 DEF Running
<1>6. Running'
  <2>1. settings' \in [1..MaxRuns -> Settings \union {NONE}]
    BY <1>1 DEF Running
  <2> QED
    BY <1>1, <1>4, <1>5, <2>1 DEF Running
<1>7. incremental' = incremental
  BY <1>2
<1>8. \A sym, h : Owed(incremental, sym, h, settings, run)
                    => Owed(incremental, sym, h, settings', run')
  BY <1>3, <1>4, <1>5, RowsStay
<1>9. Backed'
  BY <1>2, <1>7, <1>8 DEF Backed
<1>10. Kept'
  <2> SUFFICES ASSUME NEW sym \in completed'
               PROVE  /\ Owed(incremental, sym, settings[run].config, settings, run)'
                      /\ Owed(rows, sym, settings[run].config, settings, run)'
    BY DEF Kept
  <2>1. /\ Resumable(s) /\ sym \in checkpoint.completed
        /\ checkpoint # NONE /\ checkpoint.hash = s.config
    BY <1>1 DEF Resumable
  <2>2. rows' = incremental
    BY <1>1, <2>1 DEF PriorRows
  <2>3. Owed(incremental, sym, s.config, settings', run')
    BY <1>8, <2>1 DEF Backed
  <2> QED
    BY <1>5, <1>7, <2>2, <2>3
<1>11. Exported'
  BY <1>2 DEF Exported
<1> QED
  BY <1>6, <1>9, <1>10, <1>11

\* Both paths of the loop finish a symbol the same way.
LEMMA FinishKeepsBacked ==
  ASSUME CheckpointInv, pc = "loop", NEW new, Finish(new), run' = run, settings' = settings,
         filtered' = filtered, checkpoint' = checkpoint
  PROVE  CheckpointInv'
<1> USE DEF CheckpointInv
<1>1. run \in Nat /\ run > 0 /\ filtered \in {FALSE, settings[run].filter}
  <2>1. MaxRuns \in Nat
    BY ConfigAssumption
  <2>2. run \in 1..MaxRuns
    BY DEF Running
  <2>3. run \in Nat /\ run > 0
    BY <2>1, <2>2
  <2> QED
    BY <2>3 DEF Running
<1>2. /\ pc' = "checkpoint" /\ completed' = completed \union {new}
      /\ rows' = rows \union ProcessSymbol(new)
      /\ WriteIncremental(ProcessSymbol(new))
  BY DEF Finish
<1>3. incremental \subseteq incremental' /\ ProcessSymbol(new) \subseteq incremental'
  BY <1>2 DEF WriteIncremental
<1>4. Running' /\ Exported'
  BY <1>2 DEF Running, Exported
<1>5. \A sym, h : Owed(incremental, sym, h, settings, run)
                    => Owed(incremental', sym, h, settings, run)
  BY <1>1, <1>3, RowsStay
<1>6. \A sym, h : Owed(rows, sym, h, settings, run)
                    => Owed(rows', sym, h, settings, run)
  BY <1>1, <1>2, RowsStay
<1>7. Backed'
  BY <1>5 DEF Backed
<1>8. Kept'
  <2> SUFFICES ASSUME NEW sym \in completed'
               PROVE  /\ Owed(incremental', sym, settings[run].config, settings, run)
                      /\ Owed(rows', sym, settings[run].config, settings, run)
    BY DEF Kept
  <2>1. CASE sym \in completed
    BY <1>5, <1>6, <2>1 DEF Kept
  <2>2. CASE sym = new
    BY <1>1, <1>2, <1>3, <2>2, FinishedSymbolIsPaid
  <2> QED
    BY <1>2, <2>1, <2>2
<1> QED
  BY <1>4, <1>7, <1>8

\* The steps that touch neither rows nor checkpoint.
LEMMA QuietKeepsBacked ==
  ASSUME CheckpointInv, UNCHANGED <<run, settings, filtered, completed, rows, checkpoint,
                           incremental>>,
         pc # "idle", pc' # "manifest",
         pc' \notin {"idle", "cleanup"} => pc \notin {"idle", "cleanup"}
  PROVE  CheckpointInv'
BY DEF CheckpointInv, Running, Backed, Kept, Exported

LEMMA StepKeepsBacked == CheckpointInv /\ [Next]_vars => CheckpointInv'
<1> SUFFICES ASSUME CheckpointInv, [Next]_vars PROVE CheckpointInv'
  OBVIOUS
<1>1. CASE Start
  BY <1>1, StartKeepsBacked
<1>2. CASE SkipSymbol
  BY <1>2, QuietKeepsBacked DEF SkipSymbol, disk
<1>3. CASE SerialSymbol
  BY <1>3, FinishKeepsBacked DEF SerialSymbol
<1>5. CASE WorkerFails
  BY <1>5, QuietKeepsBacked DEF WorkerFails, disk
<1>6. CASE SaveCheckpoint
  <2>1. /\ pc = "checkpoint" /\ pc' = "loop" /\ WriteCheckpoint
        /\ UNCHANGED <<run, settings, filtered, completed, rows, incremental>>
    BY <1>6 DEF SaveCheckpoint
  <2> QED
    BY <2>1 DEF CheckpointInv, Running, Backed, Kept, Exported, ConfigHash,
                WriteCheckpoint
<1>7. CASE LoopEnds
  BY <1>7, QuietKeepsBacked DEF LoopEnds, memory, disk
<1>8. CASE RegimeAnalysis
  BY <1>8, QuietKeepsBacked DEF RegimeAnalysis, memory
<1>9. CASE PolicyPhase
  BY <1>9, QuietKeepsBacked DEF PolicyPhase, memory
<1>10. CASE WalkForward
  BY <1>10, QuietKeepsBacked DEF WalkForward, memory
<1>11. CASE RelativeStrength
  BY <1>11, QuietKeepsBacked DEF RelativeStrength, memory
<1>12. CASE PortfolioBacktest
  BY <1>12, QuietKeepsBacked DEF PortfolioBacktest
<1>13. CASE RiskValidation
  BY <1>13, QuietKeepsBacked DEF RiskValidation, memory
<1>14. CASE ExecutionRealism
  BY <1>14, QuietKeepsBacked DEF ExecutionRealism, memory
<1>15. CASE ExportResults
  <2>1. UNCHANGED <<run, settings, filtered, completed, rows, checkpoint, incremental>>
    BY <1>15 DEF ExportResults, memory
  <2>2. CASE rows = {}
    BY <1>15, <2>1, <2>2, QuietKeepsBacked DEF ExportResults
  <2>3. CASE rows # {}
    <3>1. pc = "export" /\ pc' = "manifest" /\ results'.rows = rows
      BY <1>15, <2>3 DEF ExportResults
    <3> QED
      BY <2>1, <3>1 DEF CheckpointInv, Running, Backed, Kept, Exported
  <2> QED
    BY <2>2, <2>3
<1>16. CASE WriteManifest
  BY <1>16, QuietKeepsBacked DEF WriteManifest, memory
<1>17. CASE Cleanup
  <2>1. /\ pc = "cleanup" /\ pc' \in {"idle", "cleanup"} /\ checkpoint' = NONE
        /\ UNCHANGED <<run, settings, filtered>>
    BY <1>17 DEF Cleanup, memory
  <2> QED
    BY <2>1 DEF CheckpointInv, Running, Backed, Kept, Exported
<1>18. CASE Crash
  BY <1>18 DEF Crash, disk, CheckpointInv, Running, Backed, Kept, Exported
<1>19. CASE UNCHANGED vars
  BY <1>19 DEF vars, memory, disk, CheckpointInv, Running, Backed, Kept, Exported
<1> QED
  BY <1>1, <1>2, <1>3, <1>5, <1>6, <1>7, <1>8, <1>9, <1>10, <1>11, <1>12,
     <1>13, <1>14, <1>15, <1>16, <1>17, <1>18, <1>19 DEF Next, Step

\* Whichever runs die where, every symbol a checkpoint names has its rows in the
\* incremental results, made under the checkpoint's hash, and what a run exports
\* holds the rows of every symbol it has skipped or finished.
THEOREM CheckpointSafety == Spec => []NothingCompletedIsLost
<1>1. CheckpointInv => CheckpointIsBackedByRows
  BY DEF CheckpointInv, Backed, Owed, CheckpointIsBackedByRows, HasRowsOf, Made, ConfigHash
<1>2. CheckpointInv => ResultsCoverCompleted
  BY DEF CheckpointInv, Kept, Exported, Owed, ResultsCoverCompleted, HasRowsOf, Made,
         ConfigHash
<1> QED
  BY RunStartsBacked, StepKeepsBacked, <1>1, <1>2, PTL DEF Spec, NothingCompletedIsLost

-----------------------------------------------------------------------------
(* Resuming                                                                *)

\* A resumed run has completed whatever a checkpoint of its settings names.
Resumed ==
  pc # "idle" /\ settings[run].resume /\ checkpoint # NONE
      /\ checkpoint.hash = settings[run].config
    => checkpoint.completed \subseteq completed

LEMMA StepKeepsResumed == CheckpointInv /\ Resumed /\ [Next]_vars => Resumed'
<1> SUFFICES ASSUME CheckpointInv, Resumed, [Next]_vars PROVE Resumed'
  OBVIOUS
<1>1. CASE Start
  <2>1. PICK s \in Settings : /\ run' = run + 1
                              /\ settings' = [settings EXCEPT ![run + 1] = s]
                              /\ completed' = IF Resumable(s) THEN checkpoint.completed ELSE {}
    BY <1>1 DEF Start
  <2>2. run + 1 \in 1..MaxRuns /\ settings \in [1..MaxRuns -> Settings \union {NONE}]
    BY <1>1, ConfigAssumption DEF Start, CheckpointInv, Running
  <2>3. settings'[run'] = s /\ checkpoint' = checkpoint
    BY <1>1, <2>1, <2>2 DEF Start, disk
  <2> QED BY <2>1, <2>3 DEF Resumed, Resumable
<1>2. CASE SerialSymbol
  <2>1. /\ completed \subseteq completed' /\ pc # "idle"
        /\ UNCHANGED <<run, settings, checkpoint>>
    BY <1>2 DEF SerialSymbol, Finish
  <2> QED BY <2>1 DEF Resumed
<1>3. CASE SaveCheckpoint
  BY <1>3 DEF SaveCheckpoint, WriteCheckpoint, Resumed
<1>4. CASE SkipSymbol \/ WorkerFails \/ LoopEnds
  BY <1>4 DEF SkipSymbol, WorkerFails, LoopEnds, memory, disk, Resumed
<1>5. CASE RegimeAnalysis \/ PolicyPhase \/ WalkForward \/ RelativeStrength
           \/ PortfolioBacktest \/ RiskValidation \/ ExecutionRealism
           \/ ExportResults \/ WriteManifest
  <2>1. pc # "idle" /\ UNCHANGED <<run, settings, completed, checkpoint>>
    BY <1>5 DEF RegimeAnalysis, PolicyPhase, WalkForward, RelativeStrength, PortfolioBacktest,
                RiskValidation, ExecutionRealism, ExportResults, WriteManifest, memory
  <2> QED BY <2>1 DEF Resumed
<1>6. CASE Cleanup
  BY <1>6 DEF Cleanup, Resumed
<1>7. CASE Crash
  BY <1>7 DEF Crash, Resumed
<1>8. CASE UNCHANGED vars
  BY <1>8 DEF vars, memory, disk, Resumed
<1> QED BY <1>1, <1>2, <1>3, <1>4, <1>5, <1>6, <1>7, <1>8 DEF Next, Step

\* Whichever runs die where, a resumed run writes no checkpoint that leaves out a
\* symbol the checkpoint of its settings named before.
THEOREM ProgressSafety == Spec => ResumeKeepsProgress
<1>1. Init => Resumed
  BY DEF Init, Resumed
<1>2. Resumed /\ [Next]_vars
        => [(/\ checkpoint # NONE /\ checkpoint' # NONE
             /\ args.resume /\ checkpoint.hash = checkpoint'.hash)
            => checkpoint.completed \subseteq checkpoint'.completed]_vars
  <2> SUFFICES ASSUME Resumed, Next, checkpoint # NONE, checkpoint' # NONE, args.resume,
                      checkpoint.hash = checkpoint'.hash
               PROVE  checkpoint.completed \subseteq checkpoint'.completed
    OBVIOUS
  <2>1. SaveCheckpoint \/ checkpoint' = checkpoint
    BY DEF Next, Step, Start, SkipSymbol, SerialSymbol, WorkerFails, LoopEnds,
           RegimeAnalysis, PolicyPhase, WalkForward, RelativeStrength, PortfolioBacktest,
           RiskValidation, ExecutionRealism, ExportResults, WriteManifest, Cleanup, Crash,
           memory, disk
  <2>2. CASE SaveCheckpoint
    BY <2>2 DEF SaveCheckpoint, WriteCheckpoint, ConfigHash, Resumed, args
  <2> QED BY <2>1, <2>2
<1> QED BY <1>1, <1>2, RunStartsBacked, StepKeepsBacked, StepKeepsResumed, PTL
        DEF Spec, ResumeKeepsProgress

-----------------------------------------------------------------------------
(* The plan                                                                *)
(*                                                                         *)
(* The budgets hold because a position costs at most the target it was     *)
(* sized for, and the target is at most what is left of the capital and of *)
(* the sector - whatever the weights are.  What needs care is the          *)
(* rounding: the units are rounded down before the risk cap is applied and *)
(* once more by it.                                                        *)

ItemSet == [pick : Picks, quantity : Int, notional : Int, risk : Int]

Reasons == {"drawdown_pause_no_new_risk", "max_positions_reached",
            "max_capital_deployed_reached", "max_sector_exposure_reached",
            "zero_target_allocation", "max_correlated_exposure_reached",
            "allocation_too_small_for_one_unit", "invalid_position_size",
            "max_per_trade_risk_rejection", "none"}

Rejection == [pick : Picks, reason : Reasons]

PlanShape ==
  [phase : {"idle", "weighing", "planning", "planned"}, toWeigh : Seq(Picks),
   queue : Seq(Picks), picked : Nat, weights : [PickedSymbols -> Int], total : Int,
   items : Seq(ItemSet), rejected : SUBSET Rejection,
   deployed : Int, exposure : [Sectors -> Int], bucketCounts : [Buckets -> Nat]]

PlanTypeOK == /\ cfg \in PlanConfigs /\ plan \in PlanShape
              /\ plan.phase \in {"weighing", "planning"} => plan.picked > 0

\* Nothing is chosen before the loop or while new risk is paused.
PausedIsEmpty ==
  /\ plan.phase \in {"weighing", "planning"} => DrawdownMode # "no_new_risk"
  /\ plan.phase = "idle" => plan.items = <<>>

PlanInv == PlanTypeOK /\ PausedIsEmpty /\ BudgetsHold

-----------------------------------------------------------------------------
(* Integer division                                                        *)

LEMMA DivFloor ==
  ASSUME NEW a \in Nat, NEW d \in Nat, d > 0
  PROVE  a \div d \in Nat /\ (a \div d) * d <= a
<1>1. a = d * (a \div d) + (a % d) /\ a % d >= 0 /\ a \div d \in Nat
  OBVIOUS
<1> QED
  BY <1>1

LEMMA DivIsInt ==
  ASSUME NEW a \in Int, NEW d \in Int, d > 0
  PROVE  a \div d \in Int
OBVIOUS

LEMMA TimesMonotone ==
  ASSUME NEW q \in Nat, NEW n \in Nat, NEW d \in Nat, q <= n
  PROVE  q * d <= n * d /\ q * d \in Nat
OBVIOUS

LEMMA DivBelow ==
  ASSUME NEW a \in Nat, NEW d \in Nat, NEW n \in Nat, d > 0, n * d > a
  PROVE  a \div d <= n
<1> DEFINE q == a \div d
<1>1. q \in Nat /\ q * d <= a
  BY DivFloor
<1> HIDE DEF q
<1>2. CASE q > n
  <2>1. n * d <= q * d
    BY <1>1, <1>2, TimesMonotone
  <2> QED
    BY <1>1, <2>1
<1>3. CASE q <= n
  BY <1>3 DEF q
<1> QED
  BY <1>1, <1>2, <1>3

LEMMA Room ==
  ASSUME NEW n \in Int, NEW limit \in Int, NEW taken \in Int, n <= limit - taken
  PROVE  taken + n <= limit
OBVIOUS

LEMMA PartNat ==
  ASSUME NEW a \in Nat, NEW pct \in Nat
  PROVE  Part(a, pct) \in Nat
BY DEF Part

-----------------------------------------------------------------------------
(* The budgets                                                             *)

LEMMA BudgetsAreNatural ==
  ASSUME cfg \in PlanConfigs
  PROVE  /\ MaxDeploy \in Nat /\ PositionCap \in Nat /\ SectorCap \in Nat
         /\ TradeRiskCap \in Nat /\ RiskBudget \in Nat
         /\ cfg.maxCorrelated \in Nat /\ cfg.maxPositions \in Nat
         /\ cfg.fixedFraction \in Nat
<1>1. /\ cfg.capital \in Nat /\ cfg.reserve \in 0 .. 100 /\ cfg.deployed \in Nat
      /\ cfg.perPosition \in Nat /\ cfg.tradeRisk \in Nat /\ cfg.riskPerTrade \in Nat
      /\ cfg.sector \in Nat /\ cfg.fixedFraction \in Nat /\ cfg.reduceRisk \in Nat
      /\ cfg.maxPositions \in Nat /\ cfg.maxCorrelated \in Nat
  BY PlanAssumption DEF ConfigOK, Natural, Percent
<1>2. RiskMultiplier \in Nat
  BY <1>1 DEF RiskMultiplier
<1>3. MaxDeploy \in Nat
  <2>0. (100 - cfg.reserve) \in Nat
    BY <1>1
  <2>1. Part(cfg.capital, 100 - cfg.reserve) \in Nat
    BY <1>1, <2>0, PartNat
  <2>2. Part(cfg.capital, cfg.deployed) \in Nat
    BY <1>1, PartNat
  <2>3. Least(Part(cfg.capital, 100 - cfg.reserve), Part(cfg.capital, cfg.deployed)) \in Nat
    BY <2>1, <2>2 DEF Least
  <2> QED
    BY <1>2, <2>3, PartNat DEF MaxDeploy
<1>4. PositionCap \in Nat /\ SectorCap \in Nat
  BY <1>1, PartNat DEF PositionCap, SectorCap
<1>5. TradeRiskCap \in Nat /\ RiskBudget \in Nat
  BY <1>1, <1>2, PartNat DEF TradeRiskCap, RiskBudget
<1> QED
  BY <1>1, <1>3, <1>4, <1>5

LEMMA PickFacts ==
  ASSUME NEW p \in Picks
  PROVE  /\ p.symbol \in PickedSymbols /\ p.sector \in Sectors
         /\ CorrelationBucket(p) \in Buckets
         /\ p.entry \in Nat /\ p.stop \in Nat /\ p.entry > p.stop
         /\ p.conviction \in Nat
         /\ p.atr # NoAtr => (p.atr \in Nat /\ p.atr > 0)
BY PlanAssumption DEF PickOK, Natural, PickedSymbols, Sectors, Buckets

LEMMA RawWeightType ==
  ASSUME NEW p \in Picks
  PROVE  RawWeight(p) \in Int
<1> DEFINE volatility == IF p.atr # NoAtr THEN p.atr ELSE p.entry - p.stop
<1>1. volatility \in Nat /\ volatility > 0
  BY PickFacts
<1>2. (100 * p.entry) \in Nat
  BY PickFacts
<1>3. (100 * p.entry) \div volatility \in Int
  BY <1>1, <1>2, DivFloor
<1> QED
  BY <1>3, PickFacts DEF RawWeight

-----------------------------------------------------------------------------
(* One pick                                                                *)

\* The caps on one position.
Capped(it) ==
  /\ it.quantity > 0 /\ it.notional <= PositionCap /\ it.risk <= TradeRiskCap
  /\ ~ByAtr(it.pick) =>
       it.quantity * (it.pick.entry - it.pick.stop) <= TradeRiskCap

\* A position that is taken costs no more than what is left of the capital and of
\* its sector: of its target, the units are what fits, and the caps on risk only
\* take units away.
LEMMA TakenFits ==
  ASSUME NEW p \in Picks, PlanTypeOK, plan.phase = "planning",
         RejectionReason(p) = "none"
  PROVE  /\ Item(p) \in ItemSet
         /\ Item(p).notional <= Remaining
         /\ Item(p).notional <= SectorRoom(p)
         /\ plan.bucketCounts[CorrelationBucket(p)] < cfg.maxCorrelated
         /\ Len(plan.items) < cfg.maxPositions
         /\ Capped(Item(p))
<1> DEFINE T == Target(p)
           W == WholeUnits(p)
           S == SizedUnits(p)
           R == RiskPerUnit(p)
           Q == Quantity(p)
           C == TradeRiskCap
<1>1. /\ MaxDeploy \in Nat /\ PositionCap \in Nat /\ SectorCap \in Nat
      /\ C \in Nat /\ RiskBudget \in Nat /\ cfg.fixedFraction \in Nat
      /\ cfg.maxCorrelated \in Nat /\ cfg.maxPositions \in Nat
  BY BudgetsAreNatural DEF PlanTypeOK
<1>2. /\ plan.deployed \in Int /\ plan.exposure[p.sector] \in Int
      /\ plan.weights[p.symbol] \in Int /\ plan.total \in Int /\ plan.picked \in Nat
      /\ plan.picked > 0 /\ Len(plan.items) \in Nat
      /\ plan.bucketCounts[CorrelationBucket(p)] \in Nat
  BY PickFacts DEF PlanTypeOK, PlanShape
<1>3. Share(p) \in Int
  <2> DEFINE N == MaxDeploy * plan.weights[p.symbol]
  <2>1. N \in Int
    BY <1>1, <1>2
  <2>2. CASE plan.total > 0
    <3> HIDE DEF N
    <3>1. N \div plan.total \in Int
      BY <1>2, <2>1, <2>2, DivIsInt
    <3> QED
      BY <2>2, <3>1 DEF Share, N
  <2>3. CASE ~(plan.total > 0)
    <3>1. MaxDeploy \div plan.picked \in Int
      BY <1>1, <1>2, DivIsInt
    <3> QED
      BY <2>3, <3>1 DEF Share
  <2> QED
    BY <2>2, <2>3
<1>4. Remaining \in Int /\ SectorRoom(p) \in Int
  <2>1. /\ MaxDeploy \in Int /\ plan.deployed \in Int
        /\ SectorCap \in Int /\ plan.exposure[p.sector] \in Int
    BY <1>1, <1>2
  <2> QED
    BY <2>1 DEF Remaining, SectorRoom
<1>5. T \in Int /\ T <= Remaining /\ T <= SectorRoom(p) /\ T <= PositionCap
  <2>1. \A x, y \in Int : Least(x, y) \in Int /\ Least(x, y) <= x /\ Least(x, y) <= y
    BY DEF Least
  <2>2. \A x, y, z \in Int : y <= z => Least(x, y) <= z
    BY DEF Least
  <2>3. PositionCap \in Int
    BY <1>1
  <2> DEFINE A == Least(Remaining, Share(p))
             B == Least(PositionCap, A)
  <2>4. A \in Int /\ A <= Remaining
    BY <1>3, <1>4, <2>1
  <2>5. B \in Int /\ B <= Remaining /\ B <= PositionCap
    <3> HIDE DEF A
    <3> QED
      BY <1>4, <2>1, <2>2, <2>3, <2>4
  <2>6. Least(SectorRoom(p), B) \in Int
        /\ Least(SectorRoom(p), B) <= Remaining /\ Least(SectorRoom(p), B) <= SectorRoom(p)
        /\ Least(SectorRoom(p), B) <= PositionCap
    <3> HIDE DEF B
    <3> QED
      BY <1>4, <2>1, <2>2, <2>3, <2>5
  <2> QED
    BY <2>6 DEF Target
<1>6. /\ ~(T <= 0) /\ ~(W < 1) /\ ~(S < 1) /\ ~(Q < 1)
      /\ ~(plan.bucketCounts[CorrelationBucket(p)] >= cfg.maxCorrelated)
      /\ ~(Len(plan.items) >= cfg.maxPositions)
  <2> HIDE DEF T, W, S, Q
  <2> QED
    BY DEF RejectionReason, T, W, S, Q
<1>7. W \in Nat /\ W * p.entry <= T
  <2> HIDE DEF T
  <2>1. T \in Nat /\ p.entry \in Nat /\ p.entry > 0
    BY <1>5, <1>6, PickFacts
  <2>2. T \div p.entry \in Nat /\ (T \div p.entry) * p.entry <= T
    BY <2>1, DivFloor
  <2> QED
    BY <2>2 DEF WholeUnits, T
<1>8. R \in Nat /\ R > 0
  BY PickFacts DEF RiskPerUnit, ByAtr
<1>9. S \in Nat /\ S <= W
  <2>1. RiskBudget \div R \in Nat
    <3> HIDE DEF R
    <3> QED
      BY <1>1, <1>8, DivFloor
  <2>2. Part(T, cfg.fixedFraction) \div p.entry \in Nat
    <3> HIDE DEF T
    <3>1. T \in Nat
      BY <1>5, <1>6
    <3>2. Part(T, cfg.fixedFraction) \in Nat
      BY <1>1, <3>1, PartNat
    <3> QED
      BY <3>2, PickFacts, DivFloor
  <2>3. SizedUnits(p) = Least(W, IF cfg.sizing = "fixed_fractional"
                                 THEN Part(T, cfg.fixedFraction) \div p.entry
                                 ELSE RiskBudget \div R)
    BY DEF SizedUnits
  <2> HIDE DEF T, W, R
  <2> QED
    BY <1>7, <2>1, <2>2, <2>3 DEF Least
<1>10. Q \in Nat /\ Q <= S /\ Q * R <= C
  <2>1. Q = IF S * R > C THEN C \div R ELSE S
    BY DEF Quantity
  <2> HIDE DEF Q, S, R, C
  <2>2. CASE S * R > C
    <3>1. C \div R \in Nat /\ (C \div R) * R <= C
      BY <1>1, <1>8, DivFloor
    <3>2. C \div R <= S
      BY <1>1, <1>8, <1>9, <2>2, DivBelow
    <3> QED
      BY <2>1, <2>2, <3>1, <3>2
  <2>3. CASE ~(S * R > C)
    <3>1. S * R \in Int /\ C \in Int
      BY <1>1, <1>8, <1>9
    <3> QED
      BY <1>9, <2>1, <2>3, <3>1
  <2> QED
    BY <2>2, <2>3
<1>11. Q * p.entry \in Nat /\ Q * p.entry <= T
  <2> HIDE DEF Q, S, W, T
  <2>1. Q <= W /\ Q \in Nat /\ W \in Nat
    BY <1>7, <1>9, <1>10
  <2>2. p.entry \in Nat
    BY PickFacts
  <2>3. Q * p.entry <= W * p.entry /\ Q * p.entry \in Nat
    BY <2>1, <2>2, TimesMonotone
  <2>4. W * p.entry \in Nat
    BY <2>1, <2>2
  <2> QED
    BY <1>5, <1>7, <2>3, <2>4
<1>12. Q * R \in Int
  <2> HIDE DEF Q, R
  <2> QED
    BY <1>8, <1>10
<1>13. Item(p) = [pick |-> p, quantity |-> Q, notional |-> Q * p.entry, risk |-> Q * R]
  BY DEF Item
<1>14. Item(p) \in ItemSet
  <2> HIDE DEF Q, R
  <2> QED
    BY <1>10, <1>11, <1>12, <1>13 DEF ItemSet
<1>15. Item(p).notional <= Remaining /\ Item(p).notional <= SectorRoom(p)
  <2>1. Item(p).notional = Q * p.entry
    BY <1>13
  <2> HIDE DEF Q, T
  <2> QED
    BY <1>4, <1>5, <1>11, <2>1
<1>16. /\ plan.bucketCounts[CorrelationBucket(p)] < cfg.maxCorrelated
       /\ Len(plan.items) < cfg.maxPositions
  BY <1>1, <1>2, <1>6
<1>17. Capped(Item(p))
  <2>1. ~ByAtr(p) => R = p.entry - p.stop
    BY DEF RiskPerUnit
  <2>2. Q > 0 /\ Q * p.entry <= PositionCap
    <3> HIDE DEF Q, T
    <3> QED
      BY <1>1, <1>5, <1>6, <1>10, <1>11
  <2> HIDE DEF Q, R, C
  <2> QED
    BY <1>10, <1>13, <2>1, <2>2 DEF Capped, C
<1> QED
  BY <1>14, <1>15, <1>16, <1>17

-----------------------------------------------------------------------------
(* The invariant                                                           *)

LEMMA PlanInitHolds == PlanInit => PlanInv
<1> SUFFICES ASSUME PlanInit PROVE PlanInv
  OBVIOUS
<1>1. cfg \in PlanConfigs /\ plan = NoPlan
  BY DEF PlanInit
<1>2. plan \in PlanShape
  <2> HIDE DEF PickedSymbols, Sectors, Buckets, ItemSet
  <2> QED
    BY <1>1 DEF NoPlan, PlanShape
<1>3. PlanTypeOK /\ PausedIsEmpty
  BY <1>1, <1>2 DEF PlanTypeOK, PausedIsEmpty, NoPlan
<1>4. BudgetsHold
  BY <1>1, BudgetsAreNatural DEF BudgetsHold, NoPlan
<1> QED
  BY <1>3, <1>4 DEF PlanInv

\* The configuration decides the budgets, and no step changes it.
LEMMA BudgetsStay ==
  ASSUME UNCHANGED <<cfg, drawdown>>
  PROVE  /\ MaxDeploy' = MaxDeploy /\ SectorCap' = SectorCap
         /\ DrawdownMode' = DrawdownMode
         /\ cfg'.maxCorrelated = cfg.maxCorrelated
         /\ cfg'.maxPositions = cfg.maxPositions
BY DEF MaxDeploy, SectorCap, DrawdownMode, RiskMultiplier

LEMMA StartHolds ==
  ASSUME PlanInv, NEW ps \in Seq(Picks), StartPlan(ps)
  PROVE  PlanInv'
<1>1. /\ plan \in PlanShape /\ plan.phase = "idle" /\ plan.items = <<>>
      /\ UNCHANGED <<cfg, drawdown>> /\ cfg \in PlanConfigs /\ BudgetsHold
  BY DEF PlanInv, PlanTypeOK, PausedIsEmpty, StartPlan
<1>2. Len(ps) \in Nat /\ (ps # <<>> => Len(ps) > 0)
  OBVIOUS
<1>3. CASE DrawdownMode = "no_new_risk"
  <2> DEFINE turnedDown == {[pick |-> ps[i], reason |-> "drawdown_pause_no_new_risk"] :
                              i \in DOMAIN ps}
  <2>1. turnedDown \in SUBSET Rejection
    <3>1. \A i \in DOMAIN ps : ps[i] \in Picks
      OBVIOUS
    <3> SUFFICES ASSUME NEW i \in DOMAIN ps
                 PROVE  [pick |-> ps[i], reason |-> "drawdown_pause_no_new_risk"]
                           \in Rejection
      OBVIOUS
    <3> QED
      BY <3>1 DEF Rejection, Reasons
  <2>2. plan' = [plan EXCEPT !.phase = "planned", !.rejected = turnedDown]
    BY <1>3 DEF StartPlan
  <2> HIDE DEF turnedDown
  <2>3. /\ plan' \in PlanShape /\ plan'.phase = "planned" /\ plan'.items = plan.items
        /\ plan'.deployed = plan.deployed /\ plan'.exposure = plan.exposure
        /\ plan'.bucketCounts = plan.bucketCounts
    BY <1>1, <2>1, <2>2 DEF PlanShape
  <2> QED
    BY <1>1, <2>3, BudgetsStay DEF PlanInv, PlanTypeOK, PausedIsEmpty, BudgetsHold
<1>4. CASE DrawdownMode # "no_new_risk"
  <2> DEFINE phase == IF ps = <<>> THEN "planned" ELSE "weighing"
  <2>1. plan' = [plan EXCEPT !.phase = phase, !.toWeigh = ps, !.queue = ps,
                             !.picked = Len(ps)]
    BY <1>4 DEF StartPlan
  <2>2. /\ plan' \in PlanShape /\ plan'.phase = phase /\ plan'.items = plan.items
        /\ plan'.deployed = plan.deployed /\ plan'.exposure = plan.exposure
        /\ plan'.bucketCounts = plan.bucketCounts /\ plan'.picked = Len(ps)
    BY <1>1, <1>2, <2>1 DEF PlanShape
  <2> QED
    BY <1>1, <1>2, <1>4, <2>2, BudgetsStay
       DEF PlanInv, PlanTypeOK, PausedIsEmpty, BudgetsHold
<1> QED
  BY <1>3, <1>4

\* What the steps before and between the picks leave alone is all that the budgets
\* are about.
LEMMA OtherStepHolds ==
  ASSUME PlanInv, UNCHANGED <<cfg, drawdown>>, plan' \in PlanShape,
         plan.phase \in {"weighing", "planning"},
         plan'.phase \in {"weighing", "planning", "planned"},
         plan'.picked = plan.picked, plan'.items = plan.items,
         plan'.deployed = plan.deployed, plan'.exposure = plan.exposure,
         plan'.bucketCounts = plan.bucketCounts
  PROVE  PlanInv'
BY BudgetsStay DEF PlanInv, PlanTypeOK, PausedIsEmpty, BudgetsHold

LEMMA WeighHolds ==
  ASSUME PlanInv, plan.phase = "weighing", plan.toWeigh # <<>>,
         WeighPick(Head(plan.toWeigh)), UNCHANGED <<cfg, drawdown>>
  PROVE  PlanInv'
<1> DEFINE p == Head(plan.toWeigh)
           raw == RawWeight(p)
<1>1. plan \in PlanShape
  BY DEF PlanInv, PlanTypeOK
<1>2. p \in Picks /\ Tail(plan.toWeigh) \in Seq(Picks)
  BY <1>1 DEF PlanShape
<1>3. raw \in Int /\ p.symbol \in PickedSymbols
  BY <1>2, RawWeightType, PickFacts
<1>4. plan' = [plan EXCEPT !.toWeigh = Tail(@), !.weights[p.symbol] = raw,
                           !.total = (@ - plan.weights[p.symbol]) + raw]
  BY DEF WeighPick
<1> DEFINE tail == Tail(plan.toWeigh)
           weights == [plan.weights EXCEPT ![p.symbol] = raw]
           total == (plan.total - plan.weights[p.symbol]) + raw
<1>5. tail \in Seq(Picks) /\ weights \in [PickedSymbols -> Int] /\ total \in Int
  <2> HIDE DEF p, raw
  <2> QED
    BY <1>1, <1>2, <1>3 DEF PlanShape
<1>6. plan' = [plan EXCEPT !.toWeigh = tail, !.weights = weights, !.total = total]
  BY <1>1, <1>4 DEF PlanShape
<1> HIDE DEF p, raw, tail, weights, total
<1>7. /\ plan' \in PlanShape /\ plan'.phase = plan.phase
      /\ plan'.picked = plan.picked /\ plan'.items = plan.items
      /\ plan'.deployed = plan.deployed /\ plan'.exposure = plan.exposure
      /\ plan'.bucketCounts = plan.bucketCounts
  BY <1>1, <1>5, <1>6 DEF PlanShape
<1> QED
  BY <1>7, OtherStepHolds

LEMMA SelectHolds ==
  ASSUME PlanInv, plan.phase = "planning", plan.queue # <<>>,
         SelectPick(Head(plan.queue)), UNCHANGED <<cfg, drawdown>>
  PROVE  PlanInv'
<1> DEFINE p == Head(plan.queue)
           it == Item(p)
           b == CorrelationBucket(p)
<1>1. plan \in PlanShape /\ PlanTypeOK /\ PausedIsEmpty /\ BudgetsHold
  BY DEF PlanInv, PlanTypeOK
<1>2. p \in Picks /\ Tail(plan.queue) \in Seq(Picks)
  BY <1>1 DEF PlanShape
<1>3. p.sector \in Sectors /\ b \in Buckets
  BY <1>2, PickFacts
<1>4. RejectionReason(p) = "none"
  BY DEF SelectPick
<1>5. /\ it \in ItemSet
      /\ it.notional <= Remaining /\ it.notional <= SectorRoom(p)
      /\ plan.bucketCounts[b] < cfg.maxCorrelated
      /\ Len(plan.items) < cfg.maxPositions
  BY <1>1, <1>2, <1>4, TakenFits
<1>6. plan' = [plan EXCEPT !.queue = Tail(@), !.items = Append(@, it),
                           !.deployed = @ + it.notional,
                           !.exposure[p.sector] = @ + it.notional,
                           !.bucketCounts[b] = @ + 1]
  BY DEF SelectPick
<1>7. it.notional \in Int
  BY <1>5 DEF ItemSet
<1> DEFINE n == it.notional
<1>8. /\ MaxDeploy \in Nat /\ SectorCap \in Nat
      /\ cfg.maxCorrelated \in Nat /\ cfg.maxPositions \in Nat
  BY <1>1, BudgetsAreNatural DEF PlanTypeOK
<1>9. plan.deployed + n <= MaxDeploy /\ plan.exposure[p.sector] + n <= SectorCap
  <2>1. n <= MaxDeploy - plan.deployed /\ n <= SectorCap - plan.exposure[p.sector]
    BY <1>5 DEF Remaining, SectorRoom
  <2>2. plan.deployed \in Int /\ plan.exposure[p.sector] \in Int
    BY <1>1, <1>3 DEF PlanShape
  <2>3. n \in Int
    BY <1>7
  <2>4. MaxDeploy \in Int /\ SectorCap \in Int
    BY <1>8
  <2> HIDE DEF n, p
  <2> QED
    BY <2>1, <2>2, <2>3, <2>4, Room
<1>10. it \in ItemSet /\ n \in Int
  BY <1>5, <1>7
<1>11. plan' = [plan EXCEPT !.queue = Tail(@), !.items = Append(@, it),
                            !.deployed = @ + n, !.exposure[p.sector] = @ + n,
                            !.bucketCounts[b] = @ + 1]
  BY <1>6
<1>12. Append(plan.items, it) \in Seq(ItemSet)
       /\ Len(Append(plan.items, it)) = Len(plan.items) + 1
       /\ Len(plan.items) \in Nat
  <2> HIDE DEF it
  <2> QED
    BY <1>1, <1>10 DEF PlanShape
<1> HIDE DEF p, it, b, n
<1>13. plan' \in PlanShape
  <2> DEFINE queue == Tail(plan.queue)
             items == Append(plan.items, it)
             deployed == plan.deployed + n
             exposure == [plan.exposure EXCEPT ![p.sector] = @ + n]
             counts == [plan.bucketCounts EXCEPT ![b] = @ + 1]
  <2>1. plan' = [plan EXCEPT !.queue = queue, !.items = items, !.deployed = deployed,
                             !.exposure = exposure, !.bucketCounts = counts]
    BY <1>1, <1>11 DEF PlanShape
  <2>2. queue \in Seq(Picks) /\ items \in Seq(ItemSet)
    BY <1>2, <1>12
  <2>3. deployed \in Int /\ exposure \in [Sectors -> Int]
    BY <1>1, <1>3, <1>10 DEF PlanShape
  <2>4. counts \in [Buckets -> Nat]
    BY <1>1, <1>3 DEF PlanShape
  <2> HIDE DEF queue, items, deployed, exposure, counts
  <2> QED
    BY <1>1, <2>1, <2>2, <2>3, <2>4 DEF PlanShape
<1>14. /\ plan'.phase = "planning" /\ plan'.picked = plan.picked
       /\ plan'.deployed = plan.deployed + n
       /\ plan'.exposure = [plan.exposure EXCEPT ![p.sector] = @ + n]
       /\ plan'.bucketCounts = [plan.bucketCounts EXCEPT ![b] = @ + 1]
       /\ plan'.items = Append(plan.items, it)
  BY <1>1, <1>11 DEF PlanShape
<1>15. PlanTypeOK' /\ PausedIsEmpty'
  BY <1>1, <1>13, <1>14, BudgetsStay DEF PlanTypeOK, PausedIsEmpty
<1>16. BudgetsHold'
  <2>1. plan'.deployed <= MaxDeploy'
    BY <1>9, <1>14, BudgetsStay
  <2>2. ASSUME NEW s \in Sectors
        PROVE  plan'.exposure[s] <= SectorCap'
    <3>1. plan.exposure \in [Sectors -> Int] /\ plan.exposure[s] <= SectorCap
      BY <1>1 DEF PlanShape, BudgetsHold
    <3>2. CASE s = p.sector
      BY <1>9, <1>14, <3>1, <3>2, BudgetsStay
    <3>3. CASE s # p.sector
      BY <1>14, <3>1, <3>3, BudgetsStay
    <3> QED
      BY <3>2, <3>3
  <2>3. ASSUME NEW c \in Buckets
        PROVE  plan'.bucketCounts[c] <= cfg'.maxCorrelated
    <3>1. /\ plan.bucketCounts \in [Buckets -> Nat]
          /\ plan.bucketCounts[c] <= cfg.maxCorrelated
          /\ plan.bucketCounts[b] < cfg.maxCorrelated
      BY <1>1, <1>5 DEF PlanShape, BudgetsHold, b
    <3> DEFINE old == plan.bucketCounts[c]
    <3>2. plan'.bucketCounts[c] = IF c = b THEN old + 1 ELSE old
      BY <1>14, <3>1
    <3>3. old \in Nat /\ old <= cfg.maxCorrelated
          /\ (c = b => old < cfg.maxCorrelated)
      BY <3>1
    <3> HIDE DEF old
    <3> QED
      BY <1>8, <3>2, <3>3, BudgetsStay
  <2>4. Len(plan'.items) <= cfg'.maxPositions
    BY <1>5, <1>8, <1>12, <1>14, BudgetsStay
  <2>5. DrawdownMode' # "no_new_risk"
    BY <1>1, BudgetsStay DEF PausedIsEmpty
  <2> QED
    BY <2>1, <2>2, <2>3, <2>4, <2>5 DEF BudgetsHold
<1> QED
  BY <1>15, <1>16 DEF PlanInv

LEMMA RejectHolds ==
  ASSUME PlanInv, plan.phase = "planning", plan.queue # <<>>,
         RejectPick(Head(plan.queue)), UNCHANGED <<cfg, drawdown>>
  PROVE  PlanInv'
<1> DEFINE p == Head(plan.queue)
           why == RejectionReason(p)
<1>1. plan \in PlanShape
  BY DEF PlanInv, PlanTypeOK
<1>2. p \in Picks /\ Tail(plan.queue) \in Seq(Picks)
  BY <1>1 DEF PlanShape
<1>3. why \in Reasons
  BY DEF RejectionReason, Reasons
<1>4. plan' = [plan EXCEPT !.queue = Tail(@),
                           !.rejected = @ \cup {[pick |-> p, reason |-> why]}]
  BY DEF RejectPick
<1> DEFINE tail == Tail(plan.queue)
           rejected == plan.rejected \cup {[pick |-> p, reason |-> why]}
<1>5. tail \in Seq(Picks)
  BY <1>2
<1>6. rejected \in SUBSET Rejection
  <2> HIDE DEF p, why
  <2> QED
    BY <1>1, <1>2, <1>3 DEF PlanShape, Rejection
<1>7. plan' = [plan EXCEPT !.queue = tail, !.rejected = rejected]
  BY <1>4
<1> HIDE DEF p, why, tail, rejected
<1>8. /\ plan' \in PlanShape /\ plan'.phase = plan.phase
      /\ plan'.picked = plan.picked /\ plan'.items = plan.items
      /\ plan'.deployed = plan.deployed /\ plan'.exposure = plan.exposure
      /\ plan'.bucketCounts = plan.bucketCounts
  BY <1>1, <1>5, <1>6, <1>7 DEF PlanShape
<1> QED
  BY <1>8, OtherStepHolds

LEMMA PlanNextHolds ==
  ASSUME PlanInv, PlanNext
  PROVE  PlanInv'
<1>1. UNCHANGED <<cfg, drawdown>> /\ plan \in PlanShape
  BY DEF PlanInv, PlanTypeOK, PlanNext
<1>2. CASE plan.phase = "weighing" /\ plan.toWeigh # <<>> /\ WeighPick(Head(plan.toWeigh))
  BY <1>1, <1>2, WeighHolds
<1>3. CASE /\ plan.phase \in {"weighing", "planning"}
           /\ plan' = [plan EXCEPT !.phase = "planning"]
  <2>1. /\ plan' \in PlanShape /\ plan'.phase = "planning"
        /\ plan'.picked = plan.picked /\ plan'.items = plan.items
        /\ plan'.deployed = plan.deployed /\ plan'.exposure = plan.exposure
        /\ plan'.bucketCounts = plan.bucketCounts
    BY <1>1, <1>3 DEF PlanShape
  <2> QED
    BY <1>1, <1>3, <2>1, OtherStepHolds
<1>4. CASE plan.phase = "planning" /\ plan.queue # <<>> /\ SelectPick(Head(plan.queue))
  BY <1>1, <1>4, SelectHolds
<1>5. CASE plan.phase = "planning" /\ plan.queue # <<>> /\ RejectPick(Head(plan.queue))
  BY <1>1, <1>5, RejectHolds
<1>6. CASE plan.phase = "planning" /\ plan' = [plan EXCEPT !.phase = "planned"]
  <2>1. /\ plan' \in PlanShape /\ plan'.phase = "planned"
        /\ plan'.picked = plan.picked /\ plan'.items = plan.items
        /\ plan'.deployed = plan.deployed /\ plan'.exposure = plan.exposure
        /\ plan'.bucketCounts = plan.bucketCounts
    BY <1>1, <1>6 DEF PlanShape
  <2> QED
    BY <1>1, <1>6, <2>1, OtherStepHolds
<1> QED
  BY <1>2, <1>3, <1>4, <1>5, <1>6 DEF PlanNext

LEMMA PlanStutterHolds ==
  ASSUME PlanInv, UNCHANGED planVars
  PROVE  PlanInv'
<1>1. UNCHANGED <<cfg, drawdown>> /\ plan' = plan
  BY DEF planVars
<1> QED
  BY <1>1, BudgetsStay DEF PlanInv, PlanTypeOK, PausedIsEmpty, BudgetsHold

\* For every set of picks, configurations and drawdowns, in whatever order the
\* picks come: the plan deploys no more than the drawdown mode allows, gives no
\* sector more than its share and respects the limits on positions.
THEOREM PlanSafety == PlanSpec => []BudgetsHold
<1>1. PlanInit => PlanInv
  BY PlanInitHolds
<1>2. ASSUME PlanInv, [(\E ps \in Seq(Picks) : StartPlan(ps)) \/ PlanNext]_planVars
      PROVE  PlanInv'
  BY <1>2, StartHolds, PlanNextHolds, PlanStutterHolds
<1>3. PlanInv => BudgetsHold
  BY DEF PlanInv
<1> QED
  BY <1>1, <1>2, <1>3, PTL DEF PlanSpec

-----------------------------------------------------------------------------
(* The totals of the plan                                                  *)

\* The notionals of the chosen positions, and which of them are of a sector or of
\* a correlation bucket.
NotionalOf(items) == [i \in DOMAIN items |-> items[i].notional]
OfSector(items, s) == {i \in DOMAIN items : items[i].pick.sector = s}
OfBucket(items, b) == {i \in DOMAIN items : CorrelationBucket(items[i].pick) = b}

\* The totals are those of the positions.
TalliedOf(items, deployed, exposure, counts) ==
  /\ deployed = Total(NotionalOf(items), DOMAIN items)
  /\ \A s \in Sectors : exposure[s] = Total(NotionalOf(items), OfSector(items, s))
  /\ \A b \in Buckets : counts[b] = Cardinality(OfBucket(items, b))

\* The totals the plan goes by are those of its positions, which keep to the caps.
Tallied ==
  /\ TalliedOf(plan.items, plan.deployed, plan.exposure, plan.bucketCounts)
  /\ \A i \in DOMAIN plan.items : Capped(plan.items[i])

Invested(items, S) ==
  MapThenFoldSet(LAMBDA x, y : x + y, 0, LAMBDA i : items[i].notional,
                 LAMBDA T : CHOOSE i \in T : TRUE, S)

\* The sums of the property are such sums.
LEMMA InvestedIsTotal ==
  ASSUME NEW items, NEW S \in SUBSET DOMAIN items, Weighs(NotionalOf(items), S)
  PROVE  Invested(items, S) = Total(NotionalOf(items), S)
<1> DEFINE w == NotionalOf(items)
           c(s) == CHOOSE x \in s : TRUE
           Adds(g) == g = [s \in SUBSET S |->
                        IF s = {} THEN 0
                        ELSE items[c(s)].notional + g[s \ {c(s)}]]
           it == CHOOSE g : Adds(g)
<1>1. Invested(items, S) = it[S]
  BY DEF Invested, MapThenFoldSet
<1>2. \A s \in SUBSET S : s # {} => w[c(s)] = items[c(s)].notional
  BY DEF NotionalOf
<1> HIDE DEF w
<1>3. PICK f : Sums(w, S, f)
  BY SumsExist DEF w
<1>4. Adds(f)
  <2> DEFINE a(s) == IF s = {} THEN 0 ELSE items[c(s)].notional + f[s \ {c(s)}]
  <2>1. f = [s \in SUBSET S |-> f[s]]
    BY <1>3 DEF Sums
  <2>2. ASSUME NEW s \in SUBSET S PROVE f[s] = a(s)
    <3>1. CASE s = {}
      BY <1>3, <3>1 DEF Sums
    <3>2. CASE s # {}
      <4>1. f[s] = w[c(s)] + f[s \ {c(s)}]
        BY <1>3, <3>2 DEF Sums
      <4> HIDE DEF c
      <4> QED
        BY <1>2, <3>2, <4>1
    <3> QED
      BY <3>1, <3>2
  <2>3. f = [s \in SUBSET S |-> a(s)]
    <3> HIDE DEF a
    <3> QED
      BY <2>1, <2>2
  <2> QED
    BY <2>3
<1> HIDE DEF Adds
<1>5. Adds(it)
  BY <1>4
<1> HIDE DEF it
<1> USE DEF Adds
<1>6. it[{}] = 0
  BY <1>5
<1>7. \A s \in SUBSET S : s # {} => it[s] = w[c(s)] + it[s \ {c(s)}]
  BY <1>2, <1>5
<1>8. Recurs(w, S, it)
  BY <1>6, <1>7 DEF Recurs
<1> QED
  BY <1>1, <1>8, SumIsTotal DEF w

LEMMA PropertyIsInvested ==
  ItemsMatchTotals <=>
    /\ plan.deployed = Invested(plan.items, DOMAIN plan.items)
    /\ \A s \in Sectors :
         plan.exposure[s] = Invested(plan.items, OfSector(plan.items, s))
    /\ \A b \in Buckets : plan.bucketCounts[b] = Cardinality(OfBucket(plan.items, b))
    /\ \A i \in DOMAIN plan.items : Capped(plan.items[i])
BY DEF ItemsMatchTotals, Invested, MapThenFoldSet, OfSector, OfBucket, Capped

\* The positions of a plan are finitely many, and so are those of a sector.
LEMMA ItemsWeigh ==
  ASSUME NEW items \in Seq(ItemSet), NEW S \in SUBSET DOMAIN items
  PROVE  Weighs(NotionalOf(items), S)
<1>1. DOMAIN items = 1 .. Len(items) /\ Len(items) \in Int
  OBVIOUS
<1>2. IsFiniteSet(DOMAIN items)
  BY <1>1, FS_Interval
<1>3. \A i \in DOMAIN items : items[i] \in ItemSet
  OBVIOUS
<1>4. \A i \in DOMAIN items : NotionalOf(items)[i] \in Int
  BY <1>3 DEF NotionalOf, ItemSet
<1> QED
  BY <1>2, <1>4, FS_Subset DEF Weighs

\* One position more at the end: the sums over the older ones stay, and with it
\* they grow by its notional.
LEMMA AppendTotal ==
  ASSUME NEW items \in Seq(ItemSet), NEW it \in ItemSet, NEW S \in SUBSET DOMAIN items
  PROVE  LET after == Append(items, it)
             n == Len(items) + 1
         IN  /\ Total(NotionalOf(after), S) = Total(NotionalOf(items), S)
             /\ Total(NotionalOf(after), S \cup {n})
                  = Total(NotionalOf(items), S) + it.notional
             /\ n \notin S
<1> DEFINE after == Append(items, it)
           n == Len(items) + 1
           old == NotionalOf(items)
           new == NotionalOf(after)
<1>1. /\ after \in Seq(ItemSet) /\ DOMAIN after = DOMAIN items \cup {n}
      /\ n \notin DOMAIN items /\ after[n] = it
      /\ \A i \in DOMAIN items : after[i] = items[i]
  OBVIOUS
<1> HIDE DEF after, n
<1>2. Weighs(old, S) /\ Weighs(new, S) /\ Weighs(new, S \cup {n})
  BY <1>1, ItemsWeigh
<1>3. new[n] = it.notional /\ \A i \in S : new[i] = old[i]
  BY <1>1 DEF NotionalOf
<1> HIDE DEF old, new
<1>4. Total(new, S) = Total(old, S)
  <2> DEFINE h == [x \in S |-> x]
  <2>1. {h[x] : x \in S} = S
    OBVIOUS
  <2>2. /\ \A x \in S : h[x] \in S
        /\ \A x, y \in S : h[x] = h[y] => x = y
        /\ \A x \in S : new[h[x]] = old[x]
    BY <1>3
  <2> HIDE DEF h
  <2>3. Total(old, S) = Total(new, {h[x] : x \in S})
    BY <1>2, <2>2, TotalRenamed
  <2> QED
    BY <2>1, <2>3
<1>5. Total(new, S \cup {n}) = new[n] + Total(new, (S \cup {n}) \ {n})
  BY <1>2, TotalFacts
<1>6. (S \cup {n}) \ {n} = S
  BY <1>1
<1>7. it.notional \in Int /\ Total(old, S) \in Int
  BY <1>2, TotalFacts DEF ItemSet
<1>8. Total(new, S \cup {n}) = Total(old, S) + it.notional
  <2>1. Total(new, S \cup {n}) = it.notional + Total(old, S)
    BY <1>3, <1>4, <1>5, <1>6, Zenon
  <2> DEFINE a == it.notional
             b == Total(old, S)
  <2>2. a \in Int /\ b \in Int
    BY <1>7
  <2> HIDE DEF a, b
  <2>3. a + b = b + a
    BY <2>2
  <2> QED
    BY <2>1, <2>3 DEF a, b
<1>9. n \notin S
  BY <1>1
<1>10. /\ Total(new, S) = Total(old, S)
       /\ Total(new, S \cup {n}) = Total(old, S) + it.notional
       /\ n \notin S
  BY <1>4, <1>8, <1>9
<1> QED
  BY <1>10, Zenon DEF after, n, old, new

\* The caps do not change while a plan is made.
LEMMA CapsStay ==
  ASSUME UNCHANGED <<cfg, drawdown>>
  PROVE  \A it : Capped(it) => Capped(it)'
BY DEF Capped, PositionCap, TradeRiskCap, RiskMultiplier, DrawdownMode, ByAtr

LEMMA NothingTaken ==
  TalliedOf(<<>>, 0, [s \in Sectors |-> 0], [b \in Buckets |-> 0])
<1>1. DOMAIN << >> = {} /\ << >> \in Seq(ItemSet)
  OBVIOUS
<1>2. Weighs(NotionalOf(<<>>), {})
  BY <1>1, ItemsWeigh
<1>3. Total(NotionalOf(<<>>), {}) = 0
  BY <1>2, TotalFacts
<1>4. /\ \A s \in Sectors : OfSector(<<>>, s) = {}
      /\ \A b \in Buckets : OfBucket(<<>>, b) = {}
  BY <1>1 DEF OfSector, OfBucket
<1>5. Cardinality({}) = 0
  BY FS_EmptySet
<1> QED
  BY <1>1, <1>3, <1>4, <1>5 DEF TalliedOf

LEMMA OneMoreTaken ==
  ASSUME NEW items \in Seq(ItemSet), NEW it \in ItemSet,
         NEW deployed, NEW exposure \in [Sectors -> Int], NEW counts \in [Buckets -> Nat],
         TalliedOf(items, deployed, exposure, counts)
  PROVE  TalliedOf(Append(items, it), deployed + it.notional,
                   [exposure EXCEPT ![it.pick.sector] = @ + it.notional],
                   [counts EXCEPT ![CorrelationBucket(it.pick)] = @ + 1])
<1> DEFINE after == Append(items, it)
           n == Len(items) + 1
<1>1. /\ DOMAIN after = DOMAIN items \cup {n} /\ n \notin DOMAIN items
      /\ after[n] = it /\ \A i \in DOMAIN items : after[i] = items[i]
  OBVIOUS
<1>2. \A S \in SUBSET DOMAIN items :
        /\ Total(NotionalOf(after), S) = Total(NotionalOf(items), S)
        /\ Total(NotionalOf(after), S \cup {n}) = Total(NotionalOf(items), S) + it.notional
  BY AppendTotal
<1> HIDE DEF after, n
<1>3. deployed + it.notional = Total(NotionalOf(after), DOMAIN after)
  BY <1>1, <1>2 DEF TalliedOf
<1>4. ASSUME NEW s \in Sectors
      PROVE  [exposure EXCEPT ![it.pick.sector] = @ + it.notional][s]
               = Total(NotionalOf(after), OfSector(after, s))
  <2>1. exposure[s] = Total(NotionalOf(items), OfSector(items, s))
    BY DEF TalliedOf
  <2>2. OfSector(items, s) \in SUBSET DOMAIN items
    BY DEF OfSector
  <2>3. OfSector(after, s) = IF it.pick.sector = s THEN OfSector(items, s) \cup {n}
                             ELSE OfSector(items, s)
    BY <1>1 DEF OfSector
  <2> QED
    BY <1>2, <2>1, <2>2, <2>3
<1>5. ASSUME NEW b \in Buckets
      PROVE  [counts EXCEPT ![CorrelationBucket(it.pick)] = @ + 1][b]
               = Cardinality(OfBucket(after, b))
  <2> DEFINE old == OfBucket(items, b)
  <2>1. counts[b] = Cardinality(old)
    BY DEF TalliedOf
  <2>2. n \notin old /\ IsFiniteSet(old)
    <3>1. old \in SUBSET DOMAIN items
      BY DEF OfBucket
    <3>2. Weighs(NotionalOf(items), old)
      BY <3>1, ItemsWeigh
    <3> QED
      BY <1>1, <3>1, <3>2 DEF Weighs
  <2>3. OfBucket(after, b) = IF CorrelationBucket(it.pick) = b THEN old \cup {n} ELSE old
    BY <1>1 DEF OfBucket
  <2> HIDE DEF old
  <2>4. Cardinality(old \cup {n}) = Cardinality(old) + 1
    BY <2>2, FS_AddElement
  <2> QED
    BY <2>1, <2>3, <2>4
<1>6. TalliedOf(after, deployed + it.notional,
                [exposure EXCEPT ![it.pick.sector] = @ + it.notional],
                [counts EXCEPT ![CorrelationBucket(it.pick)] = @ + 1])
  BY <1>3, <1>4, <1>5 DEF TalliedOf
<1> QED
  BY <1>6 DEF after

\* Nothing else touches the positions or the totals.
LEMMA QuietKeepsTallied ==
  ASSUME Tallied, UNCHANGED <<cfg, drawdown>>, plan'.items = plan.items,
         plan'.deployed = plan.deployed, plan'.exposure = plan.exposure,
         plan'.bucketCounts = plan.bucketCounts
  PROVE  Tallied'
<1>1. TalliedOf(plan.items, plan.deployed, plan.exposure, plan.bucketCounts)'
  BY DEF Tallied, TalliedOf
<1>2. \A i \in DOMAIN plan.items : Capped(plan.items[i])'
  BY CapsStay DEF Tallied
<1> QED
  BY <1>1, <1>2 DEF Tallied

LEMMA SelectKeepsTallied ==
  ASSUME PlanInv, Tallied, plan.phase = "planning", plan.queue # <<>>,
         SelectPick(Head(plan.queue)), UNCHANGED <<cfg, drawdown>>
  PROVE  Tallied'
<1> DEFINE p == Head(plan.queue)
           it == Item(p)
<1>1. plan \in PlanShape /\ PlanTypeOK
  BY DEF PlanInv, PlanTypeOK
<1>2. p \in Picks
  BY <1>1 DEF PlanShape
<1>3. it \in ItemSet /\ Capped(it) /\ it.pick = p
  BY <1>1, <1>2, TakenFits DEF SelectPick, Item
<1>4. /\ plan'.items = Append(plan.items, it)
      /\ plan'.deployed = plan.deployed + it.notional
      /\ plan'.exposure = [plan.exposure EXCEPT ![p.sector] = @ + it.notional]
      /\ plan'.bucketCounts = [plan.bucketCounts EXCEPT ![CorrelationBucket(p)] = @ + 1]
  <2> HIDE DEF p
  <2>1. plan' = [plan EXCEPT !.queue = Tail(@), !.items = Append(@, it),
                             !.deployed = @ + it.notional,
                             !.exposure[p.sector] = @ + it.notional,
                             !.bucketCounts[CorrelationBucket(p)] = @ + 1]
    BY DEF SelectPick, p
  <2> DEFINE queue == Tail(plan.queue)
             items == Append(plan.items, it)
             deployed == plan.deployed + it.notional
             exposure == [plan.exposure EXCEPT ![p.sector] = @ + it.notional]
             counts == [plan.bucketCounts EXCEPT ![CorrelationBucket(p)] = @ + 1]
  <2>2. plan' = [plan EXCEPT !.queue = queue, !.items = items, !.deployed = deployed,
                             !.exposure = exposure, !.bucketCounts = counts]
    BY <1>1, <2>1 DEF PlanShape
  <2> HIDE DEF it, queue, items, deployed, exposure, counts
  <2>3. /\ plan'.items = items /\ plan'.deployed = deployed
        /\ plan'.exposure = exposure /\ plan'.bucketCounts = counts
    BY <1>1, <2>2 DEF PlanShape
  <2> QED
    BY <2>3 DEF items, deployed, exposure, counts
<1>5. /\ plan.items \in Seq(ItemSet) /\ plan.exposure \in [Sectors -> Int]
      /\ plan.bucketCounts \in [Buckets -> Nat]
  BY <1>1 DEF PlanShape
<1> HIDE DEF p, it
<1>6. TalliedOf(plan'.items, plan'.deployed, plan'.exposure, plan'.bucketCounts)
  <2>1. TalliedOf(plan.items, plan.deployed, plan.exposure, plan.bucketCounts)
    BY DEF Tallied
  <2>2. TalliedOf(Append(plan.items, it), plan.deployed + it.notional,
                  [plan.exposure EXCEPT ![it.pick.sector] = @ + it.notional],
                  [plan.bucketCounts EXCEPT ![CorrelationBucket(it.pick)] = @ + 1])
    BY <1>3, <1>5, <2>1, OneMoreTaken
  <2> QED
    BY <1>3, <1>4, <2>2
<1>7. ASSUME NEW i \in DOMAIN plan'.items, NEW x, x = plan'.items[i]
      PROVE  Capped(x)'
  <2>1. x = it \/ (i \in DOMAIN plan.items /\ x = plan.items[i])
    BY <1>3, <1>4, <1>5, <1>7
  <2>2. Capped(x)
    BY <1>3, <2>1 DEF Tallied
  <2> QED
    BY <2>2, CapsStay
<1>8. (\A i \in DOMAIN plan.items : Capped(plan.items[i]))'
  BY <1>7 DEF Capped, ByAtr
<1> QED
  BY <1>6, <1>8 DEF Tallied, TalliedOf

LEMMA NextKeepsTallied ==
  ASSUME PlanInv, Tallied,
         [(\E ps \in Seq(Picks) : StartPlan(ps)) \/ PlanNext]_planVars
  PROVE  Tallied'
<1>1. plan \in PlanShape
  BY DEF PlanInv, PlanTypeOK
<1>2. CASE \E ps \in Seq(Picks) : StartPlan(ps)
  BY <1>1, <1>2, QuietKeepsTallied DEF StartPlan, PlanShape
<1>3. CASE plan.phase = "planning" /\ plan.queue # <<>> /\ SelectPick(Head(plan.queue))
           /\ UNCHANGED <<cfg, drawdown>>
  BY <1>3, SelectKeepsTallied
<1>4. CASE PlanNext /\ ~(plan.phase = "planning" /\ plan.queue # <<>>
                         /\ SelectPick(Head(plan.queue)))
  <2>1. UNCHANGED <<cfg, drawdown>>
    BY <1>4 DEF PlanNext
  <2>2. /\ plan'.items = plan.items /\ plan'.deployed = plan.deployed
        /\ plan'.exposure = plan.exposure /\ plan'.bucketCounts = plan.bucketCounts
    BY <1>1, <1>4 DEF PlanNext, WeighPick, RejectPick, PlanShape
  <2> QED
    BY <2>1, <2>2, QuietKeepsTallied
<1>5. CASE UNCHANGED planVars
  BY <1>5, QuietKeepsTallied DEF planVars
<1> QED
  BY <1>2, <1>3, <1>4, <1>5 DEF PlanNext

\* For every set of picks, configurations and drawdowns, in whatever order the
\* picks come: the totals the loop decides by are those of the positions it chose,
\* in all, by sector and by correlation bucket, and each position keeps to its caps.
THEOREM TotalsSafety == PlanSpec => []ItemsMatchTotals
<1>1. PlanInit => PlanInv /\ Tallied
  <2> SUFFICES ASSUME PlanInit PROVE PlanInv /\ Tallied
    OBVIOUS
  <2>1. /\ plan.items = <<>> /\ plan.deployed = 0
        /\ plan.exposure = [s \in Sectors |-> 0]
        /\ plan.bucketCounts = [b \in Buckets |-> 0]
    BY DEF PlanInit, NoPlan
  <2> QED
    BY <2>1, PlanInitHolds, NothingTaken DEF Tallied
<1>2. PlanInv /\ Tallied /\ [(\E ps \in Seq(Picks) : StartPlan(ps)) \/ PlanNext]_planVars
        => Tallied'
  BY NextKeepsTallied
<1>3. PlanInv /\ [(\E ps \in Seq(Picks) : StartPlan(ps)) \/ PlanNext]_planVars => PlanInv'
  BY StartHolds, PlanNextHolds, PlanStutterHolds
<1>4. PlanInv /\ Tallied => ItemsMatchTotals
  <2> SUFFICES ASSUME PlanInv, Tallied PROVE ItemsMatchTotals
    OBVIOUS
  <2>1. plan.items \in Seq(ItemSet)
    BY DEF PlanInv, PlanTypeOK, PlanShape
  <2>2. \A S \in SUBSET DOMAIN plan.items :
          Invested(plan.items, S) = Total(NotionalOf(plan.items), S)
    BY <2>1, ItemsWeigh, InvestedIsTotal
  <2>3. \A s : OfSector(plan.items, s) \in SUBSET DOMAIN plan.items
    BY DEF OfSector
  <2> QED
    BY <2>2, <2>3, PropertyIsInvested DEF Tallied, TalliedOf
<1> QED
  BY <1>1, <1>2, <1>3, <1>4, PTL DEF PlanSpec

-----------------------------------------------------------------------------
(* The regime matrix                                                       *)

\* The parts of a whole number: as many as fit, at least one when one fits.
LEMMA Chunks ==
  ASSUME NEW n \in Nat, NEW c \in Nat \ {0}, c <= n
  PROVE  n \div c \in Nat /\ n \div c >= 1
<1>1. n \div c \in Int
  OBVIOUS
<1>2. n \div c >= 1
  OBVIOUS
<1> QED BY <1>1, <1>2

\* The part of a whole number is not above it.
LEMMA ChunkFits ==
  ASSUME NEW n \in Nat, NEW c \in Nat \ {0}
  PROVE  n \div c \in Nat /\ n \div c <= n
OBVIOUS

\* Windows that cover the bars of a frame without a gap or an overlap.
Tile(windows, n) ==
  /\ windows[1].from = 0 /\ windows[Len(windows)].to = n
  /\ \A i \in 1 .. Len(windows) - 1 : windows[i].to = windows[i + 1].from

\* So do the windows of every frame.
LEMMA WindowsTile ==
  ASSUME NEW n \in Nat, NEW count \in Nat \ {0}, NEW minBars \in Nat \ {0}
  PROVE  Tile(MatrixWindows(n, count, minBars), n)
<1> DEFINE chunk == IF n \div count > minBars THEN n \div count ELSE minBars
           whole == n \div chunk
           tail == IF n - whole * chunk >= minBars /\ whole * chunk < n THEN 1 ELSE 0
           k == IF whole + tail < count THEN whole + tail ELSE count
           w == [i \in 1 .. k |-> [from |-> (i - 1) * chunk, to |-> IF i = k THEN n ELSE i * chunk]]
<1>1. CASE n <= minBars
  <2>1. MatrixWindows(n, count, minBars) = <<[from |-> 0, to |-> n]>>
    BY <1>1 DEF MatrixWindows
  <2> QED BY <2>1 DEF Tile
<1>2. CASE ~(n <= minBars)
  <2>1. MatrixWindows(n, count, minBars) = w
    BY <1>2 DEF MatrixWindows
  <2>2. chunk \in Nat \ {0} /\ chunk <= n
    BY <1>2, ChunkFits
  <2> HIDE DEF chunk
  <2>3. whole \in Nat /\ whole >= 1
    BY <2>2, Chunks
  <2> HIDE DEF whole
  <2>4. tail \in {0, 1}
    OBVIOUS
  <2> HIDE DEF tail
  <2>5. k \in Nat /\ k >= 1
    BY <2>3, <2>4
  <2> HIDE DEF k
  <2>6. DOMAIN w = 1 .. k /\ Len(w) = k
    BY <2>5
  <2>7. \A i \in 1 .. k : w[i].from = (i - 1) * chunk /\ w[i].to = IF i = k THEN n ELSE i * chunk
    OBVIOUS
  <2> HIDE DEF w
  <2>8. w[1].from = 0 /\ w[k].to = n
    <3>1. 1 \in 1 .. k /\ k \in 1 .. k /\ (1 - 1) * chunk = 0
      BY <2>5, <2>2
    <3> QED BY <3>1, <2>7
  <2>9. ASSUME NEW i \in 1 .. k - 1 PROVE w[i].to = w[i + 1].from
    <3>1. i \in 1 .. k /\ i + 1 \in 1 .. k /\ i # k /\ (i + 1) - 1 = i
      BY <2>5
    <3>2. w[i + 1].from = ((i + 1) - 1) * chunk
      BY <2>7, <3>1
    <3>3. w[i].to = i * chunk
      BY <2>7, <3>1
    <3> QED BY <3>1, <3>2, <3>3
  <2> QED BY <2>1, <2>6, <2>8, <2>9 DEF Tile
<1> QED BY <1>1, <1>2

\* The units of a run, and the rows they can leave.
MatrixUnits == UNION {UnitsOf(s) : s \in MxSettings}
MatrixRows ==
  {[unit |-> u, id |-> s.id, regime |-> MxResult(s, u).regime,
    return |-> MxResult(s, u).return, trades |-> MxResult(s, u).trades] :
     s \in MxSettings, u \in MatrixUnits}

\* The units that have a row, and rows of which no two are of one unit.
Recorded == {r.unit : r \in ToSet(mxDisk.rows)}
UnitsDiffer(list) == \A i, j \in DOMAIN list : list[i].unit = list[j].unit => i = j

\* The inductive invariant: what is called completed has a row, what is still to
\* do has none unless a run began anew, and the two make up the units of the run
\* but for those that failed.
MxInv ==
  /\ DOMAIN mx = DOMAIN IdleRun /\ DOMAIN mxDisk = {"checkpoint", "rows", "candidates"}
  /\ mxDisk.rows \in Seq(MatrixRows)
  /\ mxDisk.checkpoint # NoCheckpoint => mxDisk.checkpoint.units \subseteq Recorded
  /\ mx.pc # "idle" => mx.settings \in MxSettings
  /\ mx.errors \in Nat /\ mx.run \in Nat
  /\ mx.run = 0 => mxDisk.rows = <<>> /\ mx.todo = {}
  /\ mx.completed \subseteq Recorded
  /\ mx.todo \subseteq MatrixUnits
  /\ mx.anew \/ (mx.todo \intersect Recorded = {} /\ UnitsDiffer(mxDisk.rows))
  /\ (mx.pc # "idle" /\ mx.errors = 0) => UnitsOf(mx.settings) \subseteq Recorded \union mx.todo

\* The invariant is enough for what the runs check.
LEMMA MxInvOK == MxInv => MatrixIsComplete
<1> SUFFICES ASSUME MxInv PROVE MatrixIsComplete OBVIOUS
<1>1. mxDisk.checkpoint # NoCheckpoint => mxDisk.checkpoint.units \subseteq Recorded
  BY DEF MxInv
<1>2. UnitsDiffer(mxDisk.rows) \/ mx.anew
  BY DEF MxInv
<1>3. (mx.pc = "unit" /\ mx.todo = {} /\ mx.errors = 0) => UnitsOf(mx.settings) \subseteq Recorded
  BY DEF MxInv
<1>4. ASSUME mx.pc # "idle" PROVE Tile(WindowsOf(mx.settings), mx.settings.bars)
  <2>1. mx.settings \in MxSettings
    BY <1>4 DEF MxInv
  <2>2. /\ mx.settings.bars \in Nat /\ mx.settings.windowCount \in Nat \ {0}
        /\ mx.settings.minBars \in Nat \ {0}
    BY <2>1, MatrixAssumption
  <2> QED BY <2>2, WindowsTile DEF WindowsOf
<1> QED BY <1>1, <1>2, <1>3, <1>4 DEF MatrixIsComplete, Recorded, UnitsDiffer, Tile

\* An empty output directory.
LEMMA MxInitInv == MxInit => MxInv
<1> SUFFICES ASSUME MxInit PROVE MxInv OBVIOUS
<1>1. /\ mx = IdleRun /\ mxDisk.checkpoint = NoCheckpoint /\ mxDisk.rows = <<>>
      /\ DOMAIN mxDisk = {"checkpoint", "rows", "candidates"}
  BY DEF MxInit
<1>2. /\ mx.pc = "idle" /\ mx.errors = 0 /\ mx.run = 0 /\ mx.completed = {} /\ mx.todo = {}
  BY <1>1 DEF IdleRun
<1>3. Recorded = {} /\ UnitsDiffer(mxDisk.rows)
  BY <1>1 DEF Recorded, UnitsDiffer, ToSet
<1> QED BY <1>1, <1>2, <1>3 DEF MxInv

\* What is recorded when a row is added.
LEMMA OneMoreRow ==
  ASSUME mxDisk.rows \in Seq(MatrixRows), NEW row \in MatrixRows, mxDisk'.rows = Append(mxDisk.rows, row)
  PROVE  /\ mxDisk'.rows \in Seq(MatrixRows)
         /\ Recorded' = Recorded \union {row.unit}
         /\ (UnitsDiffer(mxDisk.rows) /\ row.unit \notin Recorded) => UnitsDiffer(mxDisk'.rows)
<1> DEFINE n == Len(mxDisk.rows)
           q == Append(mxDisk.rows, row)
<1>1. /\ n \in Nat /\ DOMAIN mxDisk.rows = 1 .. n /\ DOMAIN q = 1 .. n + 1
      /\ q[n + 1] = row /\ \A i \in 1 .. n : q[i] = mxDisk.rows[i]
      /\ q \in Seq(MatrixRows)
  OBVIOUS
<1>2. \A i \in 1 .. n + 1 : i = n + 1 \/ i \in 1 .. n
  BY <1>1
<1>3. n + 1 \in 1 .. n + 1 /\ 1 .. n \subseteq 1 .. n + 1
  BY <1>1
<1>4. Recorded = {mxDisk.rows[i].unit : i \in 1 .. n}
  BY <1>1 DEF Recorded, ToSet
<1> HIDE DEF q, n
<1>5. mxDisk'.rows = q
  BY DEF q
<1>6. Recorded' = {q[i].unit : i \in 1 .. n + 1}
  BY <1>1, <1>5 DEF Recorded, ToSet
<1>7. Recorded' = Recorded \union {row.unit}
  BY <1>1, <1>2, <1>3, <1>4, <1>6
<1>8. ASSUME UnitsDiffer(mxDisk.rows), row.unit \notin Recorded PROVE UnitsDiffer(q)
  <2> SUFFICES ASSUME NEW i \in 1 .. n + 1, NEW j \in 1 .. n + 1, q[i].unit = q[j].unit PROVE i = j
    BY <1>1 DEF UnitsDiffer
  <2>1. CASE i = n + 1 /\ j = n + 1
    BY <2>1
  <2>2. CASE i \in 1 .. n /\ j \in 1 .. n
    BY <1>1, <1>8, <2>2 DEF UnitsDiffer
  <2>3. CASE i = n + 1 /\ j \in 1 .. n
    BY <1>1, <1>4, <1>8, <2>3
  <2>4. CASE i \in 1 .. n /\ j = n + 1
    BY <1>1, <1>4, <1>8, <2>4
  <2> QED BY <1>2, <2>1, <2>2, <2>3, <2>4
<1> QED BY <1>1, <1>5, <1>7, <1>8

\* A run that resumes leaves out what has a row; the first run finds none.
LEMMA StartRunKeeps == ASSUME MxInv, StartRun PROVE MxInv'
<1>1. PICK asked \in MxSettings, resume \in BOOLEAN :
        mx' = [mx EXCEPT !.pc = "unit", !.run = @ + 1, !.settings = asked,
                 !.resume = resume, !.completed = CompletedUnits(asked, resume),
                 !.todo = UnitsOf(asked) \ CompletedUnits(asked, resume), !.errors = 0,
                 !.anew = @ \/ (~resume /\ mx.run > 0)]
  BY DEF StartRun
<1> DEFINE done == CompletedUnits(asked, resume)
<1>2. done \subseteq Recorded /\ (resume => Recorded \subseteq done)
  <2>1. LoadCheckpoint(asked) \subseteq Recorded
    BY DEF LoadCheckpoint, MxInv
  <2> QED BY <2>1 DEF CompletedUnits, Recorded
<1> HIDE DEF done
<1>3. /\ DOMAIN mx' = DOMAIN mx /\ mx'.pc = "unit" /\ mx'.run = mx.run + 1 /\ mx'.settings = asked
      /\ mx'.completed = done /\ mx'.todo = UnitsOf(asked) \ done /\ mx'.errors = 0
      /\ mx'.anew = (mx.anew \/ (~resume /\ mx.run > 0))
  BY <1>1 DEF MxInv, IdleRun, done
<1>4. mxDisk' = mxDisk /\ Recorded' = Recorded
  BY DEF StartRun, Recorded
<1>5. mx'.run \in Nat /\ mx'.run # 0 /\ mx'.errors \in Nat
  BY <1>3 DEF MxInv
<1>6. mx'.todo \subseteq MatrixUnits
  BY <1>3 DEF MatrixUnits
<1>7. ASSUME ~mx'.anew PROVE mx'.todo \intersect Recorded = {} /\ UnitsDiffer(mxDisk.rows)
  <2>0. ~mx.anew /\ (resume \/ ~(mx.run > 0))
    BY <1>3, <1>7
  <2>a. \A x \in Nat : x > 0 \/ x = 0
    OBVIOUS
  <2>1. ~mx.anew /\ (resume \/ mx.run = 0)
    BY <2>0, <2>a DEF MxInv
  <2>2. UnitsDiffer(mxDisk.rows)
    BY <2>1 DEF MxInv
  <2>3. CASE resume
    BY <1>2, <1>3, <2>2, <2>3
  <2>4. CASE mx.run = 0
    <3>1. Recorded = {}
      BY <2>4 DEF MxInv, Recorded, ToSet
    <3> QED BY <2>2, <3>1
  <2> QED BY <2>1, <2>3, <2>4
<1>8. UnitsOf(mx'.settings) \subseteq Recorded \union mx'.todo
  BY <1>2, <1>3
<1> QED BY <1>2, <1>3, <1>4, <1>5, <1>6, <1>7, <1>8 DEF MxInv

\* The unit of the new row was not recorded, unless a run began anew.
LEMMA RunUnitKeeps == ASSUME MxInv, RunUnit PROVE MxInv'
<1>1. PICK unit \in NextUnits(mx.todo) :
       /\ mxDisk' = [mxDisk EXCEPT !.rows = Append(@, Row(unit))]
       /\ mx' = [mx EXCEPT !.pc = "checkpoint", !.todo = @ \ {unit}, !.completed = @ \union {unit}]
  BY DEF RunUnit
<1>2. unit \in mx.todo /\ unit \in MatrixUnits /\ mx.settings \in MxSettings /\ mx.pc = "unit"
  BY DEF NextUnits, MxInv, RunUnit
<1>3. Row(unit) \in MatrixRows /\ Row(unit).unit = unit
  BY <1>2 DEF Row, MatrixRows
<1>4. /\ mxDisk'.rows = Append(mxDisk.rows, Row(unit)) /\ mxDisk'.checkpoint = mxDisk.checkpoint
      /\ DOMAIN mxDisk' = DOMAIN mxDisk
  BY <1>1 DEF MxInv
<1>5. /\ DOMAIN mx' = DOMAIN mx /\ mx'.pc = "checkpoint" /\ mx'.todo = mx.todo \ {unit}
      /\ mx'.completed = mx.completed \union {unit} /\ mx'.errors = mx.errors
      /\ mx'.run = mx.run /\ mx'.settings = mx.settings /\ mx'.anew = mx.anew
  BY <1>1 DEF MxInv, IdleRun
<1>6. /\ mxDisk'.rows \in Seq(MatrixRows)
      /\ Recorded' = Recorded \union {unit}
      /\ (UnitsDiffer(mxDisk.rows) /\ unit \notin Recorded) => UnitsDiffer(mxDisk'.rows)
  BY <1>3, <1>4, OneMoreRow DEF MxInv
<1>7. mx.run # 0
  <2>1. mx.run = 0 => mx.todo = {}
    BY DEF MxInv
  <2> QED BY <1>2, <2>1
<1>8. mx'.anew \/ (mx'.todo \intersect Recorded' = {} /\ UnitsDiffer(mxDisk'.rows))
  BY <1>2, <1>5, <1>6 DEF MxInv
<1> QED BY <1>2, <1>4, <1>5, <1>6, <1>7, <1>8 DEF MxInv

\* A failure is counted, and the run is no longer without an error.
LEMMA UnitFailsKeeps == ASSUME MxInv, UnitFails PROVE MxInv'
<1>1. PICK unit \in NextUnits(mx.todo) :
       mx' = [mx EXCEPT !.pc = "again", !.todo = @ \ {unit}, !.errors = @ + 1]
  BY DEF UnitFails
<1>2. mxDisk' = mxDisk /\ Recorded' = Recorded /\ mx.pc = "unit"
  BY DEF UnitFails, Recorded
<1>3. /\ DOMAIN mx' = DOMAIN mx /\ mx'.pc = "again" /\ mx'.todo = mx.todo \ {unit}
      /\ mx'.completed = mx.completed /\ mx'.errors = mx.errors + 1
      /\ mx'.run = mx.run /\ mx'.settings = mx.settings /\ mx'.anew = mx.anew
  BY <1>1 DEF MxInv, IdleRun
<1>4. mx'.errors \in Nat /\ mx'.errors # 0
  BY <1>3 DEF MxInv
<1> QED BY <1>2, <1>3, <1>4 DEF MxInv

\* A checkpoint that fails is counted too, and changes nothing else.
LEMMA CheckpointFailsKeeps == ASSUME MxInv, CheckpointFails PROVE MxInv'
<1>1. mxDisk' = mxDisk /\ Recorded' = Recorded /\ mx.pc = "checkpoint"
  BY DEF CheckpointFails, Recorded
<1>2. /\ DOMAIN mx' = DOMAIN mx /\ mx'.pc = "again" /\ mx'.todo = mx.todo
      /\ mx'.completed = mx.completed /\ mx'.errors = mx.errors + 1
      /\ mx'.run = mx.run /\ mx'.settings = mx.settings /\ mx'.anew = mx.anew
  BY DEF CheckpointFails, MxInv, IdleRun
<1>3. mx'.errors \in Nat /\ mx'.errors # 0
  BY <1>2 DEF MxInv
<1> QED BY <1>1, <1>2, <1>3 DEF MxInv

\* The checkpoint names what has a row already.
LEMMA SaveCheckpointKeeps == ASSUME MxInv, SaveMatrixCheckpoint PROVE MxInv'
<1>1. /\ mxDisk'.checkpoint.units = mx.completed /\ mxDisk'.rows = mxDisk.rows
      /\ DOMAIN mxDisk' = DOMAIN mxDisk /\ mx.pc # "idle"
  BY DEF SaveMatrixCheckpoint, MxInv
<1>2. Recorded' = Recorded
  BY <1>1 DEF Recorded
<1>3. /\ DOMAIN mx' = DOMAIN mx /\ mx'.pc = "unit" /\ mx'.todo = mx.todo
      /\ mx'.completed = mx.completed /\ mx'.errors = mx.errors
      /\ mx'.run = mx.run /\ mx'.settings = mx.settings /\ mx'.anew = mx.anew
  BY DEF SaveMatrixCheckpoint, MxInv, IdleRun
<1> QED BY <1>1, <1>2, <1>3 DEF MxInv

\* A run that ends, or dies, leaves nothing to do.
LEMMA IdleKeeps ==
  ASSUME MxInv, NEW died,
         mx' = [IdleRun EXCEPT !.run = mx.run, !.crashes = died, !.anew = mx.anew],
         mxDisk'.rows = mxDisk.rows, mxDisk'.checkpoint = mxDisk.checkpoint,
         DOMAIN mxDisk' = DOMAIN mxDisk
  PROVE  MxInv'
<1>1. /\ DOMAIN mx' = DOMAIN IdleRun /\ mx'.pc = "idle" /\ mx'.todo = {} /\ mx'.completed = {}
      /\ mx'.errors = 0 /\ mx'.run = mx.run /\ mx'.anew = mx.anew
  BY DEF IdleRun
<1>2. Recorded' = Recorded
  BY DEF Recorded
<1> QED BY <1>1, <1>2 DEF MxInv

\* Every step keeps the invariant.
LEMMA MxNextInv == ASSUME MxInv, [MxNext]_mxVars PROVE MxInv'
<1>1. CASE StartRun
  BY <1>1, StartRunKeeps
<1>2. CASE RunUnit
  BY <1>2, RunUnitKeeps
<1>3. CASE UnitFails
  BY <1>3, UnitFailsKeeps
<1>4. CASE SaveMatrixCheckpoint
  BY <1>4, SaveCheckpointKeeps
<1>5. CASE Condense
  <2>1. /\ mxDisk'.rows = mxDisk.rows /\ mxDisk'.checkpoint = mxDisk.checkpoint
        /\ DOMAIN mxDisk' = DOMAIN mxDisk
    <3> DEFINE top == TopCandidates(mxDisk.rows)
    <3>1. mxDisk' = mxDisk \/ mxDisk' = [mxDisk EXCEPT !.candidates = top]
      BY <1>5 DEF Condense
    <3> HIDE DEF top
    <3> QED BY <3>1 DEF MxInv
  <2>2. mx' = [IdleRun EXCEPT !.run = mx.run, !.crashes = mx.crashes, !.anew = mx.anew] /\ mx.pc # "idle"
    BY <1>5 DEF Condense
  <2> QED BY <2>1, <2>2, IdleKeeps
<1>6. CASE MxCrash
  <2>1. /\ mx' = [IdleRun EXCEPT !.run = mx.run, !.crashes = mx.crashes + 1, !.anew = mx.anew]
        /\ mx.pc # "idle" /\ mxDisk' = mxDisk
    BY <1>6 DEF MxCrash
  <2> QED BY <2>1, IdleKeeps
<1>7. CASE UNCHANGED mxVars
  BY <1>7 DEF mxVars, MxInv, Recorded
<1>8. CASE CheckpointFails
  BY <1>8, CheckpointFailsKeeps
<1> QED BY <1>1, <1>2, <1>3, <1>4, <1>5, <1>6, <1>7, <1>8 DEF MxNext

\* Whatever runs die and where, at every command line and result: what a checkpoint
\* names has a row, resumed runs add no second row of a unit, a run without an
\* error records each of its units, and the windows tile the bars.
THEOREM MatrixComplete == MxSpec => []MatrixIsComplete
<1> QED BY MxInitInv, MxNextInv, MxInvOK, PTL DEF MxSpec

-----------------------------------------------------------------------------
(* The walk-forward validation of regime policies                          *)

\* The frames are of days in ascending order, no day twice: the sources sort them, and
\* DataHandler.set_data, which every backtest of a frame goes through, refuses
\* duplicates; the walk-forward asks for neither.  There is a first symbol.
FramesInOrder ==
  \A fs \in Frames :
    /\ 1 \in DOMAIN fs
    /\ \A s \in DOMAIN fs :
         /\ fs[s] \in Seq(Int)
         /\ \A a, b \in DOMAIN fs[s] : a < b => fs[s][a] < fs[s][b]

\* Where window w begins: its train range, and its test range.
TrainFrom(w) == (w - 1) * StepDays
TestFrom(w) == TrainFrom(w) + TrainDays

\* The days are those of bars of the frame after position lo and up to hi.
LieIn(days, frame, lo, hi) ==
  \A d \in days : \E a \in DOMAIN frame : lo < a /\ a <= hi /\ d = frame[a]

\* What was trained on, and what was judged, lies in the ranges of its window.
WfInv ==
  /\ DOMAIN wf = {"pc", "frames", "window", "symbol", "rows", "policy", "trained",
                  "records", "summary"}
  /\ wf.frames \in Frames /\ wf.window \in Nat \ {0}
  /\ wf.pc = "test" => MoreWindows
  /\ \A t \in wf.trained :
       /\ t.symbol \in DOMAIN wf.frames
       /\ LieIn(t.days, wf.frames[t.symbol], TrainFrom(wf.window), TestFrom(wf.window))
  /\ \A r \in wf.records :
       /\ r.symbol \in DOMAIN wf.frames /\ r.window \in Nat \ {0}
       /\ LieIn(r.days, wf.frames[r.symbol], TestFrom(r.window), TestFrom(r.window) + TestDays)

\* Positions of a window are whole, and a later window begins a step later or more.
LEMMA WindowsAdvance ==
  /\ \A w \in Nat \ {0} : TrainFrom(w) \in Nat /\ TestFrom(w) \in Nat
  /\ \A v, w \in Nat \ {0} : v < w => TestFrom(v) + StepDays <= TestFrom(w)
<1>1. StepDays \in Nat /\ TrainDays \in Nat
  BY WalkForwardAssumption
<1>2. \A k, d \in Nat : k * d \in Nat
  OBVIOUS
<1>3. ASSUME NEW w \in Nat \ {0} PROVE TrainFrom(w) \in Nat /\ TestFrom(w) \in Nat
  <2>1. w - 1 \in Nat
    OBVIOUS
  <2>2. (w - 1) * StepDays \in Nat
    BY <1>1, <1>2, <2>1
  <2> QED
    BY <1>1, <2>2 DEF TrainFrom, TestFrom
<1>4. ASSUME NEW v \in Nat \ {0}, NEW w \in Nat \ {0}, v < w
      PROVE  TestFrom(v) + StepDays <= TestFrom(w)
  <2>1. w - v - 1 \in Nat
    BY <1>4
  <2>2. \A a, b, d \in Int : (a + b + 1) * d = a * d + b * d + d
    OBVIOUS
  <2>3. (v - 1 + (w - v - 1) + 1) * StepDays
          = (v - 1) * StepDays + (w - v - 1) * StepDays + StepDays
    BY <1>1, <2>1, <2>2
  <2>4. v - 1 + (w - v - 1) + 1 = w - 1
    OBVIOUS
  <2>5. TrainFrom(w) = TrainFrom(v) + (w - v - 1) * StepDays + StepDays
    BY <2>3, <2>4 DEF TrainFrom
  <2>6. (w - v - 1) * StepDays \in Nat
    BY <1>1, <1>2, <2>1
  <2>7. \A x, y, k, d, t \in Nat : y = x + k + d => x + t + d <= y + t
    OBVIOUS
  <2> QED
    BY <1>1, <1>3, <2>5, <2>6, <2>7 DEF TestFrom
<1> QED
  BY <1>3, <1>4

\* The ranges of the window the walk is at.
LEMMA WindowRanges ==
  ASSUME FramesInOrder, wf.frames \in Frames, wf.window \in Nat \ {0}, MoreWindows
  PROVE  /\ Window.train = <<TrainFrom(wf.window), TestFrom(wf.window)>>
         /\ Window.test = <<TestFrom(wf.window), TestFrom(wf.window) + TestDays>>
<1> DEFINE total == Len(wf.frames[1])
           count == IF total < TrainDays + TestDays THEN 0
                    ELSE 1 + (total - TrainDays - TestDays) \div StepDays
           ranges(w) == [train |-> <<TrainFrom(w), TestFrom(w)>>,
                         test |-> <<TestFrom(w), TestFrom(w) + TestDays>>]
<1>1. total \in Nat
  BY DEF FramesInOrder
<1>2. TrainDays \in Nat /\ TestDays \in Nat /\ StepDays \in Nat \ {0}
  BY WalkForwardAssumption
<1>3. count \in Nat
  <2>1. \A a \in Nat, d \in Nat \ {0} : a \div d \in Nat
    OBVIOUS
  <2>2. CASE total < TrainDays + TestDays
    BY <2>2
  <2>3. CASE ~(total < TrainDays + TestDays)
    <3>1. total - TrainDays - TestDays \in Nat
      BY <1>1, <1>2, <2>3
    <3>2. (total - TrainDays - TestDays) \div StepDays \in Nat
      BY <1>2, <2>1, <3>1
    <3> QED
      BY <2>3, <3>2
  <2> QED
    BY <2>2, <2>3
<1>4. WalkForwardWindows(total) = [w \in 1 .. count |-> ranges(w)]
  BY DEF WalkForwardWindows, TrainFrom, TestFrom
<1>5. Len(WalkForwardWindows(total)) = count
  <2> HIDE DEF count, ranges
  <2>1. [w \in 1 .. count |-> ranges(w)] \in Seq({ranges(w) : w \in 1 .. count})
    BY <1>3
  <2> QED
    BY <1>3, <1>4, <2>1
<1>6. wf.window \in 1 .. count
  <2> HIDE DEF count, total
  <2> QED
    BY <1>3, <1>5 DEF MoreWindows, total
<1>7. Window = ranges(wf.window)
  <2> HIDE DEF count, ranges
  <2> QED
    BY <1>4, <1>6 DEF Window
<1> QED
  BY <1>7

\* A slice of a frame is of the bars at the positions of its range.
LEMMA SliceLiesIn ==
  ASSUME NEW frame \in Seq(Int), NEW lo \in Nat, NEW hi \in Nat
  PROVE  LieIn(ToSet(Slice(frame, <<lo, hi>>)), frame, lo, hi)
<1> DEFINE end == IF hi < Len(frame) THEN hi ELSE Len(frame)
<1>1. Len(frame) \in Nat /\ DOMAIN frame = 1 .. Len(frame)
  OBVIOUS
<1>2. end \in Nat /\ end <= hi /\ end <= Len(frame)
  BY <1>1
<1>3. Slice(frame, <<lo, hi>>) = SubSeq(frame, lo + 1, end)
  BY DEF Slice
<1> HIDE DEF end
<1>4. SubSeq(frame, lo + 1, end) = [i \in 1 .. end - lo |-> frame[lo + i]]
  BY <1>1, <1>2
<1>5. ASSUME NEW d \in ToSet(Slice(frame, <<lo, hi>>))
      PROVE  \E a \in DOMAIN frame : lo < a /\ a <= hi /\ d = frame[a]
  <2>1. PICK i \in 1 .. end - lo : d = frame[lo + i]
    BY <1>3, <1>4, <1>5 DEF ToSet
  <2>2. lo + i \in DOMAIN frame /\ lo < lo + i /\ lo + i <= hi
    BY <1>1, <1>2
  <2> QED
    BY <2>1, <2>2
<1> QED
  BY <1>5 DEF LieIn

\* The walk starts with nothing trained and nothing judged.
LEMMA WfInitInv == WfInit => WfInv
<1> SUFFICES ASSUME WfInit PROVE WfInv
  OBVIOUS
<1>1. /\ DOMAIN wf = {"pc", "frames", "window", "symbol", "rows", "policy", "trained",
                      "records", "summary"}
      /\ wf.frames \in Frames /\ wf.window = 1 /\ wf.pc = "train"
      /\ wf.trained = {} /\ wf.records = {}
  BY DEF WfInit
<1> QED
  BY <1>1 DEF WfInv

\* A step that trains and judges nothing, in the same window.
LEMMA WfSameWindow ==
  ASSUME WfInv, wf'.frames = wf.frames, wf'.window = wf.window, DOMAIN wf' = DOMAIN wf,
         wf'.pc = "test" => MoreWindows,
         wf'.trained = wf.trained, wf'.records = wf.records
  PROVE  WfInv'
<1>1. MoreWindows' <=> MoreWindows
  BY DEF MoreWindows
<1> QED
  BY <1>1 DEF WfInv

\* A symbol is trained on its bars of the train range.
LEMMA TrainSymbolKeeps == ASSUME FramesInOrder, WfInv, TrainSymbol PROVE WfInv'
<1>1. /\ wf.pc = "train" /\ MoreWindows /\ wf.symbol \in DOMAIN wf.frames
      /\ wf.frames \in Frames /\ wf.window \in Nat \ {0}
  BY DEF TrainSymbol, WfInv, WfSymbols
<1> DEFINE days == ToSet(TrainSlice(wf.symbol))
           t == [symbol |-> wf.symbol, days |-> days]
<1>2. LieIn(days, wf.frames[wf.symbol], TrainFrom(wf.window), TestFrom(wf.window))
  <2>1. TrainSlice(wf.symbol)
          = Slice(wf.frames[wf.symbol], <<TrainFrom(wf.window), TestFrom(wf.window)>>)
    BY <1>1, WindowRanges DEF TrainSlice
  <2>2. wf.frames[wf.symbol] \in Seq(Int)
    BY <1>1 DEF FramesInOrder
  <2> QED
    BY <1>1, <2>1, <2>2, SliceLiesIn, WindowsAdvance
<1>3. t.symbol = wf.symbol /\ t.days = days
  OBVIOUS
<1>4. /\ wf'.frames = wf.frames /\ wf'.window = wf.window /\ DOMAIN wf' = DOMAIN wf
      /\ wf'.pc = "train" /\ wf'.records = wf.records
      /\ wf'.trained = wf.trained \/ wf'.trained = wf.trained \cup {t}
  <2> DEFINE short == Len(TrainSlice(wf.symbol)) < MinTrainBars
  <2>1. CASE short
    BY <1>1, <2>1 DEF TrainSymbol, WfInv
  <2>2. CASE ~short
    <3>1. PICK regime \in WfRegimes, runs \in Runs :
            wf' = [wf EXCEPT !.symbol = @ + 1,
                     !.rows = @ \cup RowsOf(wf.symbol, regime, runs),
                     !.trained = IF RowsOf(wf.symbol, regime, runs) = {} THEN @
                                 ELSE @ \cup {t}]
      BY <2>2 DEF TrainSymbol
    <3> HIDE DEF t
    <3> QED
      BY <1>1, <3>1 DEF WfInv
  <2> QED
    BY <2>1, <2>2
<1> HIDE DEF t, days
<1>5. CASE wf'.trained = wf.trained
  BY <1>1, <1>4, <1>5, WfSameWindow
<1>6. CASE wf'.trained = wf.trained \cup {t}
  <2>1. \A u \in wf'.trained :
          /\ u.symbol \in DOMAIN wf.frames
          /\ LieIn(u.days, wf.frames[u.symbol], TrainFrom(wf.window), TestFrom(wf.window))
    BY <1>1, <1>2, <1>3, <1>6 DEF WfInv
  <2> QED
    BY <1>4, <2>1 DEF WfInv
<1> QED
  BY <1>4, <1>5, <1>6

\* A policy is judged on bars of the test range.
LEMMA TestSymbolKeeps == ASSUME FramesInOrder, WfInv, TestSymbol PROVE WfInv'
<1>1. /\ wf.pc = "test" /\ MoreWindows /\ wf.symbol \in DOMAIN wf.frames
      /\ wf.frames \in Frames /\ wf.window \in Nat \ {0}
  BY DEF TestSymbol, WfInv, WfSymbols
<1> DEFINE slice == Slice(wf.frames[wf.symbol], Window.test)
           r(regime, runs) ==
             [symbol |-> wf.symbol, window |-> wf.window, days |-> ToSet(slice),
              shouldTrade |-> Decide(regime).shouldTrade,
              correct |-> WasCorrect(Decide(regime), runs)]
<1>2. LieIn(ToSet(slice), wf.frames[wf.symbol], TestFrom(wf.window),
            TestFrom(wf.window) + TestDays)
  <2>1. slice = Slice(wf.frames[wf.symbol],
                      <<TestFrom(wf.window), TestFrom(wf.window) + TestDays>>)
    BY <1>1, WindowRanges
  <2>2. wf.frames[wf.symbol] \in Seq(Int)
    BY <1>1 DEF FramesInOrder
  <2>3. TestFrom(wf.window) \in Nat /\ TestFrom(wf.window) + TestDays \in Nat
    BY <1>1, WindowsAdvance, WalkForwardAssumption
  <2> QED
    BY <2>1, <2>2, <2>3, SliceLiesIn
<1>3. CASE wf' = [wf EXCEPT !.symbol = @ + 1]
  <2>1. /\ wf'.frames = wf.frames /\ wf'.window = wf.window /\ DOMAIN wf' = DOMAIN wf
        /\ wf'.trained = wf.trained /\ wf'.records = wf.records
    BY <1>3 DEF WfInv
  <2> QED
    BY <1>1, <2>1, WfSameWindow
<1>4. ASSUME NEW regime, NEW runs,
             wf' = [wf EXCEPT !.symbol = @ + 1, !.records = @ \cup {r(regime, runs)}]
      PROVE  WfInv'
  <2> DEFINE n == r(regime, runs)
  <2>1. n.symbol = wf.symbol /\ n.window = wf.window /\ n.days = ToSet(slice)
    OBVIOUS
  <2> HIDE DEF n
  <2>2. /\ wf'.frames = wf.frames /\ wf'.window = wf.window /\ DOMAIN wf' = DOMAIN wf
        /\ wf'.trained = wf.trained /\ wf'.records = wf.records \cup {n}
    BY <1>4 DEF WfInv, n
  <2> HIDE DEF slice
  <2>3. \A q \in wf'.records :
          /\ q.symbol \in DOMAIN wf.frames /\ q.window \in Nat \ {0}
          /\ LieIn(q.days, wf.frames[q.symbol], TestFrom(q.window),
                   TestFrom(q.window) + TestDays)
    BY <1>1, <1>2, <2>1, <2>2 DEF WfInv
  <2>4. MoreWindows'
    BY <1>1, <2>2 DEF MoreWindows
  <2> QED
    BY <2>2, <2>3, <2>4 DEF WfInv
<1> QED
  BY <1>3, <1>4 DEF TestSymbol

\* The next window starts with nothing trained.
LEMMA NextWindowKeeps == ASSUME WfInv, NextWindow PROVE WfInv'
<1>1. /\ wf'.frames = wf.frames /\ wf'.window = wf.window + 1 /\ DOMAIN wf' = DOMAIN wf
      /\ wf'.pc = "train" /\ wf'.trained = {} /\ wf'.records = wf.records
  BY DEF NextWindow, WfInv
<1>2. wf'.window \in Nat \ {0}
  BY <1>1 DEF WfInv
<1> QED
  BY <1>1, <1>2 DEF WfInv

LEMMA WfNextInv == ASSUME FramesInOrder, WfInv, [WfNext]_wf PROVE WfInv'
<1>1. CASE FreezePolicy
  <2>1. /\ wf'.frames = wf.frames /\ wf'.window = wf.window /\ DOMAIN wf' = DOMAIN wf
        /\ wf'.trained = wf.trained /\ wf'.records = wf.records /\ MoreWindows
    BY <1>1 DEF FreezePolicy, WfInv
  <2> QED
    BY <2>1, WfSameWindow
<1>2. CASE SummarizeWalk
  <2>1. /\ wf'.frames = wf.frames /\ wf'.window = wf.window /\ DOMAIN wf' = DOMAIN wf
        /\ wf'.trained = wf.trained /\ wf'.records = wf.records /\ wf'.pc = "done"
    BY <1>2 DEF SummarizeWalk, WfInv
  <2> QED
    BY <2>1, WfSameWindow
<1>3. CASE UNCHANGED wf
  BY <1>3, WfSameWindow DEF WfInv
<1> QED
  BY <1>1, <1>2, <1>3, TrainSymbolKeeps, TestSymbolKeeps, NextWindowKeeps DEF WfNext

\* Bars of earlier positions are earlier bars.
LEMMA LiesBefore ==
  ASSUME FramesInOrder, NEW fs \in Frames, NEW s \in DOMAIN fs,
         NEW lo1 \in Int, NEW hi1 \in Int, NEW lo2 \in Int, NEW hi2 \in Int, hi1 <= lo2,
         NEW early, LieIn(early, fs[s], lo1, hi1),
         NEW late, LieIn(late, fs[s], lo2, hi2)
  PROVE  \A d \in early, e \in late : d < e
<1> SUFFICES ASSUME NEW d \in early, NEW e \in late PROVE d < e
  OBVIOUS
<1>1. PICK a \in DOMAIN fs[s] : a <= hi1 /\ d = fs[s][a]
  BY DEF LieIn
<1>2. PICK b \in DOMAIN fs[s] : lo2 < b /\ e = fs[s][b]
  BY DEF LieIn
<1>3. a \in Int /\ b \in Int
  BY DEF FramesInOrder
<1>4. a < b
  BY <1>1, <1>2, <1>3
<1> QED
  BY <1>1, <1>2, <1>4 DEF FramesInOrder

\* Trained before, judged after; and no bar is judged in two windows that are a test
\* range apart.
LEMMA WfInvJudges == ASSUME FramesInOrder, WfInv PROVE JudgedOutOfSample
<1>1. wf.frames \in Frames /\ wf.window \in Nat \ {0}
  BY DEF WfInv
<1>2. /\ TestDays \in Nat /\ StepDays \in Nat
      /\ \A w \in Nat \ {0} : TrainFrom(w) \in Nat /\ TestFrom(w) \in Nat
  BY WindowsAdvance, WalkForwardAssumption
<1>3. ASSUME NEW r \in wf.records, NEW t \in wf.trained, r.window = wf.window,
             wf.frames[t.symbol] = wf.frames[r.symbol]
      PROVE  \A d \in t.days, e \in r.days : d < e
  <2>1. /\ r.symbol \in DOMAIN wf.frames
        /\ LieIn(t.days, wf.frames[r.symbol], TrainFrom(wf.window), TestFrom(wf.window))
        /\ LieIn(r.days, wf.frames[r.symbol], TestFrom(wf.window),
                 TestFrom(wf.window) + TestDays)
    BY <1>3 DEF WfInv
  <2> DEFINE lo == TrainFrom(wf.window)
             mid == TestFrom(wf.window)
             hi == TestFrom(wf.window) + TestDays
  <2>2. lo \in Int /\ mid \in Int /\ hi \in Int /\ mid <= mid
    BY <1>1, <1>2
  <2>3. LieIn(t.days, wf.frames[r.symbol], lo, mid)
        /\ LieIn(r.days, wf.frames[r.symbol], mid, hi)
    BY <2>1
  <2> HIDE DEF lo, mid, hi
  <2> QED
    BY <1>1, <2>1, <2>2, <2>3, LiesBefore
<1>4. ASSUME StepDays >= TestDays, NEW r \in wf.records, NEW q \in wf.records,
             r.symbol = q.symbol, r.window < q.window
      PROVE  r.days \cap q.days = {}
  <2>1. /\ r.symbol \in DOMAIN wf.frames /\ r.window \in Nat \ {0} /\ q.window \in Nat \ {0}
        /\ LieIn(r.days, wf.frames[r.symbol], TestFrom(r.window),
                 TestFrom(r.window) + TestDays)
        /\ LieIn(q.days, wf.frames[r.symbol], TestFrom(q.window),
                 TestFrom(q.window) + TestDays)
    BY <1>4 DEF WfInv
  <2>2. TestFrom(r.window) + StepDays <= TestFrom(q.window)
    BY <1>4, <2>1, WindowsAdvance
  <2>3. TestFrom(r.window) + TestDays <= TestFrom(q.window)
        /\ TestFrom(r.window) + TestDays \in Int /\ TestFrom(q.window) + TestDays \in Int
        /\ TestFrom(r.window) \in Int /\ TestFrom(q.window) \in Int
    BY <1>2, <1>4, <2>1, <2>2
  <2>4. \A d \in r.days, e \in q.days : d < e
    BY <1>1, <2>1, <2>3, LiesBefore
  <2>5. \A d \in r.days : d \in Int
    BY <1>1, <2>1 DEF LieIn, FramesInOrder
  <2>6. \A d \in Int : ~(d < d)
    OBVIOUS
  <2> QED
    BY <2>4, <2>5, <2>6
<1>5. ASSUME StepDays >= TestDays, NEW r \in wf.records, NEW q \in wf.records,
             r.symbol = q.symbol, r.window # q.window
      PROVE  r.days \cap q.days = {}
  <2>1. r.window \in Int /\ q.window \in Int
    BY DEF WfInv
  <2>2. r.window < q.window \/ q.window < r.window
    BY <1>5, <2>1
  <2>3. r.window < q.window => r.days \cap q.days = {}
    BY <1>4, <1>5
  <2>4. q.window < r.window => q.days \cap r.days = {}
    BY <1>4, <1>5
  <2> QED
    BY <2>2, <2>3, <2>4
<1> QED
  BY <1>3, <1>5 DEF JudgedOutOfSample

\* run_regime_policy_walk_forward, for every registry, every outcome of the backtests
\* and of the detection, and any number of windows, also where frames are shorter
\* than the first symbol's: on a frame it was trained on, a policy is judged after all
\* bars of the training, and where a step is a test range or more no bar is judged twice.
THEOREM WalkForwardOutOfSample ==
  ASSUME FramesInOrder PROVE WfSpec => []JudgedOutOfSample
<1>1. WfInit => WfInv
  BY WfInitInv
<1>2. WfInv /\ [WfNext]_wf => WfInv'
  BY WfNextInv
<1>3. WfInv => JudgedOutOfSample
  BY WfInvJudges
<1> QED
  BY <1>1, <1>2, <1>3, PTL DEF WfSpec
=============================================================================
