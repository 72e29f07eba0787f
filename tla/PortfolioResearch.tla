-------------------------- MODULE PortfolioResearch --------------------------
(***************************************************************************)
(* PortfolioBacktester (research/portfolio_backtester.py): run and         *)
(* run_from_engine_results over the sorted symbols, one after the other,   *)
(* and the files both write.  A backtest of a symbol is its equity path    *)
(* over the bars it has; its trades add up to what the path gained.        *)
(* Several runs share one output directory.                                *)
(***************************************************************************)
EXTENDS RegimePolicy

CONSTANTS
  PbSymbols,       \* the number of symbols; 1 .. PbSymbols in sorted order
  PbStrategies,    \* the keys of the strategy registry
  PbPolicies,      \* regime policies a caller may hand in, NoPolicy among them
  PbRegimes,       \* what detection may say; NONE_DETECTED when it fails
  NONE_DETECTED,
  Capital,         \* base_config.initial_capital
  Spans,           \* the bars a symbol's data may have: [from, to]
  Gains,           \* what a symbol may gain or lose on a bar
  PbSettings,      \* [maxPositions, reserve, precomputed]
  MaxPbRuns,       \* bound: runs in one directory
  NoFile

ASSUME PortfolioAssumption ==
  /\ Capital \in Nat /\ Capital > 0
  /\ \A s \in PbSettings : s.maxPositions \in Nat /\ s.maxPositions > 0

VARIABLES pb,     \* the run: settings, policy, the symbols done, their results
          pbDisk  \* the CSV files of the output directory: the run that wrote each

pbVars == <<pb, pbDisk>>

Invested == 1 .. (IF PbSymbols < pb.settings.maxPositions THEN PbSymbols
                ELSE pb.settings.maxPositions)

PerSymbolCapital ==
  Capital \div (IF pb.settings.reserve THEN pb.settings.maxPositions
                ELSE Cardinality(Invested))

NewRun(run, settings, policy) ==
  [pc |-> "symbols", run |-> run, settings |-> settings, policy |-> policy,
   symbol |-> 1, frames |-> {}, trades |-> {}, selection |-> <<>>, result |-> NoFile]

PbInit ==
  /\ \E s \in PbSettings, p \in PbPolicies : pb = NewRun(1, s, p)
  /\ pbDisk = [curve |-> NoFile, trades |-> NoFile, summary |-> NoFile]

Fallback == CHOOSE s \in PbStrategies : \A t \in PbStrategies : s <= t

\* A regime in which the policy would not trade gets the fallback all the same.
SelectStrategy(regime) ==
  IF pb.policy = NoPolicy \/ regime = NONE_DETECTED THEN Fallback
  ELSE LET decision == SelectForRegime(pb.policy, regime, PbStrategies)
       IN  IF decision.preferred # NoStrategy /\ decision.shouldTrade
           THEN decision.preferred ELSE Fallback

\* The equity of a symbol at every bar it has, beginning with its capital.
Paths(span, capital) ==
  {[t \in span.from .. span.to |->
      FoldSet(LAMBDA u, sum : sum + gain[u], capital, (span.from + 1) .. t)] :
     gain \in [(span.from + 1) .. span.to -> Gains]}

FirstEquity(path) == path[Min(DOMAIN path)]
LastEquity(path) == path[Max(DOMAIN path)]

\* The engine's result, or {} when it raised.  A result handed in was computed
\* by a run of its own, with the whole capital; a missing one is made up for.
RunSymbol ==
  /\ pb.pc = "symbols" /\ pb.symbol \in Invested
  /\ \E regime \in PbRegimes, span \in Spans, given \in BOOLEAN :
       /\ given => pb.settings.precomputed
       /\ LET strategy == SelectStrategy(regime)
              capital == IF given THEN Capital ELSE PerSymbolCapital
              next == [pb EXCEPT !.symbol = @ + 1, !.selection = Append(@, strategy)]
          IN  \/ ~given /\ pb' = next
              \/ \E path \in Paths(span, capital) :
                   pb' = [next EXCEPT
                     !.frames = @ \cup {[symbol |-> pb.symbol, path |-> path, own |-> ~given]},
                     !.trades = IF \A t \in DOMAIN path : path[t] = capital THEN @
                       ELSE @ \cup {[symbol |-> pb.symbol, pnl |-> LastEquity(path) - FirstEquity(path)]}]
  /\ UNCHANGED pbDisk

\* ffill().bfill(): after its last bar a symbol keeps its last equity, and
\* before its first it counts with the first.
ValueAt(path, t) ==
  LET earlier == {u \in DOMAIN path : u <= t}
  IN  IF earlier = {} THEN FirstEquity(path) ELSE path[Max(earlier)]

\* The bars some symbol has.
Calendar == UNION {DOMAIN f.path : f \in pb.frames}

PortfolioEquity ==
  [t \in Calendar |-> FoldSet(LAMBDA f, sum : sum + ValueAt(f.path, t), 0, pb.frames)]

Drawdown(equity) ==
  LET Peak(t) == Max({equity[u] : u \in {v \in DOMAIN equity : v <= t}})
  IN  Max({(100 * (Peak(t) - equity[t])) \div Peak(t) : t \in DOMAIN equity})

\* Without a frame the portfolio is said to have kept its capital.
Metrics ==
  IF pb.frames = {}
  THEN [final |-> Capital, return |-> 0, drawdown |-> 0, trades |-> 0]
  ELSE [final |-> LastEquity(PortfolioEquity), return |-> LastEquity(PortfolioEquity) - Capital,
        drawdown |-> Drawdown(PortfolioEquity), trades |-> Cardinality(pb.trades)]

Aggregation ==
  /\ pb.pc = "symbols" /\ pb.symbol \notin Invested
  /\ pb' = [pb EXCEPT !.pc = "export", !.result = Metrics]
  /\ UNCHANGED pbDisk

\* Empty frames are not written: the files of an earlier run stay.
ExportOutputs ==
  /\ pb.pc = "export"
  /\ pbDisk' = [curve |-> IF pb.frames = {} THEN pbDisk.curve ELSE pb.run,
                trades |-> IF pb.trades = {} THEN pbDisk.trades ELSE pb.run,
                summary |-> pb.run]
  /\ pb' = [pb EXCEPT !.pc = "done"]

NextRun ==
  /\ pb.pc = "done" /\ pb.run < MaxPbRuns
  /\ \E s \in PbSettings, p \in PbPolicies : pb' = NewRun(pb.run + 1, s, p)
  /\ UNCHANGED pbDisk

PbNext == RunSymbol \/ Aggregation \/ ExportOutputs \/ NextRun

-----------------------------------------------------------------------------
(* The return of a portfolio is what its trades made, when every share of
   the capital went to a symbol that ran on it; and no two shares add up to
   more than there is (PortfolioBacktester: equal shares of
   initial_capital, metrics against the whole of it).                      *)
ReturnIsThatOfTheTrades ==
  (pb.pc = "export" /\ \A f \in pb.frames : f.own) =>
    LET pnl == FoldSet(LAMBDA t, sum : sum + t.pnl, 0, pb.trades)
        invested == FoldSet(LAMBDA f, sum : sum + FirstEquity(f.path), 0, pb.frames)
        shares == IF pb.settings.reserve THEN pb.settings.maxPositions
                  ELSE Cardinality(Invested)
    IN  /\ invested <= Capital
        /\ Cardinality(pb.frames) = shares => pb.result.return = pnl
=============================================================================
