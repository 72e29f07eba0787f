-------------------------- MODULE RegimeWalkForward --------------------------
(***************************************************************************)
(* run_regime_policy_walk_forward (research/regime_walk_forward.py): per   *)
(* window, every strategy runs on the train slice of every symbol, a       *)
(* policy is frozen from the results, and is judged on the test slices.    *)
(* A frame is the sequence of the days a symbol has bars of.               *)
(***************************************************************************)
EXTENDS RegimePolicy

CONSTANTS
  Frames,        \* the data that may be handed in: sequences of frames, by symbol
  Registry,      \* the strategies in the order of the registry
  WfOutcomes,    \* what a backtest may come to: [sharpe, return, drawdown]
  WfRegimes,     \* what detection may say of a slice, "unknown" included
  TrainDays, TestDays, StepDays,
  MinTrainBars, MinTestBars,
  NoResult       \* a backtest that failed

ASSUME WalkForwardAssumption ==
  /\ TrainDays \in Nat /\ TrainDays > 0
  /\ TestDays \in Nat /\ TestDays > 0
  /\ StepDays \in Nat /\ StepDays > 0

VARIABLE wf    \* the local variables and the records of the run

WfSymbols == DOMAIN wf.frames

\* The windows of the first symbol's frame, as half-open ranges of positions.
WalkForwardWindows(total) ==
  LET count == IF total < TrainDays + TestDays THEN 0
               ELSE 1 + (total - TrainDays - TestDays) \div StepDays
  IN  [w \in 1 .. count |->
         LET start == (w - 1) * StepDays
         IN  [train |-> <<start, start + TrainDays>>,
              test |-> <<start + TrainDays, start + TrainDays + TestDays>>]]

\* iloc: positions beyond the end of a shorter frame are left out.
Slice(frame, range) == SubSeq(frame, range[1] + 1, IF range[2] < Len(frame) THEN range[2]
                                                   ELSE Len(frame))

Window == WalkForwardWindows(Len(wf.frames[1]))[wf.window]

WfInit ==
  wf \in [pc : {"train"}, frames : Frames, window : {1}, symbol : {1},
          rows : {{}}, policy : {NoPolicy}, trained : {{}}, records : {{}},
          summary : {NoResult}]

MoreWindows == wf.window <= Len(WalkForwardWindows(Len(wf.frames[1])))

\* One run per strategy on the slice; those that fail give no row.
Runs == [ToSet(Registry) -> WfOutcomes \cup {NoResult}]

RowsOf(symbol, regime, runs) ==
  {[symbol |-> symbol, strategy |-> s, regime |-> regime, sharpe |-> runs[s].sharpe,
    return |-> runs[s].return, drawdown |-> runs[s].drawdown] :
     s \in {t \in DOMAIN runs : runs[t] # NoResult}}

\* Broken variant: the train range includes the first test bar.
TrainSlice_Inclusive(symbol) ==
  Slice(wf.frames[symbol], <<Window.train[1], Window.train[2] + 1>>)
TrainSlice(symbol) == Slice(wf.frames[symbol], Window.train)

TrainSymbol ==
  /\ wf.pc = "train" /\ MoreWindows /\ wf.symbol \in WfSymbols
  /\ IF Len(TrainSlice(wf.symbol)) < MinTrainBars
     THEN wf' = [wf EXCEPT !.symbol = @ + 1]
     ELSE \E regime \in WfRegimes, runs \in Runs :
            LET rows == RowsOf(wf.symbol, regime, runs)
            IN  wf' = [wf EXCEPT !.symbol = @ + 1, !.rows = @ \cup rows,
                         !.trained = IF rows = {} THEN @ ELSE @ \cup
                           {[symbol |-> wf.symbol, days |-> ToSet(TrainSlice(wf.symbol))]}]

FreezePolicy ==
  /\ wf.pc = "train" /\ MoreWindows /\ wf.symbol \notin WfSymbols
  /\ wf' = [wf EXCEPT !.pc = "test", !.symbol = 1, !.rows = {},
              !.policy = IF wf.rows = {} THEN NoPolicy ELSE BuildPolicy(wf.rows)]

\* The strategy with the highest Sharpe ratio; the first of the registry on a tie.
BestOf(runs) ==
  LET valid == {i \in DOMAIN Registry : runs[Registry[i]] # NoResult}
      best == {i \in valid : \A j \in valid :
                 \/ runs[Registry[i]].sharpe > runs[Registry[j]].sharpe
                 \/ runs[Registry[i]].sharpe = runs[Registry[j]].sharpe /\ i <= j}
  IN  IF valid = {} THEN NoStrategy ELSE Registry[CHOOSE i \in best : TRUE]

Decide(regime) ==
  IF wf.policy = NoPolicy
  THEN [selected |-> NoStrategy, shouldTrade |-> TRUE]
  ELSE LET decision == SelectForRegime(wf.policy, regime, ToSet(Registry))
       IN  [shouldTrade |-> decision.shouldTrade,
            selected |-> IF ~decision.shouldTrade THEN NoStrategy
                         ELSE IF decision.preferred # NoStrategy THEN decision.preferred
                         ELSE IF decision.allowed # <<>> THEN decision.allowed[1]
                         ELSE NoStrategy]

WasCorrect(decision, runs) ==
  LET valid == {s \in DOMAIN runs : runs[s] # NoResult}
  IN  IF decision.shouldTrade
      THEN decision.selected # NoStrategy /\ decision.selected = BestOf(runs)
      ELSE valid # {} /\ \A s \in valid : runs[s].return < 0

TestSymbol ==
  /\ wf.pc = "test" /\ wf.symbol \in WfSymbols
  /\ LET slice == Slice(wf.frames[wf.symbol], Window.test)
     IN  IF Len(slice) < MinTestBars
         THEN wf' = [wf EXCEPT !.symbol = @ + 1]
         ELSE \E regime \in WfRegimes, runs \in Runs :
                LET decision == Decide(regime)
                IN  wf' = [wf EXCEPT !.symbol = @ + 1,
                             !.records = @ \cup
                               {[symbol |-> wf.symbol, window |-> wf.window,
                                 days |-> ToSet(slice), shouldTrade |-> decision.shouldTrade,
                                 correct |-> WasCorrect(decision, runs)]}]

NextWindow ==
  /\ wf.pc = "test" /\ wf.symbol \notin WfSymbols
  /\ wf' = [wf EXCEPT !.pc = "train", !.symbol = 1, !.window = @ + 1,
              !.policy = NoPolicy, !.trained = {}]

\* summarize_walk_forward_results
Summary ==
  LET n == Cardinality(wf.records)
      Count(P(_)) == Cardinality({r \in wf.records : P(r)})
  IN  [total |-> n, correct |-> Count(LAMBDA r : r.correct),
       shouldTrade |-> Count(LAMBDA r : r.shouldTrade),
       noTrade |-> n - Count(LAMBDA r : r.shouldTrade),
       noTradeCorrect |-> Count(LAMBDA r : ~r.shouldTrade /\ r.correct)]

SummarizeWalk ==
  /\ wf.pc = "train" /\ ~MoreWindows
  /\ wf' = [wf EXCEPT !.pc = "done", !.summary = Summary]

WfNext == TrainSymbol \/ FreezePolicy \/ TestSymbol \/ NextWindow \/ SummarizeWalk

WfSpec == WfInit /\ [][WfNext]_wf

-----------------------------------------------------------------------------
(* Out of sample: no bar that a policy was trained on lies on or after a
   bar it is judged on, of the same symbol, and of another symbol whose
   frame has the same days; and when windows advance by a test range or
   more, no bar is judged twice (regime_walk_forward.py: "strictly no
   lookahead").                                                            *)
JudgedOutOfSample ==
  /\ \A r \in wf.records, t \in wf.trained :
       (/\ wf.pc = "test" /\ r.window = wf.window
        /\ wf.frames[t.symbol] = wf.frames[r.symbol])
         => \A d \in t.days, e \in r.days : d < e
  /\ StepDays >= TestDays
       => \A r, q \in wf.records :
            r.symbol = q.symbol /\ r.window # q.window => r.days \cap q.days = {}
=============================================================================
