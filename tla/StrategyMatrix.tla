---------------------------- MODULE StrategyMatrix ----------------------------
(***************************************************************************)
(* scripts/run_regime_strategy_matrix.py over research/                    *)
(* regime_strategy_matrix.py: a run cuts every frame into windows, makes a *)
(* unit of each strategy and window, runs the units that no checkpoint and *)
(* no result row names, appends a row per unit and saves a checkpoint, and *)
(* condenses all rows of the results file into candidates per regime.      *)
(* Runs follow each other in one output directory; a run may die anywhere. *)
(***************************************************************************)
EXTENDS Integers, FiniteSets, SequencesExt

CONSTANTS
  MxSettings,      \* command lines: [id, strategies, bars, windowCount, minBars]
  MxResult(_, _),  \* what the backtest of a unit under some settings comes to
  MxRegimes,       \* the professional regimes, in their order
  NoCheckpoint,
  TopN,
  MaxMxRuns, MaxMxCrashes   \* bounds

\* The command line is refused with no window or too short a minimum.
ASSUME MatrixAssumption ==
  \A s \in MxSettings : /\ s.strategies \subseteq Nat /\ s.bars \in Nat
                       /\ s.windowCount \in Nat \ {0} /\ s.minBars \in Nat \ {0}

VARIABLES mx,      \* the process: where it is, its command line, its units
          mxDisk   \* checkpoint.json, the rows of strategy_results.csv, candidates

mxVars == <<mx, mxDisk>>

-----------------------------------------------------------------------------
(* Windows and units                                                       *)

\* _build_windows: chunks of equal length; a tail shorter than the minimum, and
\* all bars beyond the last window, go to the window before.
MatrixWindows(n, count, minBars) ==
  LET chunk == IF n \div count > minBars THEN n \div count ELSE minBars
      whole == n \div chunk
      tail == IF n - whole * chunk >= minBars /\ whole * chunk < n THEN 1 ELSE 0
      k == IF whole + tail < count THEN whole + tail ELSE count
  IN  IF n <= minBars THEN <<[from |-> 0, to |-> n]>>
      ELSE [i \in 1 .. k |->
              [from |-> (i - 1) * chunk, to |-> IF i = k THEN n ELSE i * chunk]]

WindowsOf(settings) == MatrixWindows(settings.bars, settings.windowCount, settings.minBars)

\* A unit key names a strategy and a window by number; strategies are the outer
\* loop.
UnitsOf(settings) ==
  [strategy : settings.strategies, window : DOMAIN WindowsOf(settings)]

NextUnits(units) ==
  {u \in units : \A v \in units :
     u.strategy < v.strategy \/ (u.strategy = v.strategy /\ u.window <= v.window)}

-----------------------------------------------------------------------------
(* Runs                                                                    *)

IdleRun == [pc |-> "idle", run |-> 0, settings |-> NoCheckpoint, resume |-> FALSE,
         completed |-> {}, todo |-> {}, errors |-> 0,
         crashes |-> 0, anew |-> FALSE]

MxInit ==
  /\ mx = IdleRun
  /\ mxDisk = [checkpoint |-> NoCheckpoint, rows |-> <<>>, candidates |-> NoCheckpoint]

LoadCheckpoint(settings) ==
  IF mxDisk.checkpoint # NoCheckpoint /\ mxDisk.checkpoint.id = settings.id
  THEN mxDisk.checkpoint.units ELSE {}

\* Broken variant: only the checkpoint says what is completed.
CompletedUnits_CheckpointOnly(settings, resume) ==
  IF resume THEN LoadCheckpoint(settings) ELSE {}
\* A unit with a row counts as completed whatever the settings of the row were.
CompletedUnits(settings, resume) ==
  IF resume THEN LoadCheckpoint(settings) \cup {r.unit : r \in ToSet(mxDisk.rows)} ELSE {}

StartRun ==
  /\ mx.pc = "idle" /\ mx.run < MaxMxRuns
  /\ \E settings \in MxSettings, resume \in BOOLEAN :
       LET completed == CompletedUnits(settings, resume)
       IN  mx' = [mx EXCEPT !.pc = "unit", !.run = @ + 1, !.settings = settings,
                    !.resume = resume, !.completed = completed,
                    !.todo = UnitsOf(settings) \ completed, !.errors = 0,
                    !.anew = @ \/ (~resume /\ mx.run > 0)]
  /\ UNCHANGED mxDisk

Row(unit) ==
  LET result == MxResult(mx.settings, unit)
  IN  [unit |-> unit, id |-> mx.settings.id, regime |-> result.regime,
       return |-> result.return, trades |-> result.trades]

RunUnit ==
  /\ mx.pc = "unit"
  /\ \E unit \in NextUnits(mx.todo) :
       /\ mxDisk' = [mxDisk EXCEPT !.rows = Append(@, Row(unit))]
       /\ mx' = [mx EXCEPT !.pc = "checkpoint", !.todo = @ \ {unit}, !.completed = @ \cup {unit}]

\* A window below the minimum, or a backtest that raises: the unit is counted
\* as an error and stays open for the next run.
UnitFails ==
  /\ mx.pc = "unit"
  /\ \E unit \in NextUnits(mx.todo) :
       mx' = [mx EXCEPT !.pc = "again", !.todo = @ \ {unit}, !.errors = @ + 1]
  /\ UNCHANGED mxDisk

\* A checkpoint that cannot be written after a row is an error of its unit, which is
\* completed all the same, and is tried once again; a second failure ends the run.
CheckpointFails ==
  /\ mx.pc = "checkpoint"
  /\ mx' = [mx EXCEPT !.pc = "again", !.errors = @ + 1]
  /\ UNCHANGED mxDisk

\* Written to a temporary file and moved.
SaveMatrixCheckpoint ==
  /\ mx.pc \in {"checkpoint", "again"}
  /\ mxDisk' = [mxDisk EXCEPT !.checkpoint = [id |-> mx.settings.id, units |-> mx.completed]]
  /\ mx' = [mx EXCEPT !.pc = "unit"]

-----------------------------------------------------------------------------
(* Candidates                                                              *)

Group(rows, regime, strategy) ==
  {i \in DOMAIN rows : rows[i].regime = regime /\ rows[i].unit.strategy = strategy}

SumOver(rows, group, Field(_)) == FoldSet(LAMBDA i, sum : sum + Field(rows[i]), 0, group)

\* One line of the summary; the score stands for the weighted sum of its means.
SummaryOf(rows, regime, strategy) ==
  LET group == Group(rows, regime, strategy)
  IN  [strategy |-> strategy, runs |-> Cardinality(group),
       trades |-> SumOver(rows, group, LAMBDA r : r.trades),
       mean |-> SumOver(rows, group, LAMBDA r : r.return) \div Cardinality(group),
       positive |-> 2 * Cardinality({i \in group : rows[i].return > 0}) >= Cardinality(group),
       windows |-> Cardinality({rows[i].unit.window : i \in group})]

ConfidenceFlag(line) ==
  IF line.runs < 3 \/ line.trades < 20 THEN "insufficient_sample"
  ELSE IF line.windows < 2 THEN "unstable"
  ELSE IF line.mean > 0 /\ line.positive THEN "strong_candidate" ELSE "weak_candidate"

Viable(line) == line.mean > 0 /\ line.trades >= 30 /\ line.positive

BetterLine(a, b) ==
  \/ a.mean > b.mean
  \/ a.mean = b.mean /\ a.trades > b.trades
  \/ a.mean = b.mean /\ a.trades = b.trades /\ a.runs > b.runs
  \/ a.mean = b.mean /\ a.trades = b.trades /\ a.runs = b.runs /\ a.strategy < b.strategy

TopCandidates(rows) ==
  [regime \in MxRegimes |->
     LET strategies == {r.unit.strategy : r \in {q \in ToSet(rows) : q.regime = regime}}
         ranked == SetToSortSeq({SummaryOf(rows, regime, s) : s \in strategies}, BetterLine)
         top == SubSeq(ranked, 1, IF Len(ranked) < TopN THEN Len(ranked) ELSE TopN)
     IN  [i \in DOMAIN top |->
            [strategy |-> top[i].strategy,
             selected |-> ConfidenceFlag(top[i]) # "insufficient_sample" /\ Viable(top[i])]]]

\* The summary is made of every row of the file.
Condense ==
  /\ mx.pc = "unit" /\ mx.todo = {}
  /\ mx' = [IdleRun EXCEPT !.run = mx.run, !.crashes = mx.crashes, !.anew = mx.anew]
  /\ mxDisk' = IF mxDisk.rows = <<>> THEN mxDisk
               ELSE [mxDisk EXCEPT !.candidates = TopCandidates(mxDisk.rows)]

MxCrash ==
  /\ mx.pc # "idle" /\ mx.crashes < MaxMxCrashes
  /\ mx' = [IdleRun EXCEPT !.run = mx.run, !.crashes = mx.crashes + 1, !.anew = mx.anew]
  /\ UNCHANGED mxDisk

MxNext ==
  \/ StartRun \/ RunUnit \/ UnitFails \/ CheckpointFails \/ SaveMatrixCheckpoint
  \/ Condense \/ MxCrash

MxSpec == MxInit /\ [][MxNext]_mxVars

-----------------------------------------------------------------------------
(* What a resumed run leaves out has a row: a completed unit is in the
   results file, no unit has a second row as long as every run but the
   first is resumed, whatever runs died and where, and a run that ends
   without an error leaves a row for each of its units; and the windows of
   a frame cover it from its first bar to its last without a gap or an
   overlap ("checkpoint/resume with incremental artifacts", line 9).       *)
MatrixIsComplete ==
  LET recorded == {r.unit : r \in ToSet(mxDisk.rows)}
  IN  /\ mxDisk.checkpoint # NoCheckpoint => mxDisk.checkpoint.units \subseteq recorded
      /\ \/ \A i, j \in DOMAIN mxDisk.rows : mxDisk.rows[i].unit = mxDisk.rows[j].unit => i = j
         \/ mx.anew
      /\ (mx.pc = "unit" /\ mx.todo = {} /\ mx.errors = 0) =>
           UnitsOf(mx.settings) \subseteq recorded
      /\ mx.pc # "idle" =>
           LET windows == WindowsOf(mx.settings)
           IN  /\ windows[1].from = 0 /\ windows[Len(windows)].to = mx.settings.bars
               /\ \A i \in 1 .. Len(windows) - 1 : windows[i].to = windows[i + 1].from
=============================================================================
