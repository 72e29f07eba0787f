--------------------------- MODULE ResearchRunner ---------------------------
(***************************************************************************)
(* scripts/run_nifty50_zerodha_research.py: a batch of backtests over a    *)
(* universe of symbols, which leaves a checkpoint and the rows made so far *)
(* in its output directory after every symbol, and the optional phases     *)
(* that read the rows and the caches of the loop afterwards.  The process  *)
(* may die between any two steps and be started again, with --resume or    *)
(* without, with the same settings or with others, over the same directory.*)
(*                                                                         *)
(* A row is known by its symbol, its strategy and the run that made it; a  *)
(* backtest of the same data gives the same row or fails the same way.     *)
(***************************************************************************)
EXTENDS Integers, Sequences, FiniteSets, SequencesExt

CONSTANTS
  Universe,      \* the symbols of the index, in order
  Strategies,    \* the selected strategies
  Blocked,       \* those the regime filter turns away
  Broken,        \* pairs <<symbol, strategy>> whose backtest raises
  Settings,      \* the command lines a run may be started with
  Available,     \* the sets of symbols the sources may have bars of in a run
  Raising,       \* the sets of later phases that may raise in a run
  MaxRuns, MaxCrashes,              \* bounds of the model
  NONE           \* no value

ASSUME ConfigAssumption ==
  /\ Universe # <<>> /\ IsInjective(Universe)
  /\ Blocked \subseteq Strategies
  /\ Broken \subseteq ToSet(Universe) \X Strategies
  /\ {MaxRuns, MaxCrashes} \subseteq Nat
  /\ Available \subseteq SUBSET ToSet(Universe)
  /\ \A s \in Settings :
       /\ {s.resume, s.filter, s.parallel, s.prefetch, s.walk, s.portfolio, s.policy,
          s.strength, s.risk, s.costs, s.csv}
            \subseteq BOOLEAN
       /\ s.limit \in 1 .. Len(Universe)

VARIABLES
  pc,            \* what the process does next, "idle" if there is none
  run,           \* the number of the current run, or of the last
  settings,      \* its command line, by run
  data,          \* the symbols the sources have bars of, in this run
  raising,       \* the later phases that raise in this run
  next,          \* serial path: the position reached in the universe
  failed,        \* parallel path: the symbols whose worker has failed
  completed,     \* completed_symbols
  rows,          \* all_rows
  fresh,         \* the symbol whose rows are written and whose checkpoint is not
  dfs,           \* symbols_df_cache
  engines,       \* engine_results_cache
  filtered,      \* regime_filter_active
  portfolio,     \* _pb_result: its symbols and its regime policy, or NONE
  checkpoint,    \* _checkpoint.json
  incremental,   \* _incremental_results.csv, {} if there is none
  reports,       \* research/*.md by phase: the run and the symbols behind each
  policy,        \* the run that wrote research/regime_policy.json
  results,       \* all_results.csv, top_ranked.csv and summary.md
  manifest,      \* the run that wrote run_manifest.json
  crashes

memory == <<data, raising, next, failed, completed, rows, fresh, dfs, engines,
            filtered, portfolio>>
disk == <<checkpoint, incremental, reports, policy, results, manifest>>
vars == <<pc, run, settings, memory, disk, crashes>>

Symbols == ToSet(Universe)
Phases == {"analysis", "policy", "walk", "strength", "portfolio", "risk", "costs"}
args == settings[run]
symbols == SubSeq(Universe, 1, args.limit)

\* _run_config_hash: interval, days, fees, strategies - and neither the regime
\* options, nor the symbol limit, nor the mode of execution.
ConfigHash(r) == settings[r].config

-----------------------------------------------------------------------------
(* Checkpoint and rows                                                     *)

Init ==
  /\ pc = "idle" /\ run = 0
  /\ settings = [r \in 1..MaxRuns |-> NONE]
  /\ data = {} /\ raising = {} /\ next = 1 /\ failed = {}
  /\ completed = {} /\ rows = {} /\ fresh = NONE
  /\ dfs = {} /\ engines = {} /\ filtered = FALSE /\ portfolio = NONE
  /\ checkpoint = NONE /\ incremental = {}
  /\ reports = [p \in Phases |-> NONE] /\ policy = NONE
  /\ results = NONE /\ manifest = NONE
  /\ crashes = 0

\* _load_checkpoint: what a resumed run starts from.  Without a checkpoint, or
\* with one of another hash, that is nothing - and the rows stay on disk.
Resumable(s) ==
  s.resume /\ checkpoint # NONE /\ checkpoint.hash = s.config

\* The rows a resumed run starts with.
PriorRows(s) ==
  IF Resumable(s) /\ checkpoint.completed # {} THEN incremental ELSE {}

\* The phases a command line asks for; --build-regime-policy and
\* --walk-forward-regime switch the analysis on.
Active(s) ==
  {p \in {"policy", "walk", "strength", "portfolio", "risk", "costs"} : s[p]}
    \union (IF s.policy \/ s.walk THEN {"analysis"} ELSE {})

\* The sources have bars of some of the symbols only, the same all run long; the
\* filter is dropped when no regime can be detected.
Start ==
  /\ pc = "idle" /\ run < MaxRuns
  /\ \E s \in Settings, have \in Available :
       /\ run' = run + 1
       /\ settings' = [settings EXCEPT ![run + 1] = s]
       /\ data' = have /\ raising' \in {p \intersect Active(s) : p \in Raising}
       /\ filtered' \in {FALSE, s.filter}
       /\ completed' = IF Resumable(s) THEN checkpoint.completed ELSE {}
       /\ rows' = PriorRows(s)
  /\ pc' = "loop" /\ next' = 1
  /\ failed' = {} /\ fresh' = NONE /\ dfs' = {} /\ engines' = {}
  /\ portfolio' = NONE
  /\ UNCHANGED <<disk, crashes>>

\* is_strategy_allowed, where the filter is on.
Allowed == IF filtered THEN Strategies \ Blocked ELSE Strategies

\* _process_symbol: a strategy that is filtered out or raises gives no row.
ProcessSymbol(sym) ==
  {[sym |-> sym, strategy |-> s, run |-> run] :
     s \in {t \in Allowed : <<sym, t>> \notin Broken}}

\* Broken variant: what is already in the file is not read before the write.
WriteIncremental_Overwrites(new) ==
  incremental' = IF new = {} THEN incremental ELSE new

\* _write_incremental: the rows of a symbol go behind those in the file; a
\* rename makes the write atomic.
WriteIncremental(new) == incremental' = incremental \union new

\* The caller's part after a symbol: the row's engine results are kept for the
\* portfolio phase, the rows are written, the checkpoint follows.
Finish(sym) ==
  LET new == ProcessSymbol(sym)
  IN  /\ completed' = completed \union {sym}
      /\ rows' = rows \union new
      /\ engines' = IF args.portfolio /\ new # {} THEN engines \union {sym}
                    ELSE engines
      /\ WriteIncremental(new)
      /\ fresh' = sym
      /\ pc' = "checkpoint"

\* The serial path takes the symbols in order and skips what is complete or
\* has no data.
SkipSymbol ==
  /\ pc = "loop" /\ ~args.parallel /\ next <= Len(symbols)
  /\ symbols[next] \in completed \/ symbols[next] \notin data
  /\ next' = next + 1
  /\ UNCHANGED <<pc, run, settings, data, raising, failed, completed, rows, fresh, dfs,
                 engines, filtered, portfolio, disk, crashes>>

SerialSymbol ==
  /\ pc = "loop" /\ ~args.parallel /\ next <= Len(symbols)
  /\ symbols[next] \in data \ completed
  /\ dfs' = IF args.walk \/ args.portfolio THEN dfs \union {symbols[next]} ELSE dfs
  /\ next' = next + 1
  /\ Finish(symbols[next])
  /\ UNCHANGED <<run, settings, data, raising, failed, filtered, portfolio, checkpoint,
                 reports, policy, results, manifest, crashes>>

\* The workers get the bars that were prefetched; without --prefetch-workers
\* there are none, and the parallel path has nothing to do.
Pending ==
  IF args.prefetch THEN (ToSet(symbols) \intersect data) \ (completed \union failed)
  ELSE {}

\* The parallel path hands _process_symbol by position what it takes by keyword only:
\* every worker raises.  It costs the worker's symbol, and the loop goes on.
WorkerFails ==
  /\ pc = "loop" /\ args.parallel
  /\ \E sym \in Pending : failed' = failed \union {sym}
  /\ UNCHANGED <<pc, run, settings, data, raising, next, completed, rows, fresh, dfs,
                 engines, filtered, portfolio, disk, crashes>>

\* Broken variant: only the symbol just finished is named.
WriteCheckpoint_Last ==
  checkpoint' = [completed |-> {fresh}, hash |-> ConfigHash(run)]

\* _write_checkpoint: atomic as well, by a rename of its own.
WriteCheckpoint == checkpoint' = [completed |-> completed, hash |-> ConfigHash(run)]

SaveCheckpoint ==
  /\ pc = "checkpoint"
  /\ WriteCheckpoint
  /\ fresh' = NONE
  /\ pc' = "loop"
  /\ UNCHANGED <<run, settings, data, raising, next, failed, completed, rows, dfs, engines,
                 filtered, portfolio, incremental, reports, policy, results,
                 manifest, crashes>>

LoopEnds ==
  /\ pc = "loop"
  /\ IF args.parallel THEN Pending = {} ELSE next > Len(symbols)
  /\ pc' = "analysis"
  /\ UNCHANGED <<run, settings, memory, disk, crashes>>

-----------------------------------------------------------------------------
(* The phases after the loop                                               *)

\* The phase p of a run writes its report from the symbols from.  Every phase
\* catches what it raises: the run goes on, and the old report stays.
Report(p, from) ==
  reports' = IF p \in raising THEN reports
             ELSE [reports EXCEPT ![p] = [run |-> run, symbols |-> from]]

RowSymbols == {r.sym : r \in rows}

RegimeAnalysis ==
  /\ pc = "analysis" /\ pc' = "policy"
  /\ IF "analysis" \in Active(args) /\ rows # {} THEN Report("analysis", RowSymbols)
     ELSE UNCHANGED reports
  /\ UNCHANGED <<run, settings, memory, checkpoint, incremental, policy, results,
                 manifest, crashes>>

\* A policy that cannot be built leaves the file of an earlier run in place.
PolicyPhase ==
  /\ pc = "policy" /\ pc' = "walk"
  /\ IF args.policy /\ rows # {}
     THEN /\ policy' = IF "policy" \in raising THEN policy ELSE run
          /\ Report("policy", RowSymbols)
     ELSE UNCHANGED <<policy, reports>>
  /\ UNCHANGED <<run, settings, memory, checkpoint, incremental, results,
                 manifest, crashes>>

WalkForward ==
  /\ pc = "walk" /\ pc' = "strength"
  /\ IF args.walk /\ dfs # {} THEN Report("walk", dfs) ELSE UNCHANGED reports
  /\ UNCHANGED <<run, settings, memory, checkpoint, incremental, policy, results,
                 manifest, crashes>>

\* A symbol that is not in the cache is fetched again, but only where there are
\* CSV files to fall back on.
RelativeStrength ==
  LET have == IF args.csv THEN data \union dfs ELSE dfs
  IN  /\ pc = "strength" /\ pc' = "portfolio"
      /\ IF args.strength /\ have \intersect ToSet(symbols) # {}
         THEN Report("strength", have \intersect ToSet(symbols))
         ELSE UNCHANGED reports
      /\ UNCHANGED <<run, settings, memory, checkpoint, incremental, policy,
                     results, manifest, crashes>>

\* "The regime policy built earlier in this run" is whatever file is there.
LoadedPolicy == IF args.policy THEN policy ELSE NONE

\* The portfolio backtest takes the cache of bars, which it fills from the rows
\* if it is empty - the bars of a resumed run's earlier symbols are not in it -
\* and of these the symbols with engine results, if there are any.
PortfolioBacktest ==
  LET have == IF dfs # {} THEN dfs ELSE RowSymbols \intersect data
      from == IF have \intersect engines # {} THEN have \intersect engines ELSE have
  IN  /\ pc = "portfolio" /\ pc' = "risk"
      /\ IF args.portfolio
         THEN /\ dfs' = have
              /\ IF have = {} \/ "portfolio" \in raising
                 THEN UNCHANGED <<portfolio, reports>>
                 ELSE /\ portfolio' = [symbols |-> from, policy |-> LoadedPolicy]
                      /\ Report("portfolio", from)
         ELSE UNCHANGED <<dfs, portfolio, reports>>
      /\ UNCHANGED <<run, settings, data, raising, next, failed, completed, rows, fresh,
                     engines, filtered, checkpoint, incremental, policy, results,
                     manifest, crashes>>

\* The risk checks take the portfolio's equity curve, or an empty one.
RiskValidation ==
  /\ pc = "risk" /\ pc' = "costs"
  /\ IF args.risk THEN Report("risk", IF portfolio = NONE THEN {} ELSE portfolio.symbols)
     ELSE UNCHANGED reports
  /\ UNCHANGED <<run, settings, memory, checkpoint, incremental, policy, results,
                 manifest, crashes>>

\* The cost model needs the trades of this run's portfolio backtest.
ExecutionRealism ==
  /\ pc = "costs" /\ pc' = "export"
  /\ IF args.costs /\ portfolio # NONE THEN Report("costs", portfolio.symbols)
     ELSE UNCHANGED reports
  /\ UNCHANGED <<run, settings, memory, checkpoint, incremental, policy, results,
                 manifest, crashes>>

-----------------------------------------------------------------------------
(* Results                                                                 *)

\* export_results; without rows nothing is written, the manifest included.
ExportResults ==
  /\ pc = "export"
  /\ IF rows = {} THEN pc' = "cleanup" /\ UNCHANGED results
     ELSE pc' = "manifest" /\ results' = [run |-> run, rows |-> rows]
  /\ UNCHANGED <<run, settings, memory, checkpoint, incremental, reports, policy,
                 manifest, crashes>>

\* The manifest is written and the artifacts are held against the contract.
WriteManifest ==
  /\ pc = "manifest" /\ pc' = "cleanup"
  /\ manifest' = run
  /\ UNCHANGED <<run, settings, memory, checkpoint, incremental, reports, policy,
                 results, crashes>>

\* _cleanup_checkpoint_files: the checkpoint goes first, then the rows.
Cleanup ==
  /\ IF pc = "cleanup" /\ checkpoint # NONE
     THEN checkpoint' = NONE /\ pc' = "cleanup" /\ UNCHANGED incremental
     ELSE pc = "cleanup" /\ pc' = "idle" /\ incremental' = {}
          /\ UNCHANGED checkpoint
  /\ UNCHANGED <<run, settings, memory, reports, policy, results, manifest,
                 crashes>>

\* The process dies: of what it held in memory nothing is left.
Crash ==
  /\ pc # "idle" /\ crashes < MaxCrashes
  /\ crashes' = crashes + 1
  /\ pc' = "idle"
  /\ next' = 1
  /\ failed' = {} /\ completed' = {} /\ rows' = {} /\ fresh' = NONE
  /\ data' = {} /\ raising' = {} /\ dfs' = {} /\ engines' = {} /\ filtered' = FALSE
  /\ portfolio' = NONE
  /\ UNCHANGED <<run, settings, disk>>

Step ==
  \/ SkipSymbol \/ SerialSymbol \/ WorkerFails
  \/ SaveCheckpoint \/ LoopEnds
  \/ RegimeAnalysis \/ PolicyPhase \/ WalkForward \/ RelativeStrength
  \/ PortfolioBacktest \/ RiskValidation \/ ExecutionRealism
  \/ ExportResults \/ WriteManifest \/ Cleanup

Next == Start \/ Step \/ Crash

Spec == Init /\ [][Next]_vars

-----------------------------------------------------------------------------
(* Properties                                                              *)

\* What a run with the settings of r makes of sym at the least.
Made(sym, r) ==
  {[sym |-> sym, strategy |-> s, run |-> r] :
     s \in {t \in Strategies : /\ <<sym, t>> \notin Broken
                               /\ settings[r].filter => t \notin Blocked}}

\* The rows of sym that some run with the hash h has made are all in s.
HasRowsOf(s, sym, h) ==
  \E r \in 1..run : ConfigHash(r) = h /\ Made(sym, r) \subseteq s

\* Types of the state; there is no row of a backtest that raises.
ResultRow == {r \in [sym : Symbols, strategy : Strategies, run : 1..MaxRuns] :
          <<r.sym, r.strategy>> \notin Broken}

Files ==
  [completed : SUBSET Symbols, hash : {s.config : s \in Settings}] \union {NONE}

TypeOK ==
  /\ run \in 0..MaxRuns /\ crashes \in 0..MaxCrashes
  /\ settings \in [1..MaxRuns -> Settings \union {NONE}]
  /\ \A r \in 1..run : settings[r] \in Settings
  /\ pc # "idle" => run > 0 /\ filtered \in {FALSE, args.filter}
  /\ data \subseteq Symbols /\ completed \subseteq Symbols
  /\ dfs \subseteq Symbols /\ engines \subseteq Symbols
  /\ next \in 1 .. (Len(Universe) + 1)
  /\ pc = "checkpoint" <=> fresh # NONE
  /\ checkpoint \in Files
  /\ rows \subseteq ResultRow /\ incremental \subseteq ResultRow

\* The checkpoint never runs ahead of the rows: whichever runs have died where,
\* resumed or started afresh in between, every symbol that a later run will skip
\* has its rows in the incremental file, made under the checkpoint's hash.
CheckpointIsBackedByRows ==
  checkpoint # NONE =>
    \A sym \in checkpoint.completed : HasRowsOf(incremental, sym, checkpoint.hash)

\* A symbol a run has skipped or finished is in the results it exports.
ResultsCoverCompleted ==
  pc = "manifest" =>
    \A sym \in completed : HasRowsOf(results.rows, sym, ConfigHash(run))

\* What a run has completed is never lost: as long as a later run would skip it
\* its rows are on disk, and a run exports the rows of all it skipped.
NothingCompletedIsLost == CheckpointIsBackedByRows /\ ResultsCoverCompleted

\* Progress survives: a resumed run only ever adds to the checkpoint of its own
\* settings, until it removes it.
ResumeKeepsProgress ==
  [][(/\ checkpoint # NONE /\ checkpoint' # NONE
      /\ args.resume /\ checkpoint.hash = checkpoint'.hash)
     => checkpoint.completed \subseteq checkpoint'.completed]_vars

-----------------------------------------------------------------------------
(* What comments say and the code does not do                              *)

\* Lines 583-584: the hash "prevents resuming a run with different settings
\* (which would produce incoherent result files)".
ExportsAreCoherent ==
  results # NONE =>
    \A r \in {row.run : row \in results.rows} :
      /\ ConfigHash(r) = ConfigHash(results.run)
      /\ settings[r].filter = settings[results.run].filter
=============================================================================
