------------------------------ MODULE Realtime ------------------------------
(* The real-time engine: RealTimeEngine.run and run_cycle over the poller,
   the market monitor with its alert engine, the pick engine, the alert
   dispatcher, the state store, the event bus and the exporter.  Runs of one
   engine follow each other; stop() is called from another thread at any
   moment; a subscriber of the event bus may raise at the events of
   settings.faults; a file write may fail.                                  *)
EXTENDS Naturals, Sequences, SequencesExt, FiniteSets, TLC

CONSTANTS
  Pairs,             \* what is polled: symbol x timeframe
  Scans,             \* sequences of alert keys one monitoring run can raise
  Regimes,           \* market regimes
  REGIME_CHANGE,     \* the dedupe key of every regime change alert
  NONE,
  MonitorWindow,     \* AlertEngineConfig.dedupe_window_minutes, in ticks
  DispatchWindow,    \* AlertDispatcher.dedupe_window_minutes, in ticks
  MaxHistory,        \* RealTimeStateStore.max_history
  MaxCycles,         \* max_cycles_per_run
  Settings,          \* the configurations explored
  MaxRuns, MaxStops, MaxTime   \* bounds of the exploration

ASSUME RealtimeAssumption ==
  /\ MaxHistory \in Nat /\ MaxHistory > 0
  /\ MaxCycles \in Nat /\ MaxCycles > 0
  /\ MonitorWindow \in Nat /\ DispatchWindow \in Nat
  /\ \A scan \in Scans : scan \in Seq(Range(scan))

VARIABLES
  settings,  \* the configuration of this behaviour
  engine,    \* RealTimeEngine and its RealTimeStateStore
  run,       \* the call of run() in progress: where it is, its RealTimeRunResult with
             \* the number of its cycles and their alerts, one after the other
  cycle,     \* the RealTimeCycleResult being built
  monitor,   \* MarketMonitor: the last regime and AlertEngine.dedupe_state
  seen,      \* AlertDispatcher.dedupe_state
  file,      \* the rows of realtime_alerts.csv
  now,
  stopper    \* the thread that calls stop(), cycles begun since its request

vars == <<settings, engine, run, cycle, monitor, seen, file, now, stopper>>

\* Where run() can be: outside a cycle, or between a cycle's first event and its record.
InCycle == {"cycle_started", "market", "market_closed", "poll", "monitor", "pick", "dispatch",
            "update", "snapshot_updated", "alert_generated", "fail", "provider_error", "record"}

NewEngine == [running |-> FALSE, stopRequested |-> FALSE, counter |-> 0,
              status |-> "idle", history |-> <<>>, latest |-> <<>>]
NewMonitor == [regime |-> NONE, seen |-> <<>>]
NewCycle(id) == [id |-> id, status |-> "skipped", alerts |-> <<>>, generated |-> <<>>,
                 polled |-> 0, raising |-> FALSE]

Init ==
  /\ settings \in Settings
  /\ engine = NewEngine
  /\ run = [pc |-> "idle", cycles |-> 0, alerts |-> <<>>, status |-> "idle",
            raised |-> FALSE, entered |-> FALSE, count |-> 0]
  /\ cycle = NewCycle(0)
  /\ monitor = NewMonitor
  /\ seen = <<>>
  /\ file = <<>>
  /\ now = 0
  /\ stopper = [pc |-> "idle", calls |-> 0, late |-> 0]

Goto(point) == run' = [run EXCEPT !.pc = point]

\* EventBus.publish calls the subscribers in this thread: what they raise
\* leaves the statement that published.
Publish(event, next, handler) ==
  /\ run.pc = event
  /\ \/ Goto(next)
     \/ settings.bus /\ event \in settings.faults /\ Goto(handler)

-----------------------------------------------------------------------------
(* Starting and stopping *)

\* run() up to start(): a disabled engine returns at once.
Call ==
  /\ run.pc = "idle" /\ run.count < MaxRuns
  /\ IF settings.enabled
     THEN /\ run' = [pc |-> "start", cycles |-> 0, alerts |-> <<>>, status |-> "idle",
                     raised |-> FALSE, entered |-> FALSE, count |-> run.count + 1]
          /\ UNCHANGED engine
     ELSE /\ run' = [run EXCEPT !.count = @ + 1, !.status = "disabled"]
          /\ engine' = [engine EXCEPT !.status = "disabled"]
  /\ UNCHANGED <<settings, cycle, monitor, seen, file, now, stopper>>

\* start() does nothing to an engine that is still running.
Started(e) ==
  IF e.running THEN e
  ELSE [e EXCEPT !.stopRequested = FALSE, !.running = TRUE, !.status = "running"]

Start ==
  /\ run.pc = "start"
  /\ engine' = Started(engine)
  /\ stopper' = IF engine.running THEN stopper ELSE [stopper EXCEPT !.late = 0]
  /\ Goto("engine_started")
  /\ UNCHANGED <<settings, cycle, monitor, seen, file, now>>

\* The event is published before the try of run(): a subscriber that raises
\* here leaves run() without the finally clause.
EngineStarted ==
  /\ run.pc = "engine_started"
  /\ \/ run' = [run EXCEPT !.pc = "loop", !.entered = TRUE]
     \/ settings.bus /\ "engine_started" \in settings.faults /\ Goto("idle")
  /\ UNCHANGED <<settings, engine, cycle, monitor, seen, file, now, stopper>>

\* stop(): the request, then the state of an engine that runs.
Cleared(e) ==
  IF e.running THEN [e EXCEPT !.running = FALSE, !.status = "stopped"] ELSE e
Stopped(e) == Cleared([e EXCEPT !.stopRequested = TRUE])

RequestStop ==
  /\ stopper.pc = "idle" /\ stopper.calls < MaxStops
  /\ engine' = [engine EXCEPT !.stopRequested = TRUE]
  /\ stopper' = [pc |-> "clear", calls |-> stopper.calls + 1, late |-> 0]
  /\ UNCHANGED <<settings, run, cycle, monitor, seen, file, now>>

ClearRunning ==
  /\ stopper.pc = "clear"
  /\ engine' = Cleared(engine)
  /\ stopper' = [stopper EXCEPT !.pc = "idle"]
  /\ UNCHANGED <<settings, run, cycle, monitor, seen, file, now>>

-----------------------------------------------------------------------------
(* One cycle *)

MoreCycles_Deaf == run.cycles < MaxCycles
MoreCycles == ~engine.stopRequested /\ run.cycles < MaxCycles

Loop ==
  /\ run.pc = "loop"
  /\ Goto(IF MoreCycles THEN "cycle" ELSE "finally")
  /\ UNCHANGED <<settings, engine, cycle, monitor, seen, file, now, stopper>>

BeginCycle ==
  /\ run.pc = "cycle"
  /\ engine' = [engine EXCEPT !.counter = @ + 1]
  /\ cycle' = NewCycle(engine.counter + 1)
  /\ stopper' = [stopper EXCEPT !.late = IF engine.stopRequested THEN @ + 1 ELSE @]
  /\ Goto("cycle_started")
  /\ UNCHANGED <<settings, monitor, seen, file, now>>

\* Published before the try of run_cycle, so the exception leaves the cycle unrecorded.
CycleStarted ==
  /\ Publish("cycle_started", "market", "except")
  /\ UNCHANGED <<settings, engine, cycle, monitor, seen, file, now, stopper>>

\* The clock decides, then the symbols: a cycle without either is skipped.
Market ==
  /\ run.pc = "market"
  /\ \/ /\ settings.onlyMarketHours
        /\ cycle' = [cycle EXCEPT !.status = "skipped"]
        /\ Goto(IF settings.bus THEN "market_closed" ELSE "record")
     \/ /\ ~settings.symbols
        /\ cycle' = [cycle EXCEPT !.status = "skipped"]
        /\ Goto("record")
     \/ /\ settings.symbols
        /\ Goto("poll")
        /\ UNCHANGED cycle
  /\ UNCHANGED <<settings, engine, monitor, seen, file, now, stopper>>

MarketClosed ==
  /\ Publish("market_closed", "record", "fail")
  /\ UNCHANGED <<settings, engine, cycle, monitor, seen, file, now, stopper>>

\* What asking a provider for a live price can lead to.  A provider that cannot
\* serve one falls back to the last bar on disk, one that fails does not, and
\* a payload whose fields do not parse raises out of poll().
\* settings.live and settings.bars say which outcomes occur; without a live
\* provider every request is "unsupported".
LastBar(bar) == [source |-> "historical_snapshot", success |-> bar = "ok"]
Polled(live, bar) ==
  IF live = "unsupported" THEN LastBar(bar)
  ELSE [source |-> "live_poll", success |-> live = "ok"]

Poll ==
  /\ run.pc = "poll"
  /\ \E live \in [Pairs -> settings.live], bar \in [Pairs -> settings.bars] :
       IF \E q \in Pairs : live[q] = "unparsable"
       THEN Goto("fail") /\ UNCHANGED cycle
       ELSE /\ cycle' = [cycle EXCEPT !.polled = Cardinality({q \in Pairs :
                                                   Polled(live[q], bar[q]).success})]
            /\ Goto("monitor")
  /\ UNCHANGED <<settings, engine, monitor, seen, file, now, stopper>>

-----------------------------------------------------------------------------
(* Alerts: the monitor's engine and the dispatcher dedupe one after the other *)

Recent(times, key, window, at) == key \in DOMAIN times /\ at - times[key] < window

\* The members of a sequence at some of its places, in their order.
Those(s, places) ==
  [n \in 1 .. Cardinality(places) |->
     s[CHOOSE i \in places : Cardinality({j \in places : j < i}) = n - 1]]

\* Alerts seen within the window are dropped, the second of a list among them; the
\* others are marked at once.  Without a window all are kept.
Kept(keys, times, window, at) ==
  {i \in DOMAIN keys :
     window > 0 => /\ ~Recent(times, keys[i], window, at)
                   /\ \A j \in 1 .. i - 1 : keys[j] # keys[i]}

Marks(keys, times, window, at) ==
  LET marked == {keys[i] : i \in Kept(keys, times, window, at)}
  IN  [key \in DOMAIN times \cup marked |-> IF key \in marked THEN at ELSE times[key]]

RegimeAlert(regime) ==
  IF regime # NONE /\ monitor.regime # NONE /\ regime # monitor.regime
  THEN <<REGIME_CHANGE>> ELSE <<>>

\* The parts of MarketMonitor.run that may raise: loading the watchlists, the
\* scan of their symbols, the scan of the configured universe it falls back to
\* (and which replaces it when there are no watchlists), the regime, the
\* relative strength.  A tolerant monitor raises for the fallback only - and for
\* watchlists without a symbol.
FallsBack(faults) == "watchlists" \in faults \/ "scan" \in faults
Raises(faults) ==
  \/ "empty" \in faults
  \/ IF settings.tolerant THEN FallsBack(faults) /\ "fallback" \in faults
     ELSE faults \cap {"watchlists", "scan", "regime", "strength"} # {}

\* Without its regime a run neither reports nor forgets one.
Detected(faults) == IF "regime" \in faults THEN {NONE} ELSE Regimes

\* MarketMonitor.run: alerts are marked and the regime is remembered here,
\* whatever becomes of the cycle.  It raises before that, or not at all.
Monitor ==
  /\ run.pc = "monitor"
  /\ \E faults \in SUBSET settings.monitorFaults :
       \/ /\ Raises(faults)
          /\ Goto("fail")
          /\ UNCHANGED <<monitor, cycle>>
       \/ /\ ~Raises(faults)
          /\ \E scan \in Scans, regime \in Detected(faults) :
               LET keys == scan \o RegimeAlert(regime)
                   found == [i \in DOMAIN keys |-> [key |-> keys[i], at |-> now]]
               IN /\ monitor' = [regime |-> IF regime = NONE THEN monitor.regime ELSE regime,
                                 seen |-> Marks(keys, monitor.seen, MonitorWindow, now)]
                  /\ cycle' = [cycle EXCEPT !.generated =
                                 Those(found, Kept(keys, monitor.seen, MonitorWindow, now))]
                  /\ Goto("pick")
  /\ UNCHANGED <<settings, engine, seen, file, now, stopper>>

Pick ==
  /\ run.pc = "pick"
  /\ \/ Goto("fail")
     \/ Goto("dispatch")
  /\ UNCHANGED <<settings, engine, cycle, monitor, seen, file, now, stopper>>

\* Marked as seen, then appended to the file: a write that fails leaves the mark.
Dispatch ==
  /\ run.pc = "dispatch"
  /\ LET keys == [i \in DOMAIN cycle.generated |-> cycle.generated[i].key]
         rows == Those(cycle.generated, Kept(keys, seen, DispatchWindow, now))
     IN IF ~settings.dispatch
        THEN Goto("update") /\ UNCHANGED <<seen, file, cycle>>
        ELSE /\ seen' = Marks(keys, seen, DispatchWindow, now)
             /\ \/ /\ file' = IF settings.persist THEN file \o rows ELSE file
                   /\ cycle' = [cycle EXCEPT !.alerts = rows]
                   /\ Goto("update")
                \/ /\ settings.disk /\ settings.persist /\ rows # <<>>
                   /\ Goto("fail")
                   /\ UNCHANGED <<file, cycle>>
  /\ UNCHANGED <<settings, engine, monitor, now, stopper>>

UpdateResults ==
  /\ run.pc = "update"
  /\ engine' = [engine EXCEPT !.latest = cycle.alerts]
  /\ cycle' = [cycle EXCEPT !.status = "completed"]
  /\ Goto(IF settings.bus THEN "snapshot_updated" ELSE "record")
  /\ UNCHANGED <<settings, monitor, seen, file, now, stopper>>

SnapshotUpdated ==
  /\ Publish("snapshot_updated", IF cycle.alerts # <<>> THEN "alert_generated" ELSE "record",
             "fail")
  /\ UNCHANGED <<settings, engine, cycle, monitor, seen, file, now, stopper>>

AlertGenerated ==
  /\ Publish("alert_generated", "record", "fail")
  /\ UNCHANGED <<settings, engine, cycle, monitor, seen, file, now, stopper>>

-----------------------------------------------------------------------------
(* The end of a cycle and of a run *)

\* The except clause of run_cycle; its own event may raise as well.
Fail ==
  /\ run.pc = "fail"
  /\ cycle' = [cycle EXCEPT !.status = "failed"]
  /\ Goto("provider_error")
  /\ UNCHANGED <<settings, engine, monitor, seen, file, now, stopper>>

ProviderError ==
  /\ run.pc = "provider_error"
  /\ \/ cycle' = [cycle EXCEPT !.raising = ~settings.continueOnError]
     \/ /\ settings.bus /\ "provider_error" \in settings.faults
        /\ cycle' = [cycle EXCEPT !.raising = TRUE]
  /\ Goto("record")
  /\ UNCHANGED <<settings, engine, monitor, seen, file, now, stopper>>

Newest_Oldest(s, n) == SubSeq(s, 1, IF Len(s) > n THEN n ELSE Len(s))
Newest(s, n) == SubSeq(s, IF Len(s) > n THEN Len(s) - n + 1 ELSE 1, Len(s))

\* The finally clause of run_cycle: every cycle that entered the try is recorded.
RecordCycle ==
  /\ run.pc = "record"
  /\ engine' = [engine EXCEPT !.history =
                  Newest(Append(@, [id |-> cycle.id, status |-> cycle.status]), MaxHistory)]
  /\ Goto("cycle_completed")
  /\ UNCHANGED <<settings, cycle, monitor, seen, file, now, stopper>>

CycleCompleted ==
  /\ run.pc = "cycle_completed"
  /\ \/ IF cycle.raising THEN Goto("except")
        ELSE run' = [run EXCEPT !.pc = "loop", !.cycles = @ + 1,
                                !.alerts = @ \o cycle.alerts]
     \/ settings.bus /\ "cycle_completed" \in settings.faults /\ Goto("except")
  /\ cycle' = NewCycle(0)
  /\ UNCHANGED <<settings, engine, monitor, seen, file, now, stopper>>

\* The except clause of run(); without continue_on_error it stops and raises.
Except ==
  /\ run.pc = "except"
  /\ run' = [run EXCEPT !.pc = "finally", !.status = "error", !.raised = ~settings.continueOnError]
  /\ engine' = LET e == [engine EXCEPT !.status = "error"]
               IN IF settings.continueOnError THEN e ELSE Stopped(e)
  /\ UNCHANGED <<settings, cycle, monitor, seen, file, now, stopper>>

Finally_Leaves ==
  /\ run.pc = "finally"
  /\ engine' = [engine EXCEPT !.stopRequested = TRUE]
  /\ run' = [run EXCEPT !.pc = IF run.raised THEN "idle" ELSE "engine_stopped",
                        !.cycles = IF run.raised THEN 0 ELSE @,
                        !.alerts = IF run.raised THEN <<>> ELSE @,
                        !.status = IF @ = "error" THEN "error" ELSE "stopped"]
  /\ UNCHANGED <<settings, cycle, monitor, seen, file, now, stopper>>

Finally ==
  /\ run.pc = "finally"
  /\ engine' = Stopped(engine)
  /\ run' = [run EXCEPT !.pc = IF run.raised THEN "idle" ELSE "engine_stopped",
                        !.cycles = IF run.raised THEN 0 ELSE @,
                        !.alerts = IF run.raised THEN <<>> ELSE @,
                        !.status = IF @ = "error" THEN "error" ELSE "stopped"]
  /\ UNCHANGED <<settings, cycle, monitor, seen, file, now, stopper>>

EngineStopped ==
  /\ Publish("engine_stopped", "export", "idle")
  /\ UNCHANGED <<settings, engine, cycle, monitor, seen, file, now, stopper>>

\* The alerts file is written anew, with the alerts of the cycles of this run.
Exported_Appends(old) == old \o run.alerts
Exported(old) == run.alerts

Export ==
  /\ run.pc = "export"
  /\ \/ file' = IF settings.persist THEN Exported(file) ELSE file
     \/ settings.disk /\ UNCHANGED file
  /\ run' = [run EXCEPT !.pc = "idle", !.cycles = 0, !.alerts = <<>>]
  /\ UNCHANGED <<settings, engine, cycle, monitor, seen, now, stopper>>

\* The user interface builds an engine for every run it starts.
Renew ==
  /\ run.pc = "idle" /\ settings.renew /\ engine.counter > 0 /\ run.count < MaxRuns
  /\ engine' = NewEngine
  /\ monitor' = NewMonitor
  /\ seen' = <<>>
  /\ run' = [run EXCEPT !.entered = FALSE]
  /\ stopper' = [stopper EXCEPT !.pc = "idle", !.late = 0]
  /\ UNCHANGED <<settings, cycle, file, now>>

\* Time matters where it is read: it passes between the monitor and the
\* dispatcher of a cycle, and before a cycle.
Tick ==
  /\ run.pc \in {"loop", "dispatch"}
  /\ now < MaxTime
  /\ now' = now + 1
  /\ UNCHANGED <<settings, engine, run, cycle, monitor, seen, file, stopper>>

Runner ==
  \/ Start \/ EngineStarted \/ Loop \/ BeginCycle \/ CycleStarted \/ Market \/ MarketClosed
  \/ Poll \/ Monitor \/ Pick \/ Dispatch \/ UpdateResults \/ SnapshotUpdated \/ AlertGenerated
  \/ Fail \/ ProviderError \/ RecordCycle \/ CycleCompleted \/ Except \/ Finally
  \/ EngineStopped \/ Export

Next == Call \/ Runner \/ RequestStop \/ ClearRunning \/ Renew \/ Tick

Spec == Init /\ [][Next]_vars

-----------------------------------------------------------------------------
(* Properties *)

\* However a run ended - cycles done, stopped by another thread, a cycle that
\* raised, a subscriber that raised - once it was past engine_started the
\* engine is left not running, so that the next start() is not ignored.
ReturnedEngineIsStopped == run.pc = "idle" /\ run.entered => ~engine.running

\* After stop() has made its request at most one more cycle begins, unless a
\* new start() takes the request back.
StopIsPrompt == stopper.late <= 1

\* The history of the state store holds, oldest first, the newest cycles that
\* passed cycle_started, failed and interrupted ones included; none is recorded
\* twice, and the one at the end is the last one begun.
HistoryKeepsEveryCycle ==
  LET h == engine.history
      quiet == {"cycle_started"} \cap settings.faults = {} \/ ~settings.bus
      done == IF run.pc \in InCycle THEN engine.counter - 1 ELSE engine.counter
  IN /\ \A i, j \in DOMAIN h : i < j => h[i].id < h[j].id
     /\ quiet => /\ Len(h) = IF done < MaxHistory THEN done ELSE MaxHistory
                 /\ \A i \in DOMAIN h : h[i].id = done - Len(h) + i

\* When no run is in progress, the alerts file holds no two rows of one alert
\* raised within the window of the alert engine: although the dispatcher
\* appends and the exporter rewrites the same rows, the marks outlive failed
\* cycles, and a new engine starts with no marks at all.
FileHasEachAlertOnce ==
  run.pc = "idle" =>
    \A i, j \in DOMAIN file :
      i < j /\ file[i].key = file[j].key => file[j].at - file[i].at >= MonitorWindow
=============================================================================
