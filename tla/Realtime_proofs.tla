--------------------------- MODULE Realtime_proofs ---------------------------
(* Proofs about Realtime: however runs, faults of subscribers, disk and        *)
(* monitor, and stop() from another thread interleave, a run that entered its  *)
(* try leaves a stopped engine, a stop is honoured within one cycle, and the   *)
(* history keeps the newest cycles.  Then the alerts: none is in the file      *)
(* twice within its window.  The last part is about the notifications of the   *)
(* same service: what it uses is what its file holds.                          *)
EXTENDS Realtime, Notifications, SetSums, FiniteSetTheorems, SequenceTheorems, TLAPS

\* The records keep their fields.
Shape ==
  /\ engine = [running |-> engine.running, stopRequested |-> engine.stopRequested,
               counter |-> engine.counter, status |-> engine.status,
               history |-> engine.history, latest |-> engine.latest]
  /\ run = [pc |-> run.pc, cycles |-> run.cycles, alerts |-> run.alerts,
            status |-> run.status, raised |-> run.raised, entered |-> run.entered, count |-> run.count]
  /\ stopper = [pc |-> stopper.pc, calls |-> stopper.calls, late |-> stopper.late]

\* A run that has passed its finally clause has stopped the engine; one that has
\* not passed engine_started has not entered its try.
Left ==
  /\ run.pc \in {"engine_stopped", "export", "idle"} /\ run.entered => ~engine.running
  /\ run.pc \in {"start", "engine_started"} => ~run.entered

\* The cycle begun after a request was already past the test of the loop.
Prompt ==
  \/ stopper.late = 0
  \/ stopper.late = 1 /\ engine.stopRequested /\ run.pc # "cycle"

IInv == Shape /\ Left /\ Prompt

-----------------------------------------------------------------------------
\* What most steps of a run do: nothing to the engine's flags, and they do not
\* go to a point where the invariant asks something.
Ordinary ==
  /\ engine'.running = engine.running
  /\ engine'.stopRequested = engine.stopRequested
  /\ stopper' = stopper
  /\ run'.pc \in {"engine_stopped", "export", "idle"} =>
       (run.pc \in {"engine_stopped", "export", "idle"} /\ (run'.entered => run.entered))
  /\ run'.pc \notin {"cycle", "start", "engine_started"}

\* An ordinary step keeps the invariant: the shape of the records is all it must show.
LEMMA OrdinaryStep == IInv /\ Ordinary /\ Shape' => IInv'
  BY DEF IInv, Ordinary, Left, Prompt, Shape

\* The initial state: nothing runs and nobody asked for a stop.
LEMMA InitInv == Init => IInv
  BY DEF Init, IInv, Shape, Left, Prompt, NewEngine

\* Calling, starting and entering a run.
LEMMA EnterStep == IInv /\ (Call \/ Start \/ EngineStarted) => IInv'
<1> SUFFICES ASSUME IInv, Call \/ Start \/ EngineStarted PROVE IInv'
  OBVIOUS
<1>1. CASE Call
  <2>1. CASE settings.enabled
    BY <1>1, <2>1 DEF IInv, Shape, Left, Prompt, Call
  <2>2. CASE ~settings.enabled
    <3>1. /\ engine' = [engine EXCEPT !.status = "disabled"]
          /\ run' = [run EXCEPT !.count = @ + 1, !.status = "disabled"]
          /\ stopper' = stopper
      BY <1>1, <2>2 DEF Call
    <3>2. Shape' /\ run'.pc = run.pc /\ run'.entered = run.entered
          /\ engine'.running = engine.running /\ engine'.stopRequested = engine.stopRequested
      BY <3>1 DEF IInv, Shape
    <3> QED BY <3>1, <3>2 DEF IInv, Left, Prompt
  <2> QED BY <2>1, <2>2
<1>2. CASE Start
  <2>1. run'.pc = "engine_started"
    BY <1>2 DEF IInv, Shape, Start, Goto
  <2>2. CASE engine.running
    <3>1. /\ engine' = engine /\ stopper' = stopper
          /\ run.pc = "start" /\ run' = [run EXCEPT !.pc = "engine_started"]
      BY <1>2, <2>2 DEF Start, Started, Goto
    <3> QED BY <3>1, <2>1 DEF IInv, Shape, Left, Prompt
  <2>3. CASE ~engine.running
    <3>1. /\ engine' = [engine EXCEPT !.stopRequested = FALSE, !.running = TRUE, !.status = "running"]
          /\ stopper' = [stopper EXCEPT !.late = 0]
          /\ run.pc = "start" /\ run' = [run EXCEPT !.pc = "engine_started"]
      BY <1>2, <2>3 DEF Start, Started, Goto
    <3> QED BY <3>1, <2>1 DEF IInv, Shape, Left, Prompt
  <2> QED BY <2>2, <2>3
<1>3. CASE EngineStarted
  <2>1. run.pc = "engine_started" /\ engine' = engine /\ stopper' = stopper
    BY <1>3 DEF EngineStarted
  <2>2. CASE run' = [run EXCEPT !.pc = "loop", !.entered = TRUE]
    BY <2>1, <2>2 DEF IInv, Shape, Left, Prompt
  <2>3. CASE run' = [run EXCEPT !.pc = "idle"]
    BY <2>1, <2>3 DEF IInv, Shape, Left, Prompt
  <2> QED BY <1>3, <2>2, <2>3 DEF EngineStarted, Goto
<1> QED BY <1>1, <1>2, <1>3

\* stop() from the other thread: the request counts cycles from zero.
LEMMA StopStep == IInv /\ (RequestStop \/ ClearRunning) => IInv'
<1> SUFFICES ASSUME IInv, RequestStop \/ ClearRunning PROVE IInv'
  OBVIOUS
<1>1. CASE RequestStop
  BY <1>1 DEF IInv, Shape, Left, Prompt, RequestStop
<1>2. CASE ClearRunning
  BY <1>2 DEF IInv, Shape, Left, Prompt, ClearRunning, Cleared
<1> QED BY <1>1, <1>2

\* The loop looks at the request before a cycle begins.
LEMMA LoopStep == IInv /\ (Loop \/ BeginCycle) => IInv'
<1> SUFFICES ASSUME IInv, Loop \/ BeginCycle PROVE IInv'
  OBVIOUS
<1>1. CASE Loop
  BY <1>1 DEF IInv, Shape, Left, Prompt, Loop, MoreCycles, Goto
<1>2. CASE BeginCycle
  <2>1. stopper.late = 0 BY <1>2 DEF IInv, Prompt, BeginCycle
  <2>2. QED BY <1>2, <2>1 DEF IInv, Shape, Left, Prompt, BeginCycle, Goto
<1> QED BY <1>1, <1>2

\* The steps of a cycle up to the end of its try.
LEMMA CycleStep ==
  IInv /\ (CycleStarted \/ Market \/ MarketClosed \/ Poll \/ Monitor \/ Pick \/ Dispatch
             \/ UpdateResults \/ SnapshotUpdated \/ AlertGenerated) => IInv'
<1> SUFFICES ASSUME IInv, CycleStarted \/ Market \/ MarketClosed \/ Poll \/ Monitor \/ Pick
                            \/ Dispatch \/ UpdateResults \/ SnapshotUpdated \/ AlertGenerated
             PROVE Ordinary /\ Shape'
  BY OrdinaryStep
<1>1. CASE CycleStarted \/ MarketClosed \/ SnapshotUpdated \/ AlertGenerated
  BY <1>1 DEF IInv, Shape, Ordinary, CycleStarted, MarketClosed, SnapshotUpdated,
              AlertGenerated, Publish, Goto
<1>2. CASE Market
  BY <1>2 DEF IInv, Shape, Ordinary, Market, Goto
<1>3. CASE Poll
  BY <1>3 DEF IInv, Shape, Ordinary, Poll, Goto
<1>4. CASE Monitor
  BY <1>4 DEF IInv, Shape, Ordinary, Monitor, Goto
<1>5. CASE Pick
  BY <1>5 DEF IInv, Shape, Ordinary, Pick, Goto
<1>6. CASE Dispatch
  BY <1>6 DEF IInv, Shape, Ordinary, Dispatch, Goto
<1>7. CASE UpdateResults
  BY <1>7 DEF IInv, Shape, Ordinary, UpdateResults, Goto
<1> QED BY <1>1, <1>2, <1>3, <1>4, <1>5, <1>6, <1>7

\* A failed cycle, its record, its last event.
LEMMA CloseStep == IInv /\ (Fail \/ ProviderError \/ RecordCycle \/ CycleCompleted) => IInv'
<1> SUFFICES ASSUME IInv, Fail \/ ProviderError \/ RecordCycle \/ CycleCompleted
             PROVE Ordinary /\ Shape'
  BY OrdinaryStep
<1>1. CASE Fail
  BY <1>1 DEF IInv, Shape, Ordinary, Fail, Goto
<1>2. CASE ProviderError
  BY <1>2 DEF IInv, Shape, Ordinary, ProviderError, Goto
<1>3. CASE RecordCycle
  BY <1>3 DEF IInv, Shape, Ordinary, RecordCycle, Goto
<1>4. CASE CycleCompleted
  BY <1>4 DEF IInv, Shape, Ordinary, CycleCompleted, Goto
<1> QED BY <1>1, <1>2, <1>3, <1>4

\* The clauses of run(): only the finally clause leads out, and it stops the engine.
LEMMA LeaveStep == IInv /\ (Except \/ Finally \/ EngineStopped \/ Export) => IInv'
<1> SUFFICES ASSUME IInv, Except \/ Finally \/ EngineStopped \/ Export PROVE IInv'
  OBVIOUS
<1>1. CASE Except
  BY <1>1 DEF IInv, Shape, Left, Prompt, Except, Stopped, Cleared
<1>2. CASE Finally
  BY <1>2 DEF IInv, Shape, Left, Prompt, Finally, Stopped, Cleared
<1>3. CASE EngineStopped
  BY <1>3 DEF IInv, Shape, Left, Prompt, EngineStopped, Publish, Goto
<1>4. CASE Export
  <2>1. /\ run.pc = "export" /\ run' = [run EXCEPT !.pc = "idle", !.cycles = 0, !.alerts = <<>>]
        /\ engine' = engine /\ stopper' = stopper
    BY <1>4 DEF Export
  <2> QED BY <2>1 DEF IInv, Shape, Left, Prompt
<1> QED BY <1>1, <1>2, <1>3, <1>4

\* A new engine, and the clock.
LEMMA OtherStep == IInv /\ (Renew \/ Tick) => IInv'
<1> SUFFICES ASSUME IInv, Renew \/ Tick PROVE IInv'
  OBVIOUS
<1>1. CASE Renew
  BY <1>1 DEF IInv, Shape, Left, Prompt, Renew, NewEngine
<1>2. CASE Tick
  BY <1>2 DEF IInv, Shape, Left, Prompt, Tick
<1> QED BY <1>1, <1>2

\* Every step keeps the invariant.
LEMMA NextInv == IInv /\ [Next]_vars => IInv'
<1> SUFFICES ASSUME IInv, [Next]_vars PROVE IInv'
  OBVIOUS
<1>1. CASE UNCHANGED vars
  BY <1>1 DEF vars, IInv, Shape, Left, Prompt
<1>2. CASE Next
  BY <1>2, EnterStep, StopStep, LoopStep, CycleStep, CloseStep, LeaveStep, OtherStep
     DEF Next, Runner
<1> QED BY <1>1, <1>2

\* For every configuration, any number of runs, stops and faults: a run past its
\* first event leaves a stopped engine, and at most one cycle begins after a stop.
THEOREM StopSafety == Spec => [](ReturnedEngineIsStopped /\ StopIsPrompt)
<1>1. IInv => ReturnedEngineIsStopped /\ StopIsPrompt
  BY DEF IInv, Left, Prompt, ReturnedEngineIsStopped, StopIsPrompt
<1> QED BY <1>1, InitInv, NextInv, PTL DEF Spec

\* The second half, in the form of the property.
THEOREM StopIsPromptSafety == Spec => []StopIsPrompt
BY StopSafety, PTL

-----------------------------------------------------------------------------
(* The history of the state store                                          *)

CycleStatus == {"skipped", "completed", "failed"}
Recorded == [id : Nat, status : CycleStatus]

\* Cycles that are over, and whether each of them must be on record.
Done == IF run.pc \in InCycle THEN engine.counter - 1 ELSE engine.counter
Quiet == {"cycle_started"} \cap settings.faults = {} \/ ~settings.bus

Counted ==
  /\ engine.counter \in Nat
  /\ engine.history \in Seq(Recorded)
  /\ cycle = [id |-> cycle.id, status |-> cycle.status, alerts |-> cycle.alerts,
              generated |-> cycle.generated, polled |-> cycle.polled, raising |-> cycle.raising]
  /\ cycle.status \in CycleStatus
  /\ run.pc \in InCycle => engine.counter > 0 /\ cycle.id = engine.counter

\* What is on record is over: the next record is newer than all of them.
Past == \A i \in DOMAIN engine.history : engine.history[i].id <= Done

HistInv == Shape /\ Counted /\ Past /\ HistoryKeepsEveryCycle

\* The property, over the operators above.
LEMMA HistoryForm ==
  HistoryKeepsEveryCycle <=>
    /\ \A i, j \in DOMAIN engine.history :
         i < j => engine.history[i].id < engine.history[j].id
    /\ Quiet => /\ Len(engine.history) = IF Done < MaxHistory THEN Done ELSE MaxHistory
                /\ \A i \in DOMAIN engine.history :
                     engine.history[i].id = Done - Len(engine.history) + i
  BY DEF HistoryKeepsEveryCycle, Quiet, Done

\* Keeping the newest n of a sequence shifts it by what is dropped.
LEMMA NewestProperties ==
  ASSUME NEW S, NEW s \in Seq(S), NEW n \in Nat, n > 0
  PROVE  LET drop == IF Len(s) > n THEN Len(s) - n ELSE 0
         IN /\ Newest(s, n) \in Seq(S)
            /\ Len(Newest(s, n)) = Len(s) - drop
            /\ \A i \in 1 .. Len(s) - drop : Newest(s, n)[i] = s[drop + i]
<1> DEFINE drop == IF Len(s) > n THEN Len(s) - n ELSE 0
<1>1. Len(s) \in Nat /\ drop \in 0..Len(s)
  OBVIOUS
<1>2. Newest(s, n) = SubSeq(s, drop + 1, Len(s))
  BY <1>1 DEF Newest
<1>3. \A i \in (drop + 1) .. Len(s) : s[i] \in S
  BY <1>1
<1> HIDE DEF drop
<1>4. /\ SubSeq(s, drop + 1, Len(s)) \in Seq(S)
      /\ Len(SubSeq(s, drop + 1, Len(s))) =
           IF drop + 1 <= Len(s) THEN Len(s) - (drop + 1) + 1 ELSE 0
      /\ \A i \in 1 .. Len(s) - (drop + 1) + 1 :
           SubSeq(s, drop + 1, Len(s))[i] = s[drop + 1 + i - 1]
  BY <1>1, <1>3, SubSeqProperties
<1>5. Len(SubSeq(s, drop + 1, Len(s))) = Len(s) - drop
  BY <1>1, <1>4
<1>6. \A i \in 1 .. Len(s) - drop : SubSeq(s, drop + 1, Len(s))[i] = s[drop + i]
  BY <1>1, <1>4
<1> QED
  BY <1>2, <1>4, <1>5, <1>6 DEF drop

LEMMA HistInit == Init => HistInv
<1> SUFFICES ASSUME Init PROVE HistInv
  OBVIOUS
<1>1. Shape
  BY InitInv DEF IInv
<1>2. Counted /\ engine.history = <<>> /\ engine.counter = 0 /\ run.pc \notin InCycle
  BY DEF Init, Counted, NewEngine, NewCycle, CycleStatus, InCycle
<1>3. Past /\ HistoryKeepsEveryCycle
  BY <1>2, HistoryForm, RealtimeAssumption DEF Past, Done
<1> QED
  BY <1>1, <1>2, <1>3 DEF HistInv

\* What most steps do: neither begin, nor abandon, nor record a cycle.
Still ==
  /\ UNCHANGED settings
  /\ engine'.counter = engine.counter /\ engine'.history = engine.history
  /\ run'.pc \in InCycle <=> run.pc \in InCycle
  /\ run'.pc \in InCycle => cycle'.id = cycle.id
  /\ cycle'.status \in CycleStatus
  /\ cycle' = [id |-> cycle'.id, status |-> cycle'.status, alerts |-> cycle'.alerts,
               generated |-> cycle'.generated, polled |-> cycle'.polled,
               raising |-> cycle'.raising]

LEMMA StillStep == HistInv /\ Still /\ Shape' => HistInv'
<1> SUFFICES ASSUME HistInv, Still, Shape' PROVE HistInv'
  OBVIOUS
<1>1. Done' = Done /\ Quiet' = Quiet /\ engine'.history = engine.history
  BY DEF Still, Done, Quiet
<1>2. HistoryKeepsEveryCycle'
  BY DEF HistInv, Still, HistoryKeepsEveryCycle
<1>3. Counted' /\ Past'
  BY <1>1 DEF HistInv, Still, Counted, Past
<1> QED
  BY <1>2, <1>3 DEF HistInv

\* The steps outside a cycle.
LEMMA OutsideSteps ==
  HistInv /\ (Call \/ Start \/ EngineStarted \/ RequestStop \/ ClearRunning \/ Loop
                \/ CycleCompleted \/ Except \/ Finally \/ EngineStopped \/ Export \/ Tick)
    => HistInv'
<1> SUFFICES ASSUME HistInv,
                    Call \/ Start \/ EngineStarted \/ RequestStop \/ ClearRunning \/ Loop
                      \/ CycleCompleted \/ Except \/ Finally \/ EngineStopped \/ Export \/ Tick
             PROVE  Still /\ Shape'
  BY StillStep
<1> USE DEF HistInv, Counted, Shape, Still, InCycle
<1>1. CASE Call
  <2>1. CASE settings.enabled
    BY <1>1, <2>1 DEF Call
  <2>2. CASE ~settings.enabled
    <3>1. /\ engine' = [engine EXCEPT !.status = "disabled"]
          /\ run' = [run EXCEPT !.count = @ + 1, !.status = "disabled"]
          /\ stopper' = stopper /\ cycle' = cycle /\ settings' = settings
      BY <1>1, <2>2 DEF Call
    <3> QED BY <3>1
  <2> QED BY <2>1, <2>2
<1>2. CASE Start
  <2>1. CASE engine.running
    BY <1>2, <2>1 DEF Start, Started, Goto
  <2>2. CASE ~engine.running
    BY <1>2, <2>2 DEF Start, Started, Goto
  <2> QED BY <2>1, <2>2
<1>3. CASE EngineStarted \/ Loop \/ Tick
  BY <1>3 DEF EngineStarted, Loop, Tick, Goto
<1>4. CASE RequestStop \/ ClearRunning
  BY <1>4 DEF RequestStop, ClearRunning, Cleared
<1>5. CASE CycleCompleted
  BY <1>5 DEF CycleCompleted, NewCycle, CycleStatus, Goto
<1>6. CASE Except
  BY <1>6 DEF Except, Stopped, Cleared
<1>8. CASE Finally
  BY <1>8 DEF Finally, Stopped, Cleared
<1>7. CASE EngineStopped \/ Export
  BY <1>7 DEF EngineStopped, Export, Publish, Goto
<1> QED BY <1>1, <1>2, <1>3, <1>4, <1>5, <1>6, <1>7, <1>8

\* The steps within a cycle.
LEMMA WithinSteps ==
  HistInv /\ (Market \/ MarketClosed \/ Poll \/ Monitor \/ Pick \/ Dispatch \/ UpdateResults
                \/ SnapshotUpdated \/ AlertGenerated \/ Fail \/ ProviderError)
    => HistInv'
<1> SUFFICES ASSUME HistInv,
                    Market \/ MarketClosed \/ Poll \/ Monitor \/ Pick \/ Dispatch
                      \/ UpdateResults \/ SnapshotUpdated \/ AlertGenerated \/ Fail
                      \/ ProviderError
             PROVE  Still /\ Shape'
  BY StillStep
<1> USE DEF HistInv, Counted, Shape, Still, InCycle, CycleStatus
<1>1. CASE Market
  BY <1>1 DEF Market, Goto
<1>2. CASE MarketClosed \/ SnapshotUpdated \/ AlertGenerated
  BY <1>2 DEF MarketClosed, SnapshotUpdated, AlertGenerated, Publish, Goto
<1>3. CASE Poll
  BY <1>3 DEF Poll, Goto
<1>4. CASE Monitor
  BY <1>4 DEF Monitor, Goto
<1>5. CASE Pick
  BY <1>5 DEF Pick, Goto
<1>6. CASE Dispatch
  BY <1>6 DEF Dispatch, Goto
<1>7. CASE UpdateResults
  BY <1>7 DEF UpdateResults, Goto
<1>8. CASE Fail \/ ProviderError
  BY <1>8 DEF Fail, ProviderError, Goto
<1> QED BY <1>1, <1>2, <1>3, <1>4, <1>5, <1>6, <1>7, <1>8

\* A cycle begins: what was done stays done.
LEMMA BeginKeeps == HistInv /\ BeginCycle => HistInv'
<1> SUFFICES ASSUME HistInv, BeginCycle PROVE HistInv'
  OBVIOUS
<1> USE DEF BeginCycle, Goto
<1>1. /\ engine'.counter = engine.counter + 1 /\ engine'.history = engine.history
      /\ run.pc = "cycle" /\ run'.pc = "cycle_started" /\ Shape'
  BY DEF HistInv, Shape
<1>2. Done' = Done /\ Quiet' = Quiet
  BY <1>1 DEF HistInv, Counted, Done, Quiet, InCycle
<1>3. Counted'
  BY <1>1 DEF HistInv, Counted, NewCycle, CycleStatus
<1>4. Past'
  BY <1>1, <1>2 DEF HistInv, Past
<1>5. HistoryKeepsEveryCycle'
  BY <1>1 DEF HistInv, Counted, HistoryKeepsEveryCycle, InCycle
<1> QED
  BY <1>1, <1>3, <1>4, <1>5 DEF HistInv

\* Only a subscriber that raises on cycle_started makes a cycle end unrecorded.
LEMMA CycleStartedKeeps == HistInv /\ CycleStarted => HistInv'
<1> SUFFICES ASSUME HistInv, CycleStarted PROVE HistInv'
  OBVIOUS
<1> USE DEF CycleStarted, Publish, Goto
<1>1. CASE run' = [run EXCEPT !.pc = "market"]
  <2>1. Still /\ Shape'
    BY <1>1 DEF HistInv, Counted, Shape, Still, InCycle
  <2> QED BY <2>1, StillStep
<1>2. CASE run' = [run EXCEPT !.pc = "except"] /\ ~Quiet
  <2>1. /\ Shape' /\ Counted' /\ Done' = Done + 1 /\ Done \in Nat /\ ~Quiet'
        /\ engine' = engine
    BY <1>2 DEF HistInv, Counted, Shape, InCycle, Done, Quiet
  <2>2. Past'
    <3>1. \A i \in DOMAIN engine.history : engine.history[i] \in Recorded
      BY DEF HistInv, Counted
    <3>2. \A i \in DOMAIN engine.history : engine.history[i].id \in Nat
      BY <3>1 DEF Recorded
    <3> QED
      BY <2>1, <3>2 DEF HistInv, Past
  <2>3. HistoryKeepsEveryCycle'
    BY <2>1 DEF HistInv, HistoryKeepsEveryCycle, Quiet
  <2> QED
    BY <2>1, <2>2, <2>3 DEF HistInv
<1> QED
  BY <1>1, <1>2 DEF Quiet

\* The record of a cycle is newer than the others; the oldest make room.
LEMMA RecordKeeps == HistInv /\ RecordCycle => HistInv'
<1> SUFFICES ASSUME HistInv, RecordCycle PROVE HistInv'
  OBVIOUS
<1> DEFINE h == engine.history
           long == Append(h, [id |-> cycle.id, status |-> cycle.status])
           drop == IF Len(long) > MaxHistory THEN Len(long) - MaxHistory ELSE 0
<1>1. /\ engine' = [engine EXCEPT !.history = Newest(long, MaxHistory)]
      /\ run.pc = "record" /\ run' = [run EXCEPT !.pc = "cycle_completed"]
      /\ UNCHANGED <<settings, cycle, stopper>>
  BY DEF RecordCycle, Goto
<1>2. /\ Shape' /\ engine'.history = Newest(long, MaxHistory)
      /\ engine'.counter = engine.counter /\ run'.pc = "cycle_completed"
  BY <1>1 DEF HistInv, Shape
<1>3. /\ engine.counter \in Nat /\ engine.counter > 0 /\ cycle.id = engine.counter
      /\ Done = engine.counter - 1 /\ Done' = engine.counter /\ Quiet' = Quiet
  BY <1>1, <1>2 DEF HistInv, Counted, InCycle, Done, Quiet
<1>4. /\ h \in Seq(Recorded) /\ Len(h) \in Nat /\ long \in Seq(Recorded)
      /\ Len(long) = Len(h) + 1
      /\ \A i \in 1..Len(h) : long[i] = h[i]
      /\ long[Len(h) + 1] = [id |-> cycle.id, status |-> cycle.status]
  BY <1>3 DEF HistInv, Counted, Recorded
<1>5. /\ Newest(long, MaxHistory) \in Seq(Recorded)
      /\ Len(Newest(long, MaxHistory)) = Len(long) - drop
      /\ \A i \in 1 .. Len(long) - drop : Newest(long, MaxHistory)[i] = long[drop + i]
  BY <1>4, NewestProperties, RealtimeAssumption
<1>6. /\ \A i \in 1..Len(h) : h[i].id \in Nat /\ h[i].id < engine.counter
      /\ long[Len(h) + 1].id = engine.counter
      /\ \A i, j \in 1..Len(h) : i < j => h[i].id < h[j].id
  <2>1. DOMAIN h = 1..Len(h) /\ \A i \in 1..Len(h) : h[i] \in Recorded
    BY <1>4
  <2>2. \A i \in 1..Len(h) : h[i].id \in Nat /\ h[i].id < engine.counter
    <3>1. \A i \in 1..Len(h) : h[i].id \in Nat /\ h[i].id <= engine.counter - 1
      BY <2>1, <1>3 DEF HistInv, Past, Recorded
    <3> QED
      BY <3>1, <1>3
  <2>3. long[Len(h) + 1].id = engine.counter
    BY <1>3, <1>4
  <2>4. \A i, j \in 1..Len(h) : i < j => h[i].id < h[j].id
    BY <2>1, HistoryForm DEF HistInv
  <2> QED
    BY <2>2, <2>3, <2>4
<1>full. ASSUME Quiet
      PROVE  /\ Len(h) = IF engine.counter - 1 < MaxHistory
                         THEN engine.counter - 1 ELSE MaxHistory
             /\ \A i \in 1..Len(h) : h[i].id = engine.counter - 1 - Len(h) + i
  <2>1. DOMAIN h = 1..Len(h)
    BY <1>4
  <2> QED
    BY <1>full, <1>3, <2>1, HistoryForm DEF HistInv
<1> HIDE DEF h, long
<1>7. \A i, j \in 1..Len(long) : i < j => long[i].id < long[j].id
  BY <1>4, <1>6
<1>8. ASSUME Quiet
      PROVE  \A i \in 1..Len(long) : long[i].id = engine.counter - Len(long) + i
  <2>1. \A i \in 1..Len(h) : h[i].id = engine.counter - 1 - Len(h) + i
    BY <1>8, <1>full
  <2>2. ASSUME NEW i \in 1..Len(h)
        PROVE  long[i].id = engine.counter - Len(long) + i
    <3>1. long[i] = h[i] /\ h[i].id = engine.counter - 1 - Len(h) + i
      BY <2>1, <1>4
    <3>2. engine.counter - 1 - Len(h) + i = engine.counter - Len(long) + i
      BY <1>3, <1>4
    <3> QED
      BY <3>1, <3>2
  <2>3. long[Len(long)].id = engine.counter - Len(long) + Len(long)
    BY <1>3, <1>4, <1>6
  <2>4. \A i \in 1..Len(long) : i \in 1..Len(h) \/ i = Len(long)
    BY <1>4
  <2> QED
    BY <2>2, <2>3, <2>4
<1>9. ASSUME NEW i \in 1..Len(long)
      PROVE  long[i].id <= engine.counter
  <2>1. CASE i = Len(h) + 1
    BY <1>3, <1>6, <2>1
  <2>2. CASE i \in 1..Len(h)
    BY <1>3, <1>4, <1>6, <2>2
  <2>3. i \in 1..Len(h) \/ i = Len(h) + 1
    BY <1>4
  <2> QED
    BY <2>1, <2>2, <2>3
<1>10. drop \in Nat /\ drop < Len(long) /\ Len(long) \in Nat
  BY <1>4, RealtimeAssumption
<1>11. DOMAIN engine'.history = 1 .. Len(long) - drop
       /\ Len(engine'.history) = Len(long) - drop
       /\ \A i \in 1 .. Len(long) - drop :
            engine'.history[i] = long[drop + i] /\ drop + i \in 1..Len(long)
  BY <1>2, <1>5, <1>10
<1>12. Counted' /\ Past'
  <2>1. Counted'
    BY <1>1, <1>2, <1>3, <1>5 DEF HistInv, Counted, InCycle
  <2>2. Past'
    BY <1>3, <1>9, <1>11 DEF Past
  <2> QED BY <2>1, <2>2
<1>13. ASSUME Quiet
       PROVE  Len(engine'.history) = IF engine.counter < MaxHistory
                                     THEN engine.counter ELSE MaxHistory
  <2>1. Len(h) = IF engine.counter - 1 < MaxHistory THEN engine.counter - 1 ELSE MaxHistory
    BY <1>13, <1>full
  <2>2. Len(engine'.history) = Len(long) - drop /\ Len(long) = Len(h) + 1
    BY <1>4, <1>11
  <2>3. engine.counter \in Nat /\ engine.counter > 0 /\ Len(h) \in Nat
    BY <1>3, <1>4
  <2> QED
    BY <2>1, <2>2, <2>3, RealtimeAssumption
<1> HIDE DEF drop
<1>14. \A i, j \in 1 .. Len(long) - drop :
         i < j => engine'.history[i].id < engine'.history[j].id
  <2> TAKE i, j \in 1 .. Len(long) - drop
  <2>1. engine'.history[i] = long[drop + i] /\ engine'.history[j] = long[drop + j]
    BY <1>11
  <2>2. /\ drop + i \in 1..Len(long) /\ drop + j \in 1..Len(long)
        /\ i < j => drop + i < drop + j
    BY <1>10
  <2>3. i < j => long[drop + i].id < long[drop + j].id
    BY <1>7, <2>2
  <2> QED
    BY <2>1, <2>3
<1>15. ASSUME Quiet
       PROVE  \A i \in 1 .. Len(long) - drop :
                engine'.history[i].id = engine.counter - Len(engine'.history) + i
  <2> TAKE i \in 1 .. Len(long) - drop
  <2>1. engine'.history[i] = long[drop + i] /\ Len(engine'.history) = Len(long) - drop
    BY <1>11
  <2>2. drop + i \in 1..Len(long)
    BY <1>10
  <2>3. long[drop + i].id = engine.counter - Len(long) + (drop + i)
    BY <1>8, <1>15, <2>2
  <2> QED
    BY <2>1, <2>3, <1>3, <1>10
<1>16. HistoryKeepsEveryCycle'
  <2>1. run'.pc \notin InCycle
    BY <1>2 DEF InCycle
  <2> QED
    BY <1>1, <1>2, <1>11, <1>13, <1>14, <1>15, <2>1
    DEF HistoryKeepsEveryCycle, Quiet
<1> QED
  BY <1>2, <1>12, <1>16 DEF HistInv

\* A new engine has a new history.
LEMMA RenewKeeps == HistInv /\ Renew => HistInv'
<1> SUFFICES ASSUME HistInv, Renew PROVE HistInv'
  OBVIOUS
<1>1. /\ engine' = NewEngine /\ run.pc = "idle" /\ UNCHANGED <<settings, cycle>>
      /\ run' = [run EXCEPT !.entered = FALSE]
      /\ stopper' = [stopper EXCEPT !.pc = "idle", !.late = 0]
  BY DEF Renew
<1>2. /\ engine'.history = <<>> /\ engine'.counter = 0 /\ run'.pc = "idle"
  BY <1>1 DEF HistInv, Shape, NewEngine
<1>3. Shape'
  BY <1>1 DEF HistInv, Shape, NewEngine
<1>4. Counted'
  BY <1>1, <1>2 DEF HistInv, Counted, InCycle
<1>5. Past' /\ HistoryKeepsEveryCycle'
  BY <1>2, RealtimeAssumption DEF Past, HistoryKeepsEveryCycle, InCycle
<1> QED
  BY <1>3, <1>4, <1>5 DEF HistInv

LEMMA HistNext == HistInv /\ [Next]_vars => HistInv'
<1> SUFFICES ASSUME HistInv, [Next]_vars PROVE HistInv'
  OBVIOUS
<1>1. CASE UNCHANGED vars
  BY <1>1 DEF vars, HistInv, Shape, Counted, Past, Done, HistoryKeepsEveryCycle
<1>2. CASE Next
  BY <1>2, OutsideSteps, WithinSteps, BeginKeeps, CycleStartedKeeps, RecordKeeps, RenewKeeps
     DEF Next, Runner
<1> QED BY <1>1, <1>2

\* For every configuration and every number of runs and faults, the state store
\* keeps the newest cycles that passed cycle_started, in order and once each.
THEOREM HistorySafety == Spec => []HistoryKeepsEveryCycle
<1>1. HistInv => HistoryKeepsEveryCycle
  BY DEF HistInv
<1> QED BY <1>1, HistInit, HistNext, PTL DEF Spec

-----------------------------------------------------------------------------
(* Members of a sequence at some of its places                              *)

\* Each of them is at a place of its own.
LEMMA ThoseAreThere ==
  ASSUME NEW T, NEW s, NEW P \in SUBSET Int, IsFiniteSet(P), \A i \in P : s[i] \in T
  PROVE  /\ Those(s, P) \in Seq(T)
         /\ \A n \in DOMAIN Those(s, P) : \E i \in P : Those(s, P)[n] = s[i]
         /\ \A n, m \in DOMAIN Those(s, P) : n # m =>
              \E i, k \in P : i # k /\ Those(s, P)[n] = s[i] /\ Those(s, P)[m] = s[k]
<1> DEFINE c == Cardinality(P)
           f == Those(s, P)
<1>1. f = Placed(s, P)
  BY DEF Those, Placed
<1>2. /\ c \in Nat
      /\ \E h \in [1 .. c -> P] :
           /\ \A n \in 1 .. c : Placed(s, P)[n] = s[h[n]]
           /\ \A n, m \in 1 .. c : n < m => h[n] < h[m]
           /\ \A i \in P : \E n \in 1 .. c : h[n] = i
  BY AtPlaces
<1>3. Placed(s, P) \in [1 .. c -> T]
  BY PlacedIn
<1> HIDE DEF c, f
<1>4. PICK h \in [1 .. c -> P] :
        /\ \A n \in 1 .. c : f[n] = s[h[n]] /\ h[n] \in P
        /\ \A n, m \in 1 .. c : n < m => h[n] < h[m]
        /\ \A i \in P : \E n \in 1 .. c : h[n] = i
  BY <1>1, <1>2
<1>5. f \in Seq(T) /\ DOMAIN f = 1 .. c
  <2>1. f \in [1 .. c -> T] /\ c \in Nat
    BY <1>1, <1>2, <1>3
  <2> QED
    BY <2>1
<1>6. \A n, m \in 1 .. c : n # m => h[n] # h[m]
  <2> SUFFICES ASSUME NEW n \in 1 .. c, NEW m \in 1 .. c, n # m PROVE h[n] # h[m]
    OBVIOUS
  <2>1. (n < m \/ m < n) /\ h[n] \in Int /\ h[m] \in Int
    <3>1. h[n] \in P /\ h[m] \in P
      BY <1>4
    <3>2. c \in Nat /\ \A x \in P : x \in Int
      BY <1>2
    <3>3. n < m \/ m < n
      BY <3>2
    <3> QED
      BY <3>1, <3>2, <3>3
  <2>2. \A x, y \in Int : x < y => x # y
    OBVIOUS
  <2>3. (n < m => h[n] < h[m]) /\ (m < n => h[m] < h[n])
    BY <1>4
  <2> QED
    BY <2>1, <2>2, <2>3
<1>7. \A n, m \in 1 .. c : n # m => \E i, k \in P : i # k /\ f[n] = s[i] /\ f[m] = s[k]
  <2> SUFFICES ASSUME NEW n \in 1 .. c, NEW m \in 1 .. c, n # m
               PROVE  \E i, k \in P : i # k /\ f[n] = s[i] /\ f[m] = s[k]
    OBVIOUS
  <2>1. h[n] \in P /\ h[m] \in P /\ f[n] = s[h[n]] /\ f[m] = s[h[m]]
    BY <1>4
  <2>2. h[n] # h[m]
    BY <1>6
  <2> QED
    BY <2>1, <2>2
<1>8. \A n \in 1 .. c : \E i \in P : f[n] = s[i]
  BY <1>4
<1> QED
  BY <1>5, <1>7, <1>8 DEF f

LEMMA ThoseAre ==
  ASSUME NEW T, NEW s \in Seq(T), NEW P \in SUBSET (DOMAIN s)
  PROVE  /\ Those(s, P) \in Seq(T)
         /\ \A n \in DOMAIN Those(s, P) : \E i \in P : Those(s, P)[n] = s[i]
         /\ \A n, m \in DOMAIN Those(s, P) : n # m =>
              \E i, k \in P : i # k /\ Those(s, P)[n] = s[i] /\ Those(s, P)[m] = s[k]
<1>1. DOMAIN s = 1 .. Len(s) /\ Len(s) \in Nat /\ \A i \in DOMAIN s : s[i] \in T
  BY LenProperties
<1>2. P \in SUBSET Int /\ IsFiniteSet(P) /\ \A i \in P : s[i] \in T
  <2>1. IsFiniteSet(1 .. Len(s))
    BY <1>1, FS_Interval
  <2> QED
    BY <1>1, <2>1, FS_Subset
<1> QED
  BY <1>2, ThoseAreThere

-----------------------------------------------------------------------------
(* The alerts file                                                         *)

AllKeys == (UNION {Range(scan) : scan \in Scans}) \cup {REGIME_CHANGE}
Alerts == [key : AllKeys, at : Nat]

\* Two rows of one alert are a window apart.
Apart(r, s) == r.key = s.key => s.at - r.at >= MonitorWindow
Spaced(s) == \A i, j \in DOMAIN s : i < j => Apart(s[i], s[j])
Before(s, t) == \A i \in DOMAIN s, j \in DOMAIN t : Apart(s[i], t[j])
AtOnce(s) == \A i, j \in DOMAIN s : i # j => Apart(s[i], s[j])

\* The alert engine remembers the row or a later one of its key.
Marked(s) ==
  \A i \in DOMAIN s : s[i].key \in DOMAIN monitor.seen /\ s[i].at <= monitor.seen[s[i].key]

AlertTypes ==
  /\ run.alerts \in Seq(Alerts) /\ cycle.alerts \in Seq(Alerts)
  /\ cycle.generated \in Seq(Alerts) /\ file \in Seq(Alerts)
  /\ DOMAIN run = {"pc", "cycles", "alerts", "status", "raised", "entered", "count"}
  /\ DOMAIN cycle = {"id", "status", "alerts", "generated", "polled", "raising"}
  /\ DOMAIN monitor = {"regime", "seen"}
  /\ now \in Nat /\ monitor.seen \in [DOMAIN monitor.seen -> 0 .. now]
  /\ settings \in Settings

\* What the monitor has found may be sent and written.
Found ==
  run.pc \in {"pick", "dispatch"} =>
    /\ AtOnce(cycle.generated) /\ Marked(cycle.generated)
    /\ Before(run.alerts, cycle.generated)
    /\ ~settings.renew => Before(file, cycle.generated)

\* What the run has sent.
OfRun ==
  run.pc # "idle" =>
    /\ Spaced(run.alerts) /\ Spaced(cycle.alerts) /\ Before(run.alerts, cycle.alerts)
    /\ Marked(run.alerts) /\ Marked(cycle.alerts)

AfterSending == {"update", "snapshot_updated", "alert_generated", "fail", "provider_error",
                 "record", "cycle_completed"}
Sent == cycle.alerts # <<>> => run.pc \in AfterSending

\* The rows of another engine stay among those of this one until the run exports.
BeforeTheFirst == {"idle", "start", "engine_started"}
OnFile ==
  /\ ~settings.renew => Marked(file)
  /\ Spaced(file) \/ (settings.renew /\ settings.persist /\ run.pc \notin BeforeTheFirst)
  /\ settings.renew /\ settings.persist => ~run.raised

AlertInv == AlertTypes /\ Found /\ OfRun /\ Sent /\ OnFile

\* An engine that is used once writes its file at the end of every run.
UsedOnceExports ==
  \A s \in Settings : s.renew /\ s.persist =>
    s.continueOnError /\ ~s.disk /\ (s.bus => "engine_stopped" \notin s.faults)

LEMMA NoRows == \A s \in Seq(Alerts) : s = <<>> =>
                  /\ Spaced(s) /\ Marked(s) /\ AtOnce(s)
                  /\ \A t : Before(s, t) /\ Before(t, s)
<1>1. DOMAIN <<>> = {}
  OBVIOUS
<1> QED
  BY <1>1 DEF Spaced, Marked, AtOnce, Before

LEMMA AlertInit == Init => AlertInv
<1> SUFFICES ASSUME Init PROVE AlertInv
  OBVIOUS
<1>1. /\ run.alerts = <<>> /\ cycle.alerts = <<>> /\ cycle.generated = <<>> /\ file = <<>>
      /\ run.pc = "idle" /\ run.raised = FALSE /\ settings \in Settings /\ now = 0
      /\ monitor.seen = <<>>
      /\ DOMAIN run = {"pc", "cycles", "alerts", "status", "raised", "entered", "count"}
      /\ DOMAIN cycle = {"id", "status", "alerts", "generated", "polled", "raising"}
      /\ DOMAIN monitor = {"regime", "seen"}
  BY DEF Init, NewCycle, NewMonitor
<1>2. <<>> \in Seq(Alerts) /\ <<>> \in [DOMAIN <<>> -> 0 .. 0]
  OBVIOUS
<1>3. AlertTypes
  BY <1>1, <1>2 DEF AlertTypes
<1>4. Spaced(file) /\ Marked(file)
  BY <1>1, <1>2, NoRows
<1> QED
  BY <1>1, <1>3, <1>4 DEF AlertInv, Found, OfRun, Sent, OnFile

\* What most steps do about alerts: nothing, nor do they come to a place where
\* more is asked of them.
Leaves ==
  /\ run'.alerts = run.alerts /\ cycle'.alerts = cycle.alerts /\ file' = file
  /\ monitor' = monitor /\ now' = now /\ settings' = settings
  /\ DOMAIN run' = DOMAIN run /\ DOMAIN cycle' = DOMAIN cycle
  /\ cycle'.generated \in Seq(Alerts)
  /\ run'.raised => run.raised \/ ~(settings.renew /\ settings.persist)
  /\ run'.pc \in {"pick", "dispatch"} =>
       run.pc \in {"pick", "dispatch"} /\ cycle'.generated = cycle.generated
  /\ run'.pc # "idle" => run.pc # "idle"
  /\ run.pc \in AfterSending => cycle'.alerts = <<>> \/ run'.pc \in AfterSending
  /\ settings.renew /\ settings.persist /\ run'.pc \in BeforeTheFirst => run.pc \in BeforeTheFirst

LEMMA LeavesStep == AlertInv /\ Leaves => AlertInv'
<1> SUFFICES ASSUME AlertInv, Leaves PROVE AlertInv'
  OBVIOUS
<1>1. AlertTypes'
  BY DEF AlertInv, AlertTypes, Leaves
<1>2. Found'
  BY DEF AlertInv, Found, Leaves, Marked, AtOnce, Before, Apart
<1>3. OfRun'
  BY DEF AlertInv, OfRun, Leaves, Marked, Spaced, Before, Apart
<1>4. Sent'
  BY DEF AlertInv, Sent, Leaves, AfterSending
<1>5. OnFile'
  BY DEF AlertInv, OnFile, Leaves, Marked, Spaced, Apart
<1> QED
  BY <1>1, <1>2, <1>3, <1>4, <1>5 DEF AlertInv

\* The rows of a cycle after those of the run.
LEMMA Joined ==
  ASSUME NEW s \in Seq(Alerts), NEW t \in Seq(Alerts)
  PROVE  /\ s \o t \in Seq(Alerts)
         /\ Spaced(s) /\ Spaced(t) /\ Before(s, t) => Spaced(s \o t)
         /\ Marked(s) /\ Marked(t) => Marked(s \o t)
<1> DEFINE u == s \o t
<1>1. PICK a, b : a = Len(s) /\ b = Len(t)
  OBVIOUS
<1>2. /\ a \in Nat /\ b \in Nat /\ DOMAIN s = 1 .. a /\ DOMAIN t = 1 .. b
  BY <1>1, LenProperties
<1>3. /\ u \in Seq(Alerts) /\ Len(u) = a + b
      /\ \A i \in 1 .. a + b : u[i] = IF i <= a THEN s[i] ELSE t[i - a]
  BY <1>1, ConcatProperties
<1> HIDE DEF u
<1>4. DOMAIN u = 1 .. a + b
  BY <1>3, LenProperties
<1>5. \A i \in 1 .. a + b : \/ i \in 1 .. a /\ u[i] = s[i]
                            \/ i > a /\ i - a \in 1 .. b /\ u[i] = t[i - a]
  <2> TAKE i \in 1 .. a + b
  <2>1. CASE i <= a
    <3>1. i \in 1 .. a
      BY <1>2, <2>1
    <3> QED
      BY <1>3, <2>1, <3>1
  <2>2. CASE ~(i <= a)
    <3>1. i > a /\ i - a \in 1 .. b
      BY <1>2, <2>2
    <3> QED
      BY <1>3, <2>2, <3>1
  <2> QED
    BY <2>1, <2>2
<1>6. ASSUME Spaced(s), Spaced(t), Before(s, t) PROVE Spaced(u)
  <2> SUFFICES ASSUME NEW i \in 1 .. a + b, NEW k \in 1 .. a + b, i < k
               PROVE  Apart(u[i], u[k])
    BY <1>4 DEF Spaced
  <2>1. CASE k \in 1 .. a /\ u[k] = s[k]
    <3>1. i \in 1 .. a /\ u[i] = s[i]
      <4>1. ~(i > a)
        BY <1>2, <2>1
      <4> QED
        BY <1>5, <4>1
    <3> QED
      BY <1>2, <1>6, <2>1, <3>1 DEF Spaced
  <2>2. CASE k > a /\ k - a \in 1 .. b /\ u[k] = t[k - a]
    <3>1. CASE i \in 1 .. a /\ u[i] = s[i]
      BY <1>2, <1>6, <2>2, <3>1 DEF Before
    <3>2. CASE i > a /\ i - a \in 1 .. b /\ u[i] = t[i - a]
      <4>1. i - a < k - a
        BY <1>2
      <4> QED
        BY <1>2, <1>6, <2>2, <3>2, <4>1 DEF Spaced
    <3> QED
      BY <1>5, <3>1, <3>2
  <2> QED
    BY <1>5, <2>1, <2>2
<1>7. ASSUME Marked(s), Marked(t) PROVE Marked(u)
  BY <1>2, <1>4, <1>5, <1>7 DEF Marked
<1> QED
  BY <1>3, <1>6, <1>7 DEF u

\* Rows picked from others that are a window apart.
LEMMA ThoseKeep ==
  ASSUME NEW s \in Seq(Alerts), NEW P \in SUBSET (DOMAIN s)
  PROVE  /\ Those(s, P) \in Seq(Alerts)
         /\ AtOnce(s) => Spaced(Those(s, P))
         /\ Marked(s) => Marked(Those(s, P))
         /\ \A r : Before(r, s) => Before(r, Those(s, P))
<1> DEFINE f == Those(s, P)
<1>1. /\ f \in Seq(Alerts)
      /\ \A n \in DOMAIN f : \E i \in P : f[n] = s[i]
      /\ \A n, m \in DOMAIN f : n # m => \E i, k \in P : i # k /\ f[n] = s[i] /\ f[m] = s[k]
  BY ThoseAre
<1> HIDE DEF f
<1>2. AtOnce(s) => Spaced(f)
  <2> SUFFICES ASSUME AtOnce(s), NEW n \in DOMAIN f, NEW m \in DOMAIN f, n < m
               PROVE  Apart(f[n], f[m])
    BY DEF Spaced
  <2>1. n # m
    <3>1. DOMAIN f = 1 .. Len(f)
      BY <1>1, LenProperties
    <3>2. n \in Int
      BY <3>1
    <3>3. ~(n < n)
      BY <3>2
    <3> QED
      BY <3>3
  <2> QED
    BY <1>1, <2>1 DEF AtOnce
<1>3. Marked(s) => Marked(f)
  BY <1>1 DEF Marked
<1>4. \A r : Before(r, s) => Before(r, f)
  BY <1>1 DEF Before
<1> QED
  BY <1>1, <1>2, <1>3, <1>4 DEF f

\* The alerts of a run of the monitor.
LEMMA FoundAre ==
  ASSUME now \in Nat, NEW keys \in Seq(AllKeys)
  PROVE  \E found \in Seq(Alerts) :
           /\ found = [i \in DOMAIN keys |-> [key |-> keys[i], at |-> now]]
           /\ DOMAIN found = DOMAIN keys
           /\ \A i \in DOMAIN keys : found[i].key = keys[i] /\ found[i].at = now
<1> DEFINE found == [i \in DOMAIN keys |-> [key |-> keys[i], at |-> now]]
<1>1. /\ DOMAIN keys = 1 .. Len(keys) /\ Len(keys) \in Nat
      /\ \A i \in DOMAIN keys : keys[i] \in AllKeys
  BY LenProperties
<1>2. /\ DOMAIN found = DOMAIN keys
      /\ \A i \in DOMAIN keys : found[i] \in Alerts
      /\ \A i \in DOMAIN keys : found[i].key = keys[i] /\ found[i].at = now
  BY <1>1 DEF Alerts
<1>3. found \in Seq(Alerts)
  <2>1. found \in [1 .. Len(keys) -> Alerts]
    BY <1>1, <1>2
  <2> QED
    BY <1>1, <2>1
<1> QED
  BY <1>2, <1>3

\* What a run of the monitor lets through, and what it remembers.
LEMMA KeptAreApart ==
  ASSUME AlertTypes, NEW keys \in Seq(AllKeys),
         NEW kept, kept = Kept(keys, monitor.seen, MonitorWindow, now),
         NEW marks, marks = Marks(keys, monitor.seen, MonitorWindow, now),
         NEW found \in Seq(Alerts), DOMAIN found = DOMAIN keys,
         \A i \in DOMAIN keys : found[i].key = keys[i] /\ found[i].at = now
  PROVE  /\ kept \in SUBSET (DOMAIN found)
         /\ Those(found, kept) \in Seq(Alerts)
         /\ AtOnce(Those(found, kept))
         /\ marks \in [DOMAIN marks -> 0 .. now]
         /\ \A n \in DOMAIN Those(found, kept) :
              LET g == Those(found, kept)[n]
              IN  /\ g.key \in DOMAIN marks /\ g.at <= marks[g.key]
                  /\ \A r \in Alerts : r.key \in DOMAIN monitor.seen /\ r.at <= monitor.seen[r.key]
                                         => Apart(r, g)
         /\ \A r \in Alerts : r.key \in DOMAIN monitor.seen /\ r.at <= monitor.seen[r.key]
                                => r.key \in DOMAIN marks /\ r.at <= marks[r.key]
<1> DEFINE seenAt == monitor.seen
           W == MonitorWindow
           g == Those(found, kept)
           marked == {keys[i] : i \in kept}
<1>1. /\ now \in Nat /\ seenAt \in [DOMAIN seenAt -> 0 .. now] /\ W \in Nat
  BY RealtimeAssumption DEF AlertTypes
<1>2. /\ DOMAIN keys = 1 .. Len(keys) /\ Len(keys) \in Nat
      /\ \A i \in DOMAIN keys : keys[i] \in AllKeys
  BY LenProperties
<1>3. /\ DOMAIN found = DOMAIN keys
      /\ \A i \in DOMAIN keys : found[i].key = keys[i] /\ found[i].at = now
  OBVIOUS
<1>5. /\ kept \in SUBSET (DOMAIN found)
      /\ \A i \in kept : W > 0 =>
           /\ ~(keys[i] \in DOMAIN seenAt /\ now - seenAt[keys[i]] < W)
           /\ \A j \in 1 .. i - 1 : keys[j] # keys[i]
  BY <1>3 DEF Kept, Recent
<1>6. /\ DOMAIN marks = DOMAIN seenAt \cup marked
      /\ \A key \in DOMAIN marks : marks[key] = IF key \in marked THEN now ELSE seenAt[key]
      /\ marks = [key \in DOMAIN marks |-> marks[key]]
  BY DEF Marks
<1>7. marks \in [DOMAIN marks -> 0 .. now]
  <2>1. now \in 0 .. now
    BY <1>1
  <2>2. \A key \in DOMAIN marks : marks[key] \in 0 .. now
    BY <1>1, <1>6, <2>1
  <2> QED
    BY <1>6, <2>2
<1>8. /\ g \in Seq(Alerts)
      /\ \A n \in DOMAIN g : \E i \in kept : g[n] = found[i]
      /\ \A n, m \in DOMAIN g : n # m => \E i, k \in kept : i # k /\ g[n] = found[i] /\ g[m] = found[k]
  BY <1>5, ThoseAre
<1> HIDE DEF g, marked, seenAt, W
<1>9. \A i, k \in kept : i # k => Apart(found[i], found[k])
  <2> SUFFICES ASSUME NEW i \in kept, NEW k \in kept, i # k, keys[i] = keys[k]
               PROVE  now - now >= W
    BY <1>3, <1>5 DEF Apart, W
  <2>1. i \in 1 .. Len(keys) /\ k \in 1 .. Len(keys)
    BY <1>2, <1>3, <1>5
  <2>2. i \in 1 .. k - 1 \/ k \in 1 .. i - 1
    BY <1>2, <2>1
  <2>3. ~(W > 0)
    BY <1>5, <2>2
  <2> QED
    BY <1>1, <2>3
<1>10. AtOnce(g)
  <2> SUFFICES ASSUME NEW n \in DOMAIN g, NEW m \in DOMAIN g, n # m
               PROVE  Apart(g[n], g[m])
    BY DEF AtOnce
  <2>1. PICK i \in kept, k \in kept : i # k /\ g[n] = found[i] /\ g[m] = found[k]
    BY <1>8
  <2>2. Apart(found[i], found[k])
    BY <1>9, <2>1
  <2> QED
    BY <2>1, <2>2, Zenon
<1>11. ASSUME NEW i \in kept
       PROVE  /\ found[i].key \in DOMAIN marks /\ found[i].at <= marks[found[i].key]
              /\ \A r \in Alerts : r.key \in DOMAIN seenAt /\ r.at <= seenAt[r.key]
                                     => Apart(r, found[i])
  <2>1. i \in DOMAIN keys /\ keys[i] \in marked
    BY <1>3, <1>5 DEF marked
  <2>2. found[i].key \in DOMAIN marks /\ found[i].at <= marks[found[i].key]
    <3>1. marks[keys[i]] = now /\ keys[i] \in DOMAIN marks /\ now <= now
      BY <1>1, <1>6, <2>1
    <3> QED
      BY <1>3, <2>1, <3>1
  <2>3. ASSUME NEW r \in Alerts, r.key \in DOMAIN seenAt, r.at <= seenAt[r.key], r.key = keys[i]
        PROVE  now - r.at >= W
    <3>1. seenAt[keys[i]] \in 0 .. now /\ r.at \in Nat /\ r.at <= seenAt[keys[i]]
      BY <1>1, <2>3 DEF Alerts
    <3>2. CASE W > 0
      <4>1. ~(now - seenAt[keys[i]] < W)
        BY <1>5, <2>3, <3>2
      <4> QED
        BY <1>1, <3>1, <4>1
    <3>3. CASE ~(W > 0)
      BY <1>1, <3>1, <3>3
    <3> QED
      BY <3>2, <3>3
  <2> QED
    BY <1>3, <2>1, <2>2, <2>3 DEF Apart, W
<1>12. ASSUME NEW r \in Alerts, r.key \in DOMAIN seenAt, r.at <= seenAt[r.key]
       PROVE  r.key \in DOMAIN marks /\ r.at <= marks[r.key]
  <2>1. seenAt[r.key] \in 0 .. now /\ r.at \in Nat
    BY <1>1, <1>12 DEF Alerts
  <2>2. r.at <= now
    BY <1>1, <1>12, <2>1
  <2>3. marks[r.key] = IF r.key \in marked THEN now ELSE seenAt[r.key]
    BY <1>6, <1>12
  <2> QED
    BY <1>6, <1>12, <2>2, <2>3
<1>13. \A n \in DOMAIN g :
         /\ g[n].key \in DOMAIN marks /\ g[n].at <= marks[g[n].key]
         /\ \A r \in Alerts : r.key \in DOMAIN seenAt /\ r.at <= seenAt[r.key] => Apart(r, g[n])
  <2> SUFFICES ASSUME NEW n \in DOMAIN g
               PROVE  /\ g[n].key \in DOMAIN marks /\ g[n].at <= marks[g[n].key]
                      /\ \A r \in Alerts : r.key \in DOMAIN seenAt /\ r.at <= seenAt[r.key]
                                             => Apart(r, g[n])
    OBVIOUS
  <2>1. PICK i \in kept : g[n] = found[i]
    BY <1>8
  <2> QED
    BY <1>11, <2>1, Zenon
<1> QED
  BY <1>5, <1>7, <1>8, <1>10, <1>12, <1>13 DEF g, seenAt

LEMMA GotoGoes ==
  ASSUME AlertTypes, NEW point, Goto(point)
  PROVE  /\ run'.pc = point /\ run'.alerts = run.alerts /\ run'.raised = run.raised
         /\ DOMAIN run' = DOMAIN run
BY DEF AlertTypes, Goto

LEMMA AlertsBeforeSending ==
  AlertInv /\ run.pc \notin AfterSending => cycle.alerts = <<>>
BY DEF AlertInv, Sent

\* The steps that leave the alerts alone.
QuietSteps ==
  \/ Start \/ EngineStarted \/ Loop \/ BeginCycle \/ CycleStarted \/ Market \/ MarketClosed
  \/ Poll \/ Pick \/ UpdateResults \/ SnapshotUpdated \/ AlertGenerated \/ Fail \/ ProviderError
  \/ RecordCycle \/ Except \/ EngineStopped \/ RequestStop \/ ClearRunning \/ UNCHANGED vars

LEMMA QuietStepsLeave ==
  ASSUME UsedOnceExports, AlertInv, QuietSteps PROVE Leaves
<1>1. /\ AlertTypes
      /\ \A point : Goto(point) => /\ run'.pc = point /\ run'.alerts = run.alerts
                                   /\ run'.raised = run.raised /\ DOMAIN run' = DOMAIN run
  BY GotoGoes DEF AlertInv
<1>2. /\ DOMAIN cycle = {"id", "status", "alerts", "generated", "polled", "raising"}
      /\ DOMAIN run = {"pc", "cycles", "alerts", "status", "raised", "entered", "count"}
      /\ cycle.generated \in Seq(Alerts)
  BY <1>1 DEF AlertTypes
<1>3. run.pc \notin AfterSending => cycle.alerts = <<>>
  BY AlertsBeforeSending
<1>4. settings.renew /\ settings.persist =>
        settings.continueOnError /\ (settings.bus => "engine_stopped" \notin settings.faults)
  BY <1>1 DEF AlertTypes, UsedOnceExports
<1>5. CASE Start
  BY <1>1, <1>2, <1>5 DEF Start, Leaves, AfterSending, BeforeTheFirst
<1>6. CASE EngineStarted
  <2>1. run' = [run EXCEPT !.pc = "loop", !.entered = TRUE] \/ Goto("idle")
    BY <1>6 DEF EngineStarted
  <2>2. /\ run'.pc \in {"loop", "idle"} /\ run'.alerts = run.alerts /\ run'.raised = run.raised
        /\ DOMAIN run' = DOMAIN run
    BY <1>1, <1>2, <2>1
  <2> QED
    BY <1>2, <1>6, <2>2 DEF EngineStarted, Leaves, AfterSending, BeforeTheFirst
<1>7. CASE Loop
  <2>1. run'.pc \in {"cycle", "finally"}
    BY <1>1, <1>7 DEF Loop
  <2> QED
    BY <1>1, <1>2, <1>7, <2>1 DEF Loop, Leaves, AfterSending, BeforeTheFirst
<1>8. CASE BeginCycle
  <2>1. /\ cycle'.alerts = <<>> /\ DOMAIN cycle' = DOMAIN cycle
        /\ cycle'.generated \in Seq(Alerts)
    BY <1>2, <1>8 DEF BeginCycle, NewCycle
  <2>2. cycle.alerts = <<>>
    BY <1>3, <1>8 DEF BeginCycle, AfterSending
  <2> QED
    BY <1>1, <1>8, <2>1, <2>2 DEF BeginCycle, Leaves, AfterSending, BeforeTheFirst
<1>9. CASE CycleStarted
  BY <1>1, <1>2, <1>9 DEF CycleStarted, Publish, Leaves, AfterSending, BeforeTheFirst
<1>10. CASE Market
  <2>1. /\ cycle'.alerts = cycle.alerts /\ DOMAIN cycle' = DOMAIN cycle
        /\ cycle'.generated = cycle.generated
    BY <1>2, <1>10 DEF Market
  <2>2. run'.pc \in {"market_closed", "record", "poll"}
    BY <1>1, <1>10 DEF Market
  <2>3. run'.alerts = run.alerts /\ run'.raised = run.raised /\ DOMAIN run' = DOMAIN run
    BY <1>1, <1>10 DEF Market
  <2> QED
    BY <1>2, <1>10, <2>1, <2>2, <2>3 DEF Market, Leaves, AfterSending, BeforeTheFirst
<1>11. CASE MarketClosed
  BY <1>1, <1>2, <1>11 DEF MarketClosed, Publish, Leaves, AfterSending, BeforeTheFirst
<1>12. CASE Poll
  <2>1. /\ cycle'.alerts = cycle.alerts /\ DOMAIN cycle' = DOMAIN cycle
        /\ cycle'.generated = cycle.generated
    BY <1>2, <1>12 DEF Poll
  <2>2. Goto("fail") \/ Goto("monitor")
    BY <1>12 DEF Poll
  <2> QED
    BY <1>1, <1>2, <1>12, <2>1, <2>2 DEF Poll, Leaves, AfterSending, BeforeTheFirst
<1>13. CASE Pick
  BY <1>1, <1>2, <1>13 DEF Pick, Leaves, AfterSending, BeforeTheFirst
<1>14. CASE UpdateResults
  <2>1. /\ cycle'.alerts = cycle.alerts /\ DOMAIN cycle' = DOMAIN cycle
        /\ cycle'.generated = cycle.generated
    BY <1>2, <1>14 DEF UpdateResults
  <2>2. run'.pc \in {"snapshot_updated", "record"}
    BY <1>1, <1>14 DEF UpdateResults
  <2> QED
    BY <1>1, <1>2, <1>14, <2>1, <2>2 DEF UpdateResults, Leaves, AfterSending, BeforeTheFirst
<1>15. CASE SnapshotUpdated
  <2>1. run'.pc \in {"alert_generated", "record", "fail"}
    BY <1>1, <1>15 DEF SnapshotUpdated, Publish
  <2> QED
    BY <1>1, <1>2, <1>15, <2>1
       DEF SnapshotUpdated, Publish, Leaves, AfterSending, BeforeTheFirst
<1>16. CASE AlertGenerated
  BY <1>1, <1>2, <1>16 DEF AlertGenerated, Publish, Leaves, AfterSending, BeforeTheFirst
<1>17. CASE Fail
  <2>1. /\ cycle'.alerts = cycle.alerts /\ DOMAIN cycle' = DOMAIN cycle
        /\ cycle'.generated = cycle.generated
    BY <1>2, <1>17 DEF Fail
  <2> QED
    BY <1>1, <1>2, <1>17, <2>1 DEF Fail, Leaves, AfterSending, BeforeTheFirst
<1>18. CASE ProviderError
  <2>1. /\ cycle'.alerts = cycle.alerts /\ DOMAIN cycle' = DOMAIN cycle
        /\ cycle'.generated = cycle.generated
    BY <1>2, <1>18 DEF ProviderError
  <2> QED
    BY <1>1, <1>2, <1>18, <2>1 DEF ProviderError, Leaves, AfterSending, BeforeTheFirst
<1>19. CASE RecordCycle
  BY <1>1, <1>2, <1>19 DEF RecordCycle, Leaves, AfterSending, BeforeTheFirst
<1>20. CASE Except
  <2>1. /\ run'.pc = "finally" /\ run'.alerts = run.alerts /\ DOMAIN run' = DOMAIN run
        /\ run'.raised = ~settings.continueOnError
    BY <1>2, <1>20 DEF Except
  <2> QED
    BY <1>2, <1>4, <1>20, <2>1 DEF Except, Leaves, AfterSending, BeforeTheFirst
<1>21. CASE EngineStopped
  <2>1. /\ run.pc = "engine_stopped"
        /\ \/ Goto("export")
           \/ Goto("idle") /\ settings.bus /\ "engine_stopped" \in settings.faults
    BY <1>21 DEF EngineStopped, Publish
  <2>2. /\ run'.pc \in {"export", "idle"}
        /\ run'.pc = "idle" => ~(settings.renew /\ settings.persist)
    BY <1>1, <1>4, <2>1
  <2>3. run'.alerts = run.alerts /\ run'.raised = run.raised /\ DOMAIN run' = DOMAIN run
    BY <1>1, <2>1
  <2> QED
    BY <1>2, <1>21, <2>1, <2>2, <2>3 DEF EngineStopped, Leaves, AfterSending, BeforeTheFirst
<1>22. CASE RequestStop
  BY <1>2, <1>22 DEF RequestStop, Leaves
<1>23. CASE ClearRunning
  BY <1>2, <1>23 DEF ClearRunning, Leaves
<1>24. CASE UNCHANGED vars
  BY <1>2, <1>24 DEF vars, Leaves
<1> QED
  BY <1>5, <1>6, <1>7, <1>8, <1>9, <1>10, <1>11, <1>12, <1>13, <1>14, <1>15, <1>16, <1>17,
     <1>18, <1>19, <1>20, <1>21, <1>22, <1>23, <1>24 DEF QuietSteps

\* A call of run() starts with no alerts.
LEMMA AlertsAtCall == ASSUME AlertInv, Call PROVE AlertInv'
<1> USE DEF AlertInv
<1>1. /\ run.pc = "idle" /\ settings' = settings /\ cycle' = cycle /\ monitor' = monitor
      /\ file' = file /\ now' = now
  BY DEF Call
<1>2. cycle.alerts = <<>>
  BY <1>1, AlertsBeforeSending DEF AfterSending
<1>3. CASE settings.enabled
  <2>1. /\ run'.pc = "start" /\ run'.alerts = <<>> /\ run'.raised = FALSE
        /\ DOMAIN run' = {"pc", "cycles", "alerts", "status", "raised", "entered", "count"}
    BY <1>3 DEF Call
  <2>2. AlertTypes'
    BY <1>1, <2>1 DEF AlertTypes
  <2>3. Found' /\ Sent'
    BY <1>1, <1>2, <2>1 DEF Found, Sent
  <2>4. <<>> \in Seq(Alerts)
    OBVIOUS
  <2>5. \A t : Spaced(<<>>) /\ Marked(<<>>) /\ Before(<<>>, t)
    BY <2>4, NoRows
  <2>6. OfRun'
    BY <1>1, <1>2, <2>1, <2>5 DEF OfRun, Marked
  <2>7. Spaced(file)
    BY <1>1 DEF OnFile, BeforeTheFirst
  <2>8. OnFile'
    BY <1>1, <2>1, <2>7 DEF OnFile, Marked
  <2> QED
    BY <2>2, <2>3, <2>6, <2>8
<1>4. CASE ~settings.enabled
  <2>1. /\ run'.pc = "idle" /\ run'.alerts = run.alerts /\ run'.raised = run.raised
        /\ DOMAIN run' = DOMAIN run
    BY <1>1, <1>4 DEF Call, AlertTypes
  <2>2. AlertTypes'
    BY <1>1, <2>1 DEF AlertTypes
  <2>3. Found' /\ Sent' /\ OfRun'
    BY <1>1, <1>2, <2>1 DEF Found, Sent, OfRun
  <2>4. OnFile'
    BY <1>1, <2>1 DEF OnFile, Marked
  <2> QED
    BY <2>2, <2>3, <2>4
<1> QED
  BY <1>3, <1>4

\* The monitor marks what it lets through.
LEMMA AlertsAtMonitor == ASSUME AlertInv, Monitor PROVE AlertInv'
<1> USE DEF AlertInv
<1>1. /\ run.pc = "monitor" /\ settings' = settings /\ file' = file /\ now' = now
  BY DEF Monitor
<1>2. cycle.alerts = <<>>
  BY <1>1, AlertsBeforeSending DEF AfterSending
<1>3. CASE Goto("fail") /\ UNCHANGED <<monitor, cycle>>
  <2>1. Leaves
    BY <1>1, <1>3, GotoGoes DEF Leaves, AlertTypes, AfterSending, BeforeTheFirst
  <2> QED
    BY <2>1, LeavesStep
<1>4. CASE ~(Goto("fail") /\ UNCHANGED <<monitor, cycle>>)
  <2>1. PICK scan, regime, keys :
          /\ scan \in Scans
          /\ keys = scan \o RegimeAlert(regime)
          /\ monitor' = [regime |-> IF regime = NONE THEN monitor.regime ELSE regime,
                         seen |-> Marks(keys, monitor.seen, MonitorWindow, now)]
          /\ cycle' = [cycle EXCEPT !.generated =
                         Those([i \in DOMAIN keys |-> [key |-> keys[i], at |-> now]],
                               Kept(keys, monitor.seen, MonitorWindow, now))]
          /\ Goto("pick")
    BY <1>4 DEF Monitor
  <2>2. keys \in Seq(AllKeys)
    <3>1. scan \in Seq(AllKeys)
      <4>1. scan \in Seq(Range(scan)) /\ Range(scan) \in SUBSET AllKeys
        BY <2>1, RealtimeAssumption DEF AllKeys
      <4>2. /\ DOMAIN scan = 1 .. Len(scan) /\ Len(scan) \in Nat
            /\ scan \in [1 .. Len(scan) -> Range(scan)]
        BY <4>1, LenProperties
      <4>3. scan \in [1 .. Len(scan) -> AllKeys]
        BY <4>1, <4>2
      <4> QED
        BY <4>2, <4>3
    <3>2. RegimeAlert(regime) \in Seq(AllKeys)
      <4>1. REGIME_CHANGE \in AllKeys
        BY DEF AllKeys
      <4>2. <<>> \in Seq(AllKeys) /\ <<REGIME_CHANGE>> \in Seq(AllKeys)
        BY <4>1
      <4> QED
        BY <4>2 DEF RegimeAlert
    <3> QED
      BY <2>1, <3>1, <3>2
  <2>3. now \in Nat
    BY DEF AlertTypes
  <2>4. PICK found \in Seq(Alerts) :
          /\ cycle' = [cycle EXCEPT !.generated =
                         Those(found, Kept(keys, monitor.seen, MonitorWindow, now))]
          /\ DOMAIN found = DOMAIN keys
          /\ \A i \in DOMAIN keys : found[i].key = keys[i] /\ found[i].at = now
    BY <2>1, <2>2, <2>3, FoundAre
  <2>5. PICK kept, marks, g :
          /\ kept = Kept(keys, monitor.seen, MonitorWindow, now)
          /\ marks = Marks(keys, monitor.seen, MonitorWindow, now)
          /\ g = Those(found, kept)
    OBVIOUS
  <2>6. /\ kept \in SUBSET (DOMAIN found)
        /\ g \in Seq(Alerts) /\ AtOnce(g) /\ marks \in [DOMAIN marks -> 0 .. now]
        /\ \A n \in DOMAIN g :
             /\ g[n].key \in DOMAIN marks /\ g[n].at <= marks[g[n].key]
             /\ \A r \in Alerts : r.key \in DOMAIN monitor.seen /\ r.at <= monitor.seen[r.key]
                                    => Apart(r, g[n])
        /\ \A r \in Alerts : r.key \in DOMAIN monitor.seen /\ r.at <= monitor.seen[r.key]
                               => r.key \in DOMAIN marks /\ r.at <= marks[r.key]
    BY <2>2, <2>4, <2>5, KeptAreApart DEF AlertTypes
  <2>7. /\ run'.pc = "pick" /\ run'.alerts = run.alerts /\ run'.raised = run.raised
        /\ DOMAIN run' = DOMAIN run
    BY <2>1, GotoGoes
  <2>8. monitor'.seen = marks /\ DOMAIN monitor' = {"regime", "seen"}
    BY <2>1, <2>5
  <2>9. /\ cycle'.generated = g /\ cycle'.alerts = cycle.alerts /\ DOMAIN cycle' = DOMAIN cycle
    <3>1. cycle' = [cycle EXCEPT !.generated = g]
      BY <2>4, <2>5
    <3> QED
      BY <3>1 DEF AlertTypes
  <2>10. /\ run.alerts \in Seq(Alerts) /\ file \in Seq(Alerts)
         /\ \A s \in Seq(Alerts) : \A i \in DOMAIN s : s[i] \in Alerts
    BY DEF AlertTypes
  <2>11. ASSUME NEW s \in Seq(Alerts), Marked(s) PROVE Before(s, g) /\ Marked(s)'
    <3>1. \A i \in DOMAIN s : /\ s[i] \in Alerts
                              /\ s[i].key \in DOMAIN monitor.seen
                              /\ s[i].at <= monitor.seen[s[i].key]
      BY <2>10, <2>11 DEF Marked
    <3>2. \A i \in DOMAIN s, n \in DOMAIN g : Apart(s[i], g[n])
      BY <2>6, <3>1
    <3>3. \A i \in DOMAIN s : s[i].key \in DOMAIN marks /\ s[i].at <= marks[s[i].key]
      BY <2>6, <3>1
    <3> QED
      BY <2>8, <3>2, <3>3 DEF Before, Marked
  <2>12. Marked(g)'
    BY <2>6, <2>8 DEF Marked
  <2>13. AlertTypes'
    BY <1>1, <2>6, <2>7, <2>8, <2>9 DEF AlertTypes
  <2>14. Spaced(run.alerts) /\ Marked(run.alerts)
    BY <1>1 DEF OfRun
  <2>15. Found'
    <3>1. Before(run.alerts, g)
      BY <2>10, <2>11, <2>14
    <3>2. ~settings.renew => Before(file, g)
      BY <2>10, <2>11 DEF OnFile
    <3> QED
      BY <1>1, <2>6, <2>7, <2>9, <2>12, <3>1, <3>2 DEF Found, Marked
  <2>16. Sent'
    BY <1>2, <2>9 DEF Sent
  <2>17. OfRun'
    <3>1. \A t : Spaced(<<>>) /\ Before(t, <<>>)
      <4>1. <<>> \in Seq(Alerts)
        OBVIOUS
      <4> QED
        BY <4>1, NoRows
    <3>2. cycle'.alerts = <<>> /\ run'.alerts = run.alerts /\ DOMAIN <<>> = {}
      BY <1>2, <2>7, <2>9
    <3>3. Spaced(run.alerts)' /\ Spaced(cycle.alerts)' /\ Before(run.alerts, cycle.alerts)'
      BY <2>14, <3>1, <3>2 DEF Spaced, Before, Apart
    <3>4. Marked(cycle.alerts)'
      BY <3>2 DEF Marked
    <3>5. Marked(run.alerts)'
      BY <2>10, <2>11, <2>14, <3>2 DEF Marked
    <3> QED
      BY <3>3, <3>4, <3>5 DEF OfRun
  <2>18. OnFile'
    <3>1. ~settings.renew => Marked(file)'
      BY <1>1, <2>10, <2>11 DEF OnFile, Marked
    <3> QED
      BY <1>1, <2>7, <3>1 DEF OnFile, Marked, BeforeTheFirst
  <2> QED
    BY <2>13, <2>15, <2>16, <2>17, <2>18
<1> QED
  BY <1>3, <1>4

\* The dispatcher sends what its own window lets through.
LEMMA AlertsAtDispatch == ASSUME AlertInv, Dispatch PROVE AlertInv'
<1> USE DEF AlertInv
<1>1. /\ run.pc = "dispatch" /\ settings' = settings /\ monitor' = monitor /\ now' = now
      /\ AlertTypes
  BY DEF Dispatch
<1>2. PICK rows, P : /\ P = Kept([i \in DOMAIN cycle.generated |-> cycle.generated[i].key],
                                 seen, DispatchWindow, now)
                     /\ rows = Those(cycle.generated, P)
  OBVIOUS
<1>3. cycle.generated \in Seq(Alerts) /\ run.alerts \in Seq(Alerts) /\ file \in Seq(Alerts)
  BY DEF AlertTypes
<1>4. P \in SUBSET (DOMAIN cycle.generated)
  BY <1>2 DEF Kept
<1>5. /\ rows \in Seq(Alerts)
      /\ AtOnce(cycle.generated) => Spaced(rows)
      /\ Marked(cycle.generated) => Marked(rows)
      /\ \A r : Before(r, cycle.generated) => Before(r, rows)
  BY <1>2, <1>3, <1>4, ThoseKeep
<1>6. /\ Spaced(rows) /\ Marked(rows) /\ Before(run.alerts, rows)
      /\ ~settings.renew => Before(file, rows)
  BY <1>1, <1>5 DEF Found
<1>7. CASE \/ Goto("update") /\ UNCHANGED <<file, cycle>>
           \/ Goto("fail") /\ UNCHANGED <<file, cycle>>
  <2>1. /\ run'.pc \in {"update", "fail"} /\ run'.alerts = run.alerts
        /\ run'.raised = run.raised /\ DOMAIN run' = DOMAIN run
    BY <1>1, <1>7, GotoGoes
  <2>2. Leaves
    BY <1>1, <1>3, <1>7, <2>1 DEF Leaves, AfterSending, BeforeTheFirst
  <2> QED
    BY <2>2, LeavesStep
<1>8. CASE /\ file' = IF settings.persist THEN file \o rows ELSE file
           /\ cycle' = [cycle EXCEPT !.alerts = rows]
           /\ Goto("update")
  <2>1. /\ run'.pc = "update" /\ run'.alerts = run.alerts
        /\ run'.raised = run.raised /\ DOMAIN run' = DOMAIN run
    BY <1>1, <1>8, GotoGoes
  <2>2. /\ cycle'.alerts = rows /\ cycle'.generated = cycle.generated
        /\ DOMAIN cycle' = DOMAIN cycle
    BY <1>8 DEF AlertTypes
  <2>3. /\ file \o rows \in Seq(Alerts)
        /\ Spaced(file) /\ Spaced(rows) /\ Before(file, rows) => Spaced(file \o rows)
        /\ Marked(file) /\ Marked(rows) => Marked(file \o rows)
    BY <1>3, <1>5, Joined
  <2>4. PICK joined : joined = file \o rows
    OBVIOUS
  <2>5. /\ joined \in Seq(Alerts)
        /\ Spaced(file) /\ Spaced(rows) /\ Before(file, rows) => Spaced(joined)
        /\ Marked(file) /\ Marked(rows) => Marked(joined)
        /\ file' = IF settings.persist THEN joined ELSE file
    BY <1>8, <2>3, <2>4
  <2>6. AlertTypes'
    BY <1>1, <1>5, <2>1, <2>2, <2>5 DEF AlertTypes
  <2>7. Found' /\ Sent'
    BY <2>1 DEF Found, Sent, AfterSending
  <2>8. OfRun'
    <3>1. Spaced(run.alerts) /\ Marked(run.alerts)
      BY <1>1 DEF OfRun
    <3> QED
      BY <1>1, <1>6, <2>1, <2>2, <3>1 DEF OfRun, Marked
  <2>9. OnFile'
    <3>1. ~settings.renew => Marked(file) /\ Spaced(file)
      BY DEF OnFile
    <3>2. ~settings.renew => Marked(file') /\ Spaced(file')
      BY <1>6, <2>5, <3>1
    <3>3. settings.renew /\ ~settings.persist => Spaced(file')
      BY <2>5 DEF OnFile
    <3>4. settings.renew /\ settings.persist => ~run'.raised /\ run'.pc \notin BeforeTheFirst
      BY <2>1 DEF OnFile, BeforeTheFirst
    <3> QED
      BY <1>1, <3>2, <3>3, <3>4 DEF OnFile, Marked
  <2> QED
    BY <2>6, <2>7, <2>8, <2>9
<1> QED
  BY <1>2, <1>7, <1>8 DEF Dispatch

\* The alerts of a cycle that ends are those of the run from then on.
LEMMA AlertsAtCompletion == ASSUME AlertInv, CycleCompleted PROVE AlertInv'
<1> USE DEF AlertInv
<1>1. /\ run.pc = "cycle_completed" /\ settings' = settings /\ monitor' = monitor /\ now' = now
      /\ file' = file /\ AlertTypes
  BY DEF CycleCompleted
<1>2. /\ cycle'.alerts = <<>> /\ cycle'.generated = <<>>
      /\ DOMAIN cycle' = {"id", "status", "alerts", "generated", "polled", "raising"}
      /\ <<>> \in Seq(Alerts)
  BY DEF CycleCompleted, NewCycle
<1>3. PICK joined : joined = run.alerts \o cycle.alerts
  OBVIOUS
<1>4. /\ run.alerts \in Seq(Alerts) /\ cycle.alerts \in Seq(Alerts)
  BY DEF AlertTypes
<1>5. /\ joined \in Seq(Alerts) /\ Spaced(joined) /\ Marked(joined)
      /\ Spaced(run.alerts) /\ Marked(run.alerts)
  <2>1. /\ Spaced(run.alerts) /\ Spaced(cycle.alerts) /\ Before(run.alerts, cycle.alerts)
        /\ Marked(run.alerts) /\ Marked(cycle.alerts)
    BY <1>1 DEF OfRun
  <2> QED
    BY <1>3, <1>4, <2>1, Joined
<1>6. /\ run'.pc \in {"loop", "except"} /\ run'.alerts \in {joined, run.alerts}
      /\ run'.raised = run.raised /\ DOMAIN run' = DOMAIN run
  <2>1. CASE Goto("except")
    BY <1>1, <2>1, GotoGoes
  <2>2. CASE ~Goto("except")
    <3>1. run' = [run EXCEPT !.pc = "loop", !.cycles = @ + 1, !.alerts = joined]
      BY <1>3, <2>2 DEF CycleCompleted
    <3> QED
      BY <1>1, <3>1 DEF AlertTypes
  <2> QED
    BY <2>1, <2>2
<1>7. AlertTypes'
  BY <1>1, <1>2, <1>4, <1>5, <1>6 DEF AlertTypes
<1>8. Found' /\ Sent'
  BY <1>2, <1>6 DEF Found, Sent
<1>9. OfRun'
  <2>1. /\ \A t : Spaced(<<>>) /\ Marked(<<>>) /\ Before(t, <<>>)
    BY <1>2, NoRows
  <2>2. Spaced(run'.alerts) /\ Marked(run'.alerts)
    BY <1>5, <1>6
  <2> QED
    BY <1>1, <1>2, <2>1, <2>2 DEF OfRun, Marked
<1>10. OnFile'
  BY <1>1, <1>6 DEF OnFile, Marked, BeforeTheFirst
<1> QED
  BY <1>7, <1>8, <1>9, <1>10

\* A run that raises ends without its alerts.
LEMMA AlertsAtTheEnd == ASSUME AlertInv, Finally PROVE AlertInv'
<1> USE DEF AlertInv
<1>1. /\ run.pc = "finally" /\ settings' = settings /\ monitor' = monitor /\ now' = now
      /\ file' = file /\ cycle' = cycle /\ AlertTypes
  BY DEF Finally
<1>2. cycle.alerts = <<>>
  BY <1>1, AlertsBeforeSending DEF AfterSending
<1>3. /\ run'.pc = IF run.raised THEN "idle" ELSE "engine_stopped"
      /\ run'.alerts = IF run.raised THEN <<>> ELSE run.alerts
      /\ run'.raised = run.raised /\ DOMAIN run' = DOMAIN run
  BY <1>1 DEF Finally, AlertTypes
<1>4. CASE ~run.raised
  <2>1. run'.pc = "engine_stopped" /\ run'.alerts = run.alerts
    BY <1>3, <1>4
  <2>2. cycle.generated \in Seq(Alerts)
    BY <1>1 DEF AlertTypes
  <2>3. Leaves
    BY <1>1, <1>2, <1>3, <2>1, <2>2 DEF Leaves, BeforeTheFirst
  <2> QED
    BY <2>3, LeavesStep
<1>5. CASE run.raised
  <2>1. run'.pc = "idle" /\ run'.alerts = <<>> /\ <<>> \in Seq(Alerts)
    BY <1>3, <1>5
  <2>2. AlertTypes'
    BY <1>1, <1>3, <2>1 DEF AlertTypes
  <2>3. Found' /\ Sent' /\ OfRun'
    BY <1>1, <1>2, <2>1 DEF Found, Sent, OfRun
  <2>4. OnFile'
    BY <1>1, <1>3, <1>5 DEF OnFile, Marked
  <2> QED
    BY <2>2, <2>3, <2>4
<1> QED
  BY <1>4, <1>5

\* The exporter writes the file anew.
LEMMA AlertsAtExport == ASSUME UsedOnceExports, AlertInv, Export PROVE AlertInv'
<1> USE DEF AlertInv
<1>1. /\ run.pc = "export" /\ settings' = settings /\ monitor' = monitor /\ now' = now
      /\ cycle' = cycle /\ AlertTypes
  BY DEF Export
<1>2. cycle.alerts = <<>>
  BY <1>1, AlertsBeforeSending DEF AfterSending
<1>3. /\ run'.pc = "idle" /\ run'.alerts = <<>> /\ run'.raised = run.raised
      /\ DOMAIN run' = DOMAIN run /\ <<>> \in Seq(Alerts)
  BY <1>1 DEF Export, AlertTypes
<1>4. settings.renew /\ settings.persist => ~settings.disk
  BY <1>1 DEF AlertTypes, UsedOnceExports
<1>5. \/ settings.persist /\ file' = run.alerts
      \/ ~(settings.renew /\ settings.persist) /\ file' = file
  BY <1>4 DEF Export, Exported
<1>6. /\ run.alerts \in Seq(Alerts) /\ file \in Seq(Alerts)
      /\ Spaced(run.alerts) /\ Marked(run.alerts)
  BY <1>1 DEF AlertTypes, OfRun
<1>7. AlertTypes'
  <2>1. file' \in Seq(Alerts)
    BY <1>5, <1>6
  <2> QED
    BY <1>1, <1>3, <2>1 DEF AlertTypes
<1>8. Found' /\ Sent' /\ OfRun'
  BY <1>1, <1>2, <1>3 DEF Found, Sent, OfRun
<1>9. OnFile'
  <2>1. Spaced(file')
    <3>1. ~(settings.renew /\ settings.persist) => Spaced(file)
      BY DEF OnFile
    <3> QED
      BY <1>5, <1>6, <3>1
  <2>2. ~settings.renew => Marked(file')
    <3>1. ~settings.renew => Marked(file)
      BY DEF OnFile
    <3> QED
      BY <1>5, <1>6, <3>1
  <2> QED
    BY <1>1, <1>3, <2>1, <2>2 DEF OnFile, Marked
<1> QED
  BY <1>7, <1>8, <1>9

\* A new engine has seen nothing; the file it finds is exported over.
LEMMA AlertsAtRenewal == ASSUME AlertInv, Renew PROVE AlertInv'
<1> USE DEF AlertInv
<1>1. /\ run.pc = "idle" /\ settings' = settings /\ now' = now /\ settings.renew
      /\ file' = file /\ cycle' = cycle /\ AlertTypes
  BY DEF Renew
<1>2. /\ run'.pc = run.pc /\ run'.alerts = run.alerts /\ run'.raised = run.raised
      /\ DOMAIN run' = DOMAIN run
  BY <1>1 DEF Renew, AlertTypes
<1>3. /\ monitor'.seen = <<>> /\ DOMAIN monitor' = {"regime", "seen"}
      /\ DOMAIN <<>> = {} /\ <<>> \in [{} -> 0 .. now]
  BY DEF Renew, NewMonitor
<1>4. AlertTypes'
  BY <1>1, <1>2, <1>3 DEF AlertTypes
<1>5. Found' /\ Sent' /\ OfRun'
  BY <1>1, <1>2 DEF Found, Sent, OfRun
<1>6. OnFile'
  BY <1>1, <1>2 DEF OnFile
<1> QED
  BY <1>4, <1>5, <1>6

LEMMA AlertsAtTick == ASSUME AlertInv, Tick PROVE AlertInv'
<1> USE DEF AlertInv
<1>1. /\ settings' = settings /\ run' = run /\ cycle' = cycle /\ monitor' = monitor
      /\ file' = file /\ now' = now + 1 /\ AlertTypes
  BY DEF Tick
<1>2. AlertTypes'
  <2>1. now \in Nat /\ monitor.seen \in [DOMAIN monitor.seen -> 0 .. now]
    BY <1>1 DEF AlertTypes
  <2>2. now + 1 \in Nat /\ 0 .. now \in SUBSET (0 .. now + 1)
    BY <2>1
  <2>3. monitor.seen \in [DOMAIN monitor.seen -> 0 .. now + 1]
    BY <2>1, <2>2
  <2> QED
    BY <1>1, <2>2, <2>3 DEF AlertTypes
<1>3. Found' /\ Sent' /\ OfRun' /\ OnFile'
  BY <1>1 DEF Found, Sent, OfRun, OnFile, Marked
<1> QED
  BY <1>2, <1>3

LEMMA AlertStep ==
  ASSUME UsedOnceExports, AlertInv, [Next]_vars PROVE AlertInv'
<1>1. CASE QuietSteps
  BY <1>1, QuietStepsLeave, LeavesStep
<1>2. CASE Call
  BY <1>2, AlertsAtCall
<1>3. CASE Monitor
  BY <1>3, AlertsAtMonitor
<1>4. CASE Dispatch
  BY <1>4, AlertsAtDispatch
<1>5. CASE CycleCompleted
  BY <1>5, AlertsAtCompletion
<1>6. CASE Finally
  BY <1>6, AlertsAtTheEnd
<1>7. CASE Export
  BY <1>7, AlertsAtExport
<1>8. CASE Renew
  BY <1>8, AlertsAtRenewal
<1>9. CASE Tick
  BY <1>9, AlertsAtTick
<1> QED
  BY <1>1, <1>2, <1>3, <1>4, <1>5, <1>6, <1>7, <1>8, <1>9 DEF Next, Runner, QuietSteps

\* When no run is in progress the alerts file holds no two rows of one alert
\* raised within the window of the alert engine: of every engine that is used
\* again, and of one that is used once if its runs write their file at the end.
THEOREM AlertsOnFileOnce ==
  ASSUME UsedOnceExports PROVE Spec => []FileHasEachAlertOnce
<1>1. Init => AlertInv
  BY AlertInit
<1>2. AlertInv /\ [Next]_vars => AlertInv'
  BY AlertStep
<1>3. AlertInv => FileHasEachAlertOnce
  <2> SUFFICES ASSUME AlertInv, run.pc = "idle", NEW i \in DOMAIN file, NEW j \in DOMAIN file,
                      i < j, file[i].key = file[j].key
               PROVE  file[j].at - file[i].at >= MonitorWindow
    BY DEF FileHasEachAlertOnce
  <2>1. Spaced(file)
    BY DEF AlertInv, OnFile, BeforeTheFirst
  <2> QED
    BY <2>1 DEF Spaced, Apart
<1> QED
  BY <1>1, <1>2, <1>3, PTL DEF Spec

-----------------------------------------------------------------------------
(* The preferences of the notifications                                    *)

\* The preferences there may be: the defaults, those a file starts with or a body
\* brings, and what the page makes of them.  None is a missing or a torn file.
ArePreferences(Prefs) ==
  /\ {NoPreferences, Torn, NoPrefsFile} \cap Prefs = {}
  /\ DefaultPreferences \in Prefs
  /\ \A p \in Prefs : [SafeDict(p) EXCEPT !.on = @ \cup {"telegram"}] \in Prefs
  /\ \A s \in NtSettings :
       /\ s.first \in Prefs \cup {NoPrefsFile, Torn}
       /\ \A r \in Callers :
            s.ops[r].kind = "put" => s.ops[r].prefs \in Prefs \cup {NoPreferences}

\* What a load would give now.
InFile == IF nt.file \in {NoPrefsFile, Torn} THEN DefaultPreferences ELSE nt.file

RequestOK(q, Prefs) ==
  /\ DOMAIN q = {"pc", "op", "prefs", "copy", "left", "results", "delivered"}
  /\ q.op.kind = "put" => q.op.prefs \in Prefs \cup {NoPreferences}
  /\ q.pc \in {"have", "open", "write"} => q.prefs \in Prefs
  /\ q.pc = "remember" => q.copy \in Prefs

NtType(Prefs) ==
  /\ DOMAIN nt = {"memory", "file", "disk", "restarts", "writers", "clean", "req"}
  /\ DOMAIN nt.req = Callers
  /\ \A r \in Callers : RequestOK(nt.req[r], Prefs)
  /\ nt.memory \in Prefs \cup {NoPreferences}
  /\ nt.file \in Prefs \cup {NoPrefsFile, Torn}
  /\ nt.writers = {r \in Callers : At(r, "write")}

\* As long as nothing has overlapped or failed: one update at most is under way, and
\* is what the memory holds; what was loaded for an empty memory is still in the
\* file; and a memory that is not empty holds what is in the file.
InStep ==
  /\ \A r \in Callers : At(r, "open") \/ At(r, "write") => nt.req[r].prefs = nt.memory
  /\ \A r, q \in Callers :
       (At(r, "open") \/ At(r, "write")) /\ (At(q, "open") \/ At(q, "write")) => r = q
  /\ \A r \in Callers :
       At(r, "remember") /\ nt.memory = NoPreferences => nt.req[r].copy = InFile
  /\ nt.memory # NoPreferences /\ ~Updating => nt.memory = InFile

NtInv(Prefs) ==
  /\ NtType(Prefs)
  /\ Updating => nt.memory # NoPreferences
  /\ nt.clean => InStep

\* What a step of request r leaves alone.
OnlyRequest(r) ==
  /\ DOMAIN nt' = DOMAIN nt /\ DOMAIN nt'.req = DOMAIN nt.req
  /\ DOMAIN nt'.req[r] = DOMAIN nt.req[r] /\ nt'.req[r].op = nt.req[r].op
  /\ \A q \in Callers \ {r} : nt'.req[q] = nt.req[q]

\* The service starts with an empty memory.
LEMMA NtInitInv == ASSUME NEW Prefs, ArePreferences(Prefs), NtInit PROVE NtInv(Prefs)
<1>1. PICK s \in NtSettings :
        nt = [memory |-> NoPreferences, file |-> s.first, disk |-> s.disk, restarts |-> 0,
              writers |-> {}, clean |-> TRUE, req |-> [r \in Callers |-> NewRequest(s.ops[r])]]
  BY DEF NtInit
<1>2. \A r \in Callers : nt.req[r] = NewRequest(s.ops[r])
  BY <1>1
<1>3. \A op : /\ NewRequest(op).pc = "start" /\ NewRequest(op).op = op
              /\ DOMAIN NewRequest(op) = {"pc", "op", "prefs", "copy", "left", "results",
                                          "delivered"}
  BY DEF NewRequest
<1>4. \A r \in Callers : nt.req[r].pc = "start"
  BY <1>2, <1>3
<1>5. NtType(Prefs)
  <2>1. \A r \in Callers : RequestOK(nt.req[r], Prefs)
    BY <1>2, <1>3 DEF RequestOK, ArePreferences
  <2>2. {r \in Callers : At(r, "write")} = {}
    BY <1>4 DEF At
  <2>3. /\ DOMAIN nt = {"memory", "file", "disk", "restarts", "writers", "clean", "req"}
        /\ DOMAIN nt.req = Callers /\ nt.memory = NoPreferences /\ nt.file = s.first
        /\ nt.writers = {}
    BY <1>1
  <2> QED
    BY <2>1, <2>2, <2>3 DEF NtType, ArePreferences
<1>6. ~Updating
  BY <1>4 DEF Updating, At
<1>7. InStep
  BY <1>1, <1>4 DEF InStep, At
<1> QED
  BY <1>5, <1>6, <1>7 DEF NtInv

\* The types after a step of one request.
LEMMA NtTypeStays ==
  ASSUME NEW Prefs, NtType(Prefs), NEW r \in Callers, OnlyRequest(r),
         nt'.req[r].pc \in {"have", "open", "write"} => nt'.req[r].prefs \in Prefs,
         nt'.req[r].pc = "remember" => nt'.req[r].copy \in Prefs,
         nt'.memory \in Prefs \cup {NoPreferences},
         nt'.file \in Prefs \cup {NoPrefsFile, Torn},
         \A q \in Callers : q \in nt'.writers <=>
           IF q = r THEN nt'.req[r].pc = "write" ELSE q \in nt.writers,
         nt'.writers \subseteq Callers
  PROVE  NtType(Prefs)'
<1>1. \A q \in Callers : RequestOK(nt.req[q], Prefs)'
  <2>1. RequestOK(nt.req[r], Prefs)'
    BY DEF NtType, RequestOK, OnlyRequest
  <2>2. \A q \in Callers \ {r} : RequestOK(nt.req[q], Prefs)'
    BY DEF NtType, RequestOK, OnlyRequest
  <2> QED
    BY <2>1, <2>2
<1>2. nt'.writers = {q \in Callers : At(q, "write")'}
  BY DEF NtType, OnlyRequest, At
<1> QED
  BY <1>1, <1>2 DEF NtType, OnlyRequest

\* A step of one request that touches neither the memory nor the file, and is not
\* about an update.
LEMMA QuietStep ==
  ASSUME NEW Prefs, ArePreferences(Prefs), NtInv(Prefs), NEW r \in Callers, OnlyRequest(r),
         nt'.memory = nt.memory, nt'.file = nt.file, nt'.writers = nt.writers,
         nt'.clean = nt.clean,
         nt.req[r].pc \notin {"open", "write"},
         nt'.req[r].pc \notin {"open", "write"},
         nt'.req[r].pc = "have" => nt'.req[r].prefs \in Prefs,
         nt'.req[r].pc = "remember" => nt'.req[r].copy = InFile
  PROVE  NtInv(Prefs)'
<1>1. NtType(Prefs)
  BY DEF NtInv
<1>2. InFile \in Prefs /\ InFile' = InFile
  BY <1>1 DEF InFile, NtType, ArePreferences
<1>3. NtType(Prefs)'
  <2>1. nt.writers \subseteq Callers /\ r \notin nt.writers
    BY <1>1 DEF NtType, At
  <2> QED
    BY <1>1, <1>2, <2>1, NtTypeStays DEF NtType
<1>4. \A q \in Callers : /\ At(q, "open")' <=> At(q, "open")
                         /\ At(q, "write")' <=> At(q, "write")
  BY DEF At, OnlyRequest
<1>5. Updating' <=> Updating
  BY <1>4 DEF Updating
<1>6. ASSUME InStep PROVE InStep'
  <2>1. \A q \in Callers : At(q, "open")' \/ At(q, "write")' => nt'.req[q].prefs = nt'.memory
    <3>1. \A q \in Callers : At(q, "open") \/ At(q, "write") => nt'.req[q] = nt.req[q]
      BY DEF OnlyRequest, At
    <3> QED
      BY <1>4, <1>6, <3>1 DEF InStep
  <2>2. \A q \in Callers :
          At(q, "remember")' /\ nt'.memory = NoPreferences => nt'.req[q].copy = InFile'
    BY <1>2, <1>6 DEF InStep, OnlyRequest, At
  <2> QED
    BY <1>2, <1>4, <1>5, <1>6, <2>1, <2>2 DEF InStep
<1> QED
  BY <1>3, <1>5, <1>6 DEF NtInv

\* Going on changes nothing but the place of the request.
LEMMA GoDoes ==
  ASSUME NEW Prefs, NtType(Prefs), NEW r \in Callers, NEW pc, Go(r, pc)
  PROVE  /\ OnlyRequest(r) /\ nt'.req[r].pc = pc /\ nt'.req[r].prefs = nt.req[r].prefs
         /\ nt'.memory = nt.memory /\ nt'.file = nt.file /\ nt'.writers = nt.writers
         /\ nt'.clean = nt.clean
BY DEF NtType, RequestOK, OnlyRequest, Go

\* A request that ends, or looks at the memory or the file.
LEMMA QuietGo ==
  ASSUME NEW Prefs, ArePreferences(Prefs), NtInv(Prefs), NEW r \in Callers, NEW pc, Go(r, pc),
         nt.req[r].pc \notin {"open", "write"},
         pc \notin {"open", "write", "have", "remember"}
  PROVE  NtInv(Prefs)'
<1>1. NtType(Prefs)
  BY DEF NtInv
<1> QED
  BY <1>1, GoDoes, QuietStep

LEMMA GetPreferencesKeeps ==
  ASSUME NEW Prefs, ArePreferences(Prefs), NtInv(Prefs), NEW r \in Callers, GetPreferences(r)
  PROVE  NtInv(Prefs)'
<1>1. NtType(Prefs) /\ nt.req[r].pc = "start"
  BY DEF NtInv, GetPreferences, At
<1>2. CASE nt.memory = NoPreferences
  BY <1>1, <1>2, QuietGo DEF GetPreferences
<1>3. CASE nt.memory # NoPreferences
  <2>1. nt' = [nt EXCEPT !.req[r].pc = "have", !.req[r].prefs = nt.memory]
    BY <1>3 DEF GetPreferences
  <2>2. /\ OnlyRequest(r) /\ nt'.req[r].pc = "have" /\ nt'.req[r].prefs = nt.memory
        /\ nt'.memory = nt.memory /\ nt'.file = nt.file /\ nt'.writers = nt.writers
        /\ nt'.clean = nt.clean
    BY <1>1, <2>1 DEF NtType, RequestOK, OnlyRequest
  <2>3. nt.memory \in Prefs
    BY <1>1, <1>3 DEF NtType
  <2> QED
    BY <1>1, <2>2, <2>3, QuietStep
<1> QED
  BY <1>2, <1>3

LEMMA LoadPreferencesKeeps ==
  ASSUME NEW Prefs, ArePreferences(Prefs), NtInv(Prefs), NEW r \in Callers, LoadPreferences(r)
  PROVE  NtInv(Prefs)'
<1>1. NtType(Prefs) /\ nt.req[r].pc = "load"
  BY DEF NtInv, LoadPreferences, At
<1>2. nt' = [nt EXCEPT !.req[r].pc = "remember", !.req[r].copy = InFile]
  BY DEF LoadPreferences, InFile
<1>3. /\ OnlyRequest(r) /\ nt'.req[r].pc = "remember" /\ nt'.req[r].copy = InFile
      /\ nt'.memory = nt.memory /\ nt'.file = nt.file /\ nt'.writers = nt.writers
      /\ nt'.clean = nt.clean
  BY <1>1, <1>2 DEF NtType, RequestOK, OnlyRequest
<1> QED
  BY <1>1, <1>3, QuietStep

\* What was loaded is remembered; where another update or load came between with
\* something else, nothing is said any more.
LEMMA RememberKeeps ==
  ASSUME NEW Prefs, ArePreferences(Prefs), NtInv(Prefs), NEW r \in Callers, Remember(r)
  PROVE  NtInv(Prefs)'
<1> DEFINE c == nt.req[r].copy
<1>1. NtType(Prefs) /\ nt.req[r].pc = "remember" /\ c \in Prefs
  BY DEF NtInv, Remember, At, NtType, RequestOK
<1>2. /\ OnlyRequest(r) /\ nt'.req[r].pc = "start"
      /\ nt'.memory = c /\ nt'.file = nt.file /\ nt'.writers = nt.writers
      /\ nt'.clean = (nt.clean /\ nt.memory \in {NoPreferences, c} /\ ~Updating)
  BY <1>1 DEF Remember, NtType, RequestOK, OnlyRequest
<1> HIDE DEF c
<1>3. NtType(Prefs)'
  <2>1. nt.writers \subseteq Callers /\ r \notin nt.writers
    BY <1>1 DEF NtType, At
  <2> QED
    BY <1>1, <1>2, <2>1, NtTypeStays DEF NtType
<1>4. c # NoPreferences
  BY <1>1 DEF ArePreferences
<1>5. \A q \in Callers : /\ At(q, "open")' <=> At(q, "open")
                         /\ At(q, "write")' <=> At(q, "write")
  BY <1>1, <1>2 DEF At, OnlyRequest
<1>6. Updating' <=> Updating
  BY <1>5 DEF Updating
<1>7. ASSUME nt'.clean PROVE InStep'
  <2>1. nt.clean /\ nt.memory \in {NoPreferences, c} /\ ~Updating
    BY <1>2, <1>7
  <2>2. InStep
    BY <2>1 DEF NtInv
  <2>3. \A q \in Callers : ~At(q, "open")' /\ ~At(q, "write")'
    BY <1>5, <2>1 DEF Updating
  <2>4. c = InFile
    <3>1. CASE nt.memory = NoPreferences
      BY <1>1, <2>2, <3>1 DEF InStep, At, c
    <3>2. CASE nt.memory = c
      BY <1>4, <2>1, <2>2, <3>2 DEF InStep
    <3> QED
      BY <2>1, <3>1, <3>2
  <2>5. InFile' = InFile
    BY <1>2 DEF InFile
  <2> QED
    BY <1>2, <1>4, <2>3, <2>4, <2>5 DEF InStep
<1> QED
  BY <1>2, <1>3, <1>4, <1>7 DEF NtInv

\* New preferences are in the memory before they are in the file.
LEMMA SaveKeeps ==
  ASSUME NEW Prefs, ArePreferences(Prefs), NtInv(Prefs), NEW r \in Callers,
         nt.req[r].pc \notin {"open", "write"},
         NEW prefs \in Prefs, SavePreferences(r, prefs)
  PROVE  NtInv(Prefs)'
<1>1. NtType(Prefs)
  BY DEF NtInv
<1>2. /\ OnlyRequest(r) /\ nt'.req[r].pc = "open" /\ nt'.req[r].prefs = prefs
      /\ nt'.memory = prefs /\ nt'.file = nt.file /\ nt'.writers = nt.writers
      /\ nt'.clean = (nt.clean /\ ~Updating)
  BY <1>1 DEF SavePreferences, NtType, RequestOK, OnlyRequest
<1>3. NtType(Prefs)'
  <2>1. nt.writers \subseteq Callers /\ r \notin nt.writers
    BY <1>1 DEF NtType, At
  <2> QED
    BY <1>1, <1>2, <2>1, NtTypeStays DEF NtType
<1>4. prefs # NoPreferences
  BY DEF ArePreferences
<1>5. ASSUME nt'.clean PROVE InStep'
  <2>1. ~Updating
    BY <1>2, <1>5
  <2>2. \A q \in Callers : At(q, "open")' \/ At(q, "write")' => q = r
    BY <1>2, <2>1 DEF At, OnlyRequest, Updating
  <2>3. Updating'
    BY <1>2 DEF Updating, At
  <2> QED
    BY <1>2, <1>4, <2>2, <2>3 DEF InStep
<1> QED
  BY <1>2, <1>3, <1>4, <1>5 DEF NtInv

LEMMA PutKeeps ==
  ASSUME NEW Prefs, ArePreferences(Prefs), NtInv(Prefs), NEW r \in Callers, Put(r)
  PROVE  NtInv(Prefs)'
<1>1. /\ nt.req[r].pc = "start"
      /\ nt.req[r].op.prefs \in Prefs \cup {NoPreferences}
  BY DEF Put, At, NtInv, NtType, RequestOK
<1>2. CASE nt.req[r].op.prefs = NoPreferences
  BY <1>1, <1>2, QuietGo DEF Put
<1>3. CASE nt.req[r].op.prefs # NoPreferences
  BY <1>1, <1>3, SaveKeeps DEF Put
<1> QED
  BY <1>2, <1>3

LEMMA PageSavesKeeps ==
  ASSUME NEW Prefs, ArePreferences(Prefs), NtInv(Prefs), NEW r \in Callers, PageSaves(r)
  PROVE  NtInv(Prefs)'
<1>1. nt.req[r].pc = "have" /\ nt.req[r].prefs \in Prefs
  BY DEF PageSaves, At, NtInv, NtType, RequestOK
<1>2. CASE Maskable(nt.req[r].prefs)
  <2>1. [SafeDict(nt.req[r].prefs) EXCEPT !.on = @ \cup {"telegram"}] \in Prefs
    BY <1>1 DEF ArePreferences
  <2> QED
    BY <1>1, <1>2, <2>1, SaveKeeps DEF PageSaves
<1>3. CASE ~Maskable(nt.req[r].prefs)
  BY <1>1, <1>3, QuietGo DEF PageSaves
<1> QED
  BY <1>2, <1>3

\* A file that is opened for writing is torn until it is written.
LEMMA OpenKeeps ==
  ASSUME NEW Prefs, ArePreferences(Prefs), NtInv(Prefs), NEW r \in Callers, OpenPreferences(r)
  PROVE  NtInv(Prefs)'
<1>1. NtType(Prefs) /\ nt.req[r].pc = "open" /\ nt.req[r].prefs \in Prefs
      /\ nt.memory # NoPreferences /\ r \notin nt.writers /\ nt.writers \subseteq Callers
  BY DEF NtInv, OpenPreferences, At, NtType, RequestOK, Updating
<1>2. CASE nt' = [nt EXCEPT !.file = Torn, !.writers = @ \cup {r}, !.req[r].pc = "write"]
  <2>1. /\ OnlyRequest(r) /\ nt'.req[r].pc = "write" /\ nt'.req[r].prefs = nt.req[r].prefs
        /\ nt'.memory = nt.memory /\ nt'.file = Torn /\ nt'.writers = nt.writers \cup {r}
        /\ nt'.clean = nt.clean
    BY <1>1, <1>2 DEF NtType, RequestOK, OnlyRequest
  <2>2. NtType(Prefs)'
    BY <1>1, <2>1, NtTypeStays DEF NtType
  <2>3. Updating'
    BY <2>1 DEF Updating, At
  <2>4. \A q \in Callers : (At(q, "open") \/ At(q, "write"))' <=> At(q, "open") \/ At(q, "write")
    BY <1>1, <2>1 DEF At, OnlyRequest
  <2>5. \A q \in Callers : nt'.req[q].prefs = nt.req[q].prefs
    BY <2>1 DEF OnlyRequest
  <2>6. ASSUME nt'.clean PROVE InStep'
    BY <1>1, <2>1, <2>3, <2>4, <2>5, <2>6 DEF InStep, NtInv
  <2> QED
    BY <1>1, <2>1, <2>2, <2>6 DEF NtInv
<1>3. CASE nt' = [nt EXCEPT !.req[r].pc = "failed", !.clean = FALSE]
  <2>1. /\ OnlyRequest(r) /\ nt'.req[r].pc = "failed"
        /\ nt'.memory = nt.memory /\ nt'.file = nt.file /\ nt'.writers = nt.writers
        /\ ~nt'.clean
    BY <1>1, <1>3 DEF NtType, RequestOK, OnlyRequest
  <2>2. NtType(Prefs)'
    BY <1>1, <2>1, NtTypeStays DEF NtType
  <2> QED
    BY <1>1, <2>1, <2>2 DEF NtInv
<1> QED
  BY <1>2, <1>3 DEF OpenPreferences

\* A request that writes alone leaves what it saved.
LEMMA WriteKeeps ==
  ASSUME NEW Prefs, ArePreferences(Prefs), NtInv(Prefs), NEW r \in Callers, WritePreferences(r)
  PROVE  NtInv(Prefs)'
<1> DEFINE alone == nt.writers = {r}
<1>1. NtType(Prefs) /\ nt.req[r].pc = "write" /\ nt.req[r].prefs \in Prefs
      /\ nt.memory # NoPreferences /\ r \in nt.writers /\ nt.writers \subseteq Callers
  BY DEF NtInv, WritePreferences, At, NtType, RequestOK, Updating
<1>2. PICK answered \in {"done", "failed"},
           written \in {nt.req[r].prefs} \cup (IF alone THEN {} ELSE {Torn}) :
        nt' = [nt EXCEPT !.file = written, !.writers = @ \ {r}, !.req[r].pc = answered]
  BY DEF WritePreferences
<1>3. /\ OnlyRequest(r) /\ nt'.req[r].pc = answered
      /\ nt'.memory = nt.memory /\ nt'.file = written /\ nt'.writers = nt.writers \ {r}
      /\ nt'.clean = nt.clean
  BY <1>1, <1>2 DEF NtType, RequestOK, OnlyRequest
<1>4. NtType(Prefs)'
  BY <1>1, <1>3, NtTypeStays DEF NtType
<1>5. ASSUME nt'.clean PROVE InStep'
  <2>1. InStep
    BY <1>3, <1>5 DEF NtInv
  <2>2. \A q \in Callers : At(q, "open") \/ At(q, "write") => q = r
    BY <1>1, <2>1 DEF InStep, At
  <2>3. alone
    BY <1>1, <2>2 DEF NtType
  <2>4. written = nt.memory
    BY <1>1, <1>2, <2>1, <2>3 DEF InStep, At
  <2>5. \A q \in Callers : ~At(q, "open")' /\ ~At(q, "write")'
    BY <1>3, <2>2 DEF At, OnlyRequest
  <2>6. nt'.memory = InFile'
    BY <1>1, <1>3, <2>4 DEF InFile, ArePreferences, NtType
  <2> QED
    BY <1>1, <1>3, <2>5, <2>6 DEF InStep
<1> QED
  BY <1>1, <1>3, <1>4, <1>5 DEF NtInv

\* The other steps of a request: an answer, a notification, a delivery, a test.
LEMMA UseKeeps ==
  ASSUME NEW Prefs, ArePreferences(Prefs), NtInv(Prefs), NEW r \in Callers,
         Answer(r) \/ Send(r) \/ Deliver(r) \/ SendTest(r)
  PROVE  NtInv(Prefs)'
<1>1. NtType(Prefs) /\ nt.req[r].pc \in {"have", "deliver"}
  BY DEF NtInv, Answer, Send, Deliver, SendTest, At
<1>2. ASSUME NEW pc \in {"done", "failed"}, Go(r, pc) PROVE NtInv(Prefs)'
  BY <1>1, <1>2, QuietGo
<1>3. ASSUME /\ OnlyRequest(r) /\ nt'.req[r].pc \in {"deliver", "done", "failed"}
             /\ nt'.memory = nt.memory /\ nt'.file = nt.file /\ nt'.writers = nt.writers
             /\ nt'.clean = nt.clean
      PROVE  NtInv(Prefs)'
  BY <1>1, <1>3, QuietStep
<1>4. CASE Answer(r)
  BY <1>2, <1>4 DEF Answer
<1>5. CASE Send(r)
  <2>1. CASE nt' = [nt EXCEPT !.req[r].pc = "deliver", !.req[r].left = Recipients(nt.req[r].prefs)]
    BY <1>1, <1>3, <2>1 DEF NtType, RequestOK, OnlyRequest
  <2> QED
    BY <1>2, <1>5, <2>1 DEF Send
<1>6. CASE Deliver(r)
  <2>1. ASSUME NEW left, NEW results, NEW delivered,
               nt' = [nt EXCEPT !.req[r] = [nt.req[r] EXCEPT !.left = left, !.results = results,
                                                             !.delivered = delivered]]
        PROVE  NtInv(Prefs)'
    <3>1. nt.req[r].pc = "deliver"
      BY <1>6 DEF Deliver, At
    <3> QED
      BY <1>1, <1>3, <2>1, <3>1 DEF NtType, RequestOK, OnlyRequest
  <2> QED
    BY <1>2, <1>6, <2>1 DEF Deliver
<1>7. CASE SendTest(r)
  <2>1. ASSUME NEW pc \in {"done", "failed"}, NEW delivered,
               nt' = [nt EXCEPT !.req[r].pc = pc, !.req[r].delivered = delivered]
        PROVE  NtInv(Prefs)'
    BY <1>1, <1>3, <2>1 DEF NtType, RequestOK, OnlyRequest
  <2> QED
    BY <1>2, <1>7, <2>1 DEF SendTest
<1> QED
  BY <1>4, <1>5, <1>6, <1>7

\* After a restart the memory is empty and no request is under way.
LEMMA NtRestartKeeps ==
  ASSUME NEW Prefs, ArePreferences(Prefs), NtInv(Prefs), NtRestart PROVE NtInv(Prefs)'
<1>1. NtType(Prefs)
  BY DEF NtInv
<1>2. /\ DOMAIN nt' = DOMAIN nt /\ DOMAIN nt'.req = Callers
      /\ nt'.memory = NoPreferences /\ nt'.file = nt.file /\ nt'.writers = {}
      /\ \A r \in Callers :
           nt'.req[r] = IF nt.req[r].pc \in {"start", "done", "failed"} THEN nt.req[r]
                        ELSE [nt.req[r] EXCEPT !.pc = "dead"]
  BY <1>1 DEF NtRestart, NtType
<1>3. \A r \in Callers : /\ nt'.req[r].pc \in {"start", "done", "failed", "dead"}
                         /\ nt'.req[r].op = nt.req[r].op
                         /\ DOMAIN nt'.req[r] = DOMAIN nt.req[r]
  BY <1>1, <1>2 DEF NtType, RequestOK
<1>4. NtType(Prefs)'
  <2>1. \A r \in Callers : RequestOK(nt.req[r], Prefs)'
    BY <1>1, <1>3 DEF NtType, RequestOK
  <2>2. {r \in Callers : At(r, "write")'} = {}
    BY <1>3 DEF At
  <2> QED
    BY <1>1, <1>2, <2>1, <2>2 DEF NtType
<1>5. ~Updating' /\ InStep'
  BY <1>2, <1>3 DEF Updating, At, InStep
<1> QED
  BY <1>4, <1>5 DEF NtInv

LEMMA NtNextInv ==
  ASSUME NEW Prefs, ArePreferences(Prefs), NtInv(Prefs), [NtNext]_nt PROVE NtInv(Prefs)'
<1>1. ASSUME NEW r \in Callers,
             \/ GetPreferences(r) \/ LoadPreferences(r) \/ Remember(r)
             \/ Put(r) \/ PageSaves(r) \/ OpenPreferences(r) \/ WritePreferences(r)
             \/ Answer(r) \/ Send(r) \/ Deliver(r) \/ SendTest(r)
      PROVE  NtInv(Prefs)'
  BY <1>1, GetPreferencesKeeps, LoadPreferencesKeeps, RememberKeeps, PutKeeps,
     PageSavesKeeps, OpenKeeps, WriteKeeps, UseKeeps
<1>2. CASE UNCHANGED nt
  BY <1>2 DEF NtInv, NtType, RequestOK, InStep, InFile, Updating, At
<1> QED
  BY <1>1, <1>2, NtRestartKeeps DEF NtNext

\* However the requests of the automation's pages and runs interleave, with restarts
\* and a disk that fails: as long as no two updates overlap, no first load overlaps
\* an update and no write fails, NotificationService uses the preferences that are
\* in its file.
THEOREM PreferencesAreSaved ==
  ASSUME NEW Prefs, ArePreferences(Prefs)
  PROVE  NtSpec => []PreferencesInUseAreSaved
<1>1. NtInit => NtInv(Prefs)
  BY NtInitInv
<1>2. NtInv(Prefs) /\ [NtNext]_nt => NtInv(Prefs)'
  BY NtNextInv
<1>3. NtInv(Prefs) => PreferencesInUseAreSaved
  BY DEF NtInv, InStep, InFile, PreferencesInUseAreSaved
<1> QED
  BY <1>1, <1>2, <1>3, PTL DEF NtSpec
=============================================================================
