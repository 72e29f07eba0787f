------------------------------ MODULE Runners ------------------------------
(***************************************************************************)
(* The command-line runners (scripts/run_scanner.py, run_monitoring.py,    *)
(* run_decision.py, run_paper_trading.py, run_live_signal_pipeline.py,     *)
(* runtime/daily_dry_run.py) as processes that meet in the file system:    *)
(* a runner takes its input from the newest published bundle of the stage  *)
(* before it, writes its artifacts one by one, then run_manifest.json, and *)
(* checks its bundle against the contract of its kind.  Paper sessions     *)
(* also share paper_state.json, behind a lock file that a dead process     *)
(* leaves behind.  runtime/workflow_orchestrator.py starts a runner and    *)
(* judges it by its exit code and by its bundle.                           *)
(***************************************************************************)
EXTENDS Integers, Sequences, FiniteSets, SequencesExt

CONSTANTS
  Procs,         \* the processes
  Schedules,     \* what they are started for: functions from Procs to jobs
  MaxSecond,     \* bound: how far the clock that names directories runs
  MaxCrashes,    \* bound
  NONE, TORN     \* no file; a file opened for writing and not yet written

VARIABLES
  job,           \* the command line of each process
  pc,            \* where it is
  out,           \* its output directory
  step,          \* how many of its artifacts it has written there
  cycle,         \* live runner: the cycle; dry run: the stage
  input,         \* the bundle it took its input from, NONE if none
  base,          \* the sessions in the paper state it has loaded
  code,          \* its exit code, NONE while it runs and after a crash
  verdict,       \* what the orchestrator made of it
  met,           \* the processes that had ended when this session began
  files,         \* what is there, by directory and name: the process that wrote it
  changed,       \* directories in the order of their st_mtime, oldest first
  lock,          \* by directory: paper_state.json.lock
  state,         \* by directory: paper_state.json, the sessions whose trades are in it
  second, crashes

local == <<job, pc, out, step, cycle, input, base, code, verdict, met>>
disk == <<files, changed, lock, state>>
vars == <<local, disk, second, crashes>>

\* Artifacts of a run, in the order they are written - of the many of a kind, one
\* another runner reads and one nobody does; the paper state is written under the
\* lock, and the metadata file goes with the last artifact.
ScannerOutputs == <<"universe", "candidates">>
MonitoringOutputs == <<"setups", "decision_input">>
DecisionOutputs == <<"selected", "portfolio_plan">>
PaperOutputs == <<"orders", "state">>
LiveOutputs == <<"signals">>
StageOutputs == <<"bundle">>

Outputs == [scanner |-> ScannerOutputs, monitoring |-> MonitoringOutputs,
            decision |-> DecisionOutputs, paper |-> PaperOutputs,
            live |-> LiveOutputs, dry |-> StageOutputs]

Kinds == DOMAIN Outputs
Before == [monitoring |-> "scanner", decision |-> "monitoring"]
Chained == DOMAIN Before

\* Artifacts that another runner reads: when they are empty for a moment matters.
ReadByOthers == {"universe", "candidates", "decision_input"}

Exists(d, a) == <<d, a>> \in DOMAIN files
Wrote(d, a) == IF Exists(d, a) THEN files[<<d, a>>] ELSE NONE
Put(d, a, w) ==
  files' = [f \in DOMAIN files \union {<<d, a>>} |-> IF f = <<d, a>> THEN w ELSE files[f]]
Manifest(d) == Wrote(d, "run_manifest")

\* Where a paper state may be: the common directory of a kind, or the directory
\* of a pipeline.
StateDirs == (Kinds \X {0}) \union ({"run"} \X Procs)

\* Output directories: common to a kind (0), stamped with a second, of a stage of a
\* dry run, of a pipeline.
Dirs == (Kinds \union {"stage", "run"}) \X (Nat \union Procs)

Ended == {"done", "dead"}
Alive(p) == pc[p] \notin Ended \union {"waiting"}

\* Only a live runner polls and only a dry run has stages.
Jobs == {j \in [kind : Kinds, enabled : BOOLEAN, latest : BOOLEAN, stamped : BOOLEAN,
                 orchestrated : BOOLEAN, cycles : {1, 2, 3}] :
           j.kind \notin {"live", "dry"} => j.cycles = 1}

ASSUME JobAssumption == Schedules \subseteq [Procs -> Jobs]
ASSUME NoneAssumption ==
  /\ NONE \notin Procs \union Dirs \union BOOLEAN /\ \A S \in SUBSET Procs : NONE # S
  /\ TORN \notin Procs

-----------------------------------------------------------------------------
(* The process: start, input, directory                                    *)

Init ==
  /\ job \in Schedules
  /\ pc = [p \in Procs |-> "waiting"]
  /\ out = [p \in Procs |-> NONE] /\ step = [p \in Procs |-> 0]
  /\ cycle = [p \in Procs |-> 1] /\ input = [p \in Procs |-> NONE]
  /\ base = [p \in Procs |-> {}] /\ code = [p \in Procs |-> NONE]
  /\ verdict = [p \in Procs |-> NONE] /\ met = [p \in Procs |-> {}]
  /\ files = <<>> /\ changed = <<>>
  /\ lock = [d \in StateDirs |-> NONE] /\ state = [d \in StateDirs |-> NONE]
  /\ second = 1 /\ crashes = 0

Goto(p, there) == pc' = [pc EXCEPT ![p] = there]

\* The process ends; its files stay.
Exit(p, c) ==
  /\ Goto(p, "done") /\ code' = [code EXCEPT ![p] = c]

\* enforce_runtime_safety and validate_provider_for_mode: a paper or live run
\* without its flag ends in peace, a provider that cannot serve the mode does not.
Start(p) ==
  /\ pc[p] = "waiting"
  /\ met' = [met EXCEPT ![p] = IF job[p].kind = "paper" THEN {q \in Procs : pc[q] \in Ended} ELSE {}]
  /\ \/ /\ ~job[p].enabled
        /\ Exit(p, 0)
     \/ /\ job[p].enabled
        /\ Exit(p, 1)
     \/ /\ job[p].enabled
        /\ Goto(p, CASE job[p].kind \in Chained -> "input"
                     [] job[p].kind = "paper" -> "load"
                     [] OTHER -> "dir")
        /\ UNCHANGED code
  /\ UNCHANGED <<job, out, step, cycle, input, base, verdict, disk, second, crashes>>

\* Broken variant: any directory is a candidate.
Candidates_Unpublished(kind) ==
  {d \in ToSet(changed) : d[1] = kind /\ d[2] > 0}

\* The children of output/<kind> that hold a manifest, whatever is in it.
Candidates(kind) ==
  {d \in ToSet(changed) : d[1] = kind /\ d[2] > 0 /\ Exists(d, "run_manifest")}

\* resolve_latest_runner_dir: the newest by st_mtime.
Latest(kind) ==
  LET at == {i \in DOMAIN changed : changed[i] \in Candidates(kind)}
  IN IF at = {} THEN NONE ELSE changed[Max(at)]

\* The file a chained runner reads: the candidates, or the universe when there
\* are none; monitoring_decision_input.json and nothing else.
InputFiles(p) ==
  IF job[p].kind = "monitoring" THEN {"candidates", "universe"} ELSE {"decision_input"}

\* Without a usable bundle the runner ends with "Input resolution failed".
ResolveInput(p) ==
  /\ pc[p] = "input"
  /\ \/ /\ ~job[p].latest
        /\ Goto(p, "dir") /\ UNCHANGED <<input, code>>
     \/ /\ job[p].latest
        /\ LET d == Latest(Before[job[p].kind])
           IN IF d = NONE THEN Exit(p, 1) /\ UNCHANGED input
              ELSE \E a \in InputFiles(p) :
                IF Wrote(d, a) \in {NONE, TORN} THEN Exit(p, 1) /\ UNCHANGED input
                ELSE /\ input' = [input EXCEPT ![p] = [dir |-> d, by |-> Wrote(d, a)]]
                     /\ Goto(p, "dir") /\ UNCHANGED code
  /\ UNCHANGED <<job, out, step, cycle, base, verdict, met, disk, second, crashes>>

\* resolve_runner_output_dir, and the fixed directories of the others.
OutputDir(p) ==
  IF job[p].kind = "dry" THEN <<"stage", cycle[p]>>
  ELSE IF job[p].orchestrated THEN <<"run", p>>
  ELSE <<job[p].kind, IF job[p].stamped THEN second ELSE 0>>

\* A new entry makes a directory the newest; an overwritten one does not.
Without(d) ==
  IF d \in ToSet(changed) THEN RemoveAt(changed, CHOOSE i \in DOMAIN changed : changed[i] = d)
  ELSE changed
Touch(d, new) == changed' = IF new THEN Append(Without(d), d) ELSE changed

MakeDir(p) ==
  /\ pc[p] = "dir"
  /\ LET d == OutputDir(p) IN
       /\ out' = [out EXCEPT ![p] = d]
       /\ Touch(d, d \notin ToSet(changed))
  /\ step' = [step EXCEPT ![p] = 0]
  /\ Goto(p, "write")
  /\ UNCHANGED <<job, cycle, input, base, code, verdict, met, files,
                 lock, state, second, crashes>>

-----------------------------------------------------------------------------
(* Artifacts, manifest, contract                                           *)

Current(p) == Outputs[job[p].kind][step[p] + 1]

\* open(): the file exists and is empty.
OpenArtifact(p) ==
  /\ pc[p] = "write" /\ Current(p) \in ReadByOthers
  /\ Put(out[p], Current(p), TORN)
  /\ Touch(out[p], ~Exists(out[p], Current(p)))
  /\ Goto(p, "fill")
  /\ UNCHANGED <<job, out, step, cycle, input, base, code, verdict, met,
                 lock, state, second, crashes>>

\* Where a process goes when artifact n of its kind is on disk.
AfterArtifact(p, n) ==
  IF n = Len(Outputs[job[p].kind]) THEN "manifest"
  ELSE IF Outputs[job[p].kind][n + 1] = "state" THEN "save" ELSE "write"

WriteArtifact(p) ==
  /\ IF pc[p] = "write" THEN Current(p) \notin ReadByOthers \union {"state"}
     ELSE pc[p] = "fill"
  /\ Put(out[p], Current(p), p)
  /\ Touch(out[p], ~Exists(out[p], Current(p)))
  /\ step' = [step EXCEPT ![p] = @ + 1]
  /\ Goto(p, AfterArtifact(p, step[p] + 1))
  /\ UNCHANGED <<job, out, cycle, input, base, code, verdict, met,
                 lock, state, second, crashes>>

\* An error on the way, full disk or bad data, ends a runner; the dry run catches
\* it in the stage and gives up.
Fails(p) ==
  /\ pc[p] \in {"write", "fill"}
  /\ Exit(p, 1)
  /\ UNCHANGED <<job, out, step, cycle, input, base, verdict, met, disk, second, crashes>>

\* A live cycle, or a paper session, that had no usable data exports nothing and
\* the runner goes on as if it had: no manifest, exit code 0.
NoExport(p) ==
  /\ pc[p] = "write" /\ step[p] = 0 /\ job[p].kind \in {"live", "paper"}
  /\ Goto(p, "next")
  /\ UNCHANGED <<job, out, step, cycle, input, base, code, verdict, met, disk, second, crashes>>

OpenManifest(p) ==
  /\ pc[p] = "manifest"
  /\ Put(out[p], "run_manifest", TORN)
  /\ Touch(out[p], ~Exists(out[p], "run_manifest"))
  /\ Goto(p, "publish")
  /\ UNCHANGED <<job, out, step, cycle, input, base, code, verdict, met,
                 lock, state, second, crashes>>

\* write_output_manifest: the run mode in it is that of the kind of p.
Publish(p) ==
  /\ pc[p] = "publish"
  /\ Put(out[p], "run_manifest", p)
  /\ Goto(p, "validate")
  /\ UNCHANGED <<job, out, step, cycle, input, base, code, verdict, met,
                 changed, lock, state, second, crashes>>

\* Broken variant: a directory without a manifest is scanned for its files.
ContractHolds_ManifestOptional(d, kind) ==
  Manifest(d) = NONE \/ (Manifest(d) # TORN /\ job[Manifest(d)].kind = kind)

\* validate_artifact_contract: the manifest can be read and has the run mode of
\* the kind, and its artifacts exist - whole or not, and whoever wrote them.
ContractHolds(d, kind) ==
  /\ Manifest(d) \notin {NONE, TORN} /\ job[Manifest(d)].kind = kind
  /\ \A a \in ToSet(Outputs[kind]) : Exists(d, a)

Validate(p) ==
  /\ pc[p] = "validate"
  /\ IF ContractHolds(out[p], job[p].kind) THEN Goto(p, "next") /\ UNCHANGED code
     ELSE Exit(p, 1)
  /\ UNCHANGED <<job, out, step, cycle, input, base, verdict, met, disk, second, crashes>>

\* The next cycle of a live runner, the next stage of a dry run, or the end.
NextCycle(p) ==
  /\ pc[p] = "next"
  /\ IF cycle[p] < job[p].cycles
     THEN /\ cycle' = [cycle EXCEPT ![p] = @ + 1]
          /\ Goto(p, "dir") /\ UNCHANGED code
     ELSE Exit(p, 0) /\ UNCHANGED cycle
  /\ UNCHANGED <<job, out, step, input, base, verdict, met, disk, second, crashes>>

\* WorkflowOrchestrator._run_step: exit code, then the contract of the directory.
Judge(p) ==
  /\ job[p].orchestrated /\ code[p] # NONE /\ verdict[p] = NONE
  /\ verdict' = [verdict EXCEPT ![p] =
       code[p] = 0 /\ ContractHolds(<<"run", p>>, job[p].kind)]
  /\ UNCHANGED <<job, pc, out, step, cycle, input, base, code, met, disk, second, crashes>>

-----------------------------------------------------------------------------
(* paper_state.json and its lock (paper_trading/state_store.py)            *)

\* The directory of the state file.
Store(p) == IF job[p].orchestrated THEN <<"run", p>> ELSE <<job[p].kind, 0>>

\* PaperStateStore.load: without a file the default portfolio, without the lock.
Load(p) ==
  /\ pc[p] = "load"
  /\ Goto(p, IF state[Store(p)] = NONE THEN "dir" ELSE "lockload")
  /\ UNCHANGED <<job, out, step, cycle, input, base, code, verdict, met, disk, second, crashes>>

\* O_CREAT | O_EXCL; until it succeeds the process polls.
Acquire(p) ==
  /\ pc[p] \in {"lockload", "save"} /\ lock[Store(p)] = NONE
  /\ lock' = [lock EXCEPT ![Store(p)] = p]
  /\ Goto(p, IF pc[p] = "save" THEN "replace" ELSE "read")
  /\ UNCHANGED <<job, out, step, cycle, input, base, code, verdict, met, files,
                 changed, state, second, crashes>>

\* The lock file is there but the pid cannot be written into it: the error leaves
\* _file_lock before its try, and the file stays.
AcquireFails(p) ==
  /\ pc[p] \in {"lockload", "save"} /\ lock[Store(p)] = NONE /\ crashes < MaxCrashes
  /\ lock' = [lock EXCEPT ![Store(p)] = p] /\ crashes' = crashes + 1
  /\ Exit(p, 1)
  /\ UNCHANGED <<job, out, step, cycle, input, base, verdict, met, files,
                 changed, state, second>>

\* Broken variant: the time-out passes through the finally clause of the lock.
TimeOut_Unlinks(p) ==
  /\ pc[p] \in {"lockload", "save"} /\ lock[Store(p)] # NONE
  /\ lock' = [lock EXCEPT ![Store(p)] = NONE]
  /\ Exit(p, 1)
  /\ UNCHANGED <<job, out, step, cycle, input, base, verdict, met, files,
                 changed, state, second, crashes>>

\* Broken variant: the deadline is not looked at.
TimeOut_Never(p) == FALSE /\ UNCHANGED vars

\* Somebody's lock is still there at the deadline: TimeoutError, uncaught.
TimeOut(p) ==
  /\ pc[p] \in {"lockload", "save"} /\ lock[Store(p)] # NONE
  /\ Exit(p, 1)
  /\ UNCHANGED <<job, out, step, cycle, input, base, verdict, met, disk, second, crashes>>

\* The file is read, and the lock removed.
ReadState(p) ==
  /\ pc[p] = "read"
  /\ base' = [base EXCEPT ![p] = state[Store(p)]]
  /\ lock' = [lock EXCEPT ![Store(p)] = NONE]
  /\ Goto(p, "dir")
  /\ UNCHANGED <<job, out, step, cycle, input, code, verdict, met, files,
                 changed, state, second, crashes>>

\* Broken variant: the session writes its own trades only.
ReplaceState_Alone(p) ==
  /\ pc[p] = "replace"
  /\ state' = [state EXCEPT ![Store(p)] = {p}]
  /\ Goto(p, "unlock")
  /\ UNCHANGED <<job, out, step, cycle, input, base, code, verdict, met, files,
                 changed, lock, second, crashes>>

\* os.replace of the temporary file.
ReplaceState(p) ==
  /\ pc[p] = "replace"
  /\ state' = [state EXCEPT ![Store(p)] = base[p] \union {p}]
  /\ Goto(p, "unlock")
  /\ UNCHANGED <<job, out, step, cycle, input, base, code, verdict, met, files,
                 changed, lock, second, crashes>>

\* The temporary file cannot be written: it is removed and so is the lock.
SaveFails(p) ==
  /\ pc[p] = "replace"
  /\ lock' = [lock EXCEPT ![Store(p)] = NONE]
  /\ Exit(p, 1)
  /\ UNCHANGED <<job, out, step, cycle, input, base, verdict, met, files,
                 changed, state, second, crashes>>

Unlock(p) ==
  /\ pc[p] = "unlock"
  /\ lock' = [lock EXCEPT ![Store(p)] = NONE]
  /\ Put(out[p], "state", p)
  /\ Touch(out[p], ~Exists(out[p], "state"))
  /\ step' = [step EXCEPT ![p] = @ + 1]
  /\ Goto(p, AfterArtifact(p, step[p] + 1))
  /\ UNCHANGED <<job, out, cycle, input, base, code, verdict, met,
                 state, second, crashes>>

-----------------------------------------------------------------------------
(* Environment                                                             *)

\* The clock goes on; only stamped runs look at it.
Tick ==
  /\ second < MaxSecond /\ \E p \in Procs : job[p].stamped /\ pc[p] # "waiting"
  /\ second' = second + 1
  /\ UNCHANGED <<local, disk, crashes>>

\* The process dies where it stands.
Crash(p) ==
  /\ Alive(p) /\ crashes < MaxCrashes
  /\ crashes' = crashes + 1
  /\ Goto(p, "dead")
  /\ UNCHANGED <<job, out, step, cycle, input, base, code, verdict, met, disk, second>>

Write(p) == OpenArtifact(p) \/ WriteArtifact(p) \/ Fails(p) \/ NoExport(p)
Bundle(p) == OpenManifest(p) \/ Publish(p) \/ Validate(p) \/ NextCycle(p)
Session(p) ==
  \/ Load(p) \/ Acquire(p) \/ TimeOut(p) \/ ReadState(p)
  \/ ReplaceState(p) \/ SaveFails(p) \/ Unlock(p)

\* What a process does once it is started.
Step(p) == ResolveInput(p) \/ MakeDir(p) \/ Write(p) \/ Bundle(p) \/ Session(p)

Next ==
  \/ Tick
  \/ \E p \in Procs : Start(p) \/ Step(p) \/ Judge(p) \/ AcquireFails(p) \/ Crash(p)

\* The operating system runs every process; nobody has to start one.
Spec == Init /\ [][Next]_vars /\ \A p \in Procs : WF_vars(Step(p))

-----------------------------------------------------------------------------
(* Properties                                                              *)

Inside == {p \in Procs : pc[p] \in {"read", "replace", "unlock"}}

\* _file_lock excludes: no two sessions are between the lock and its removal,
\* whatever dies, times out or fails to write its pid - and no session removes the
\* lock of another.
LockExcludes == \A p \in Inside : lock[Store(p)] = p

\* A runner that takes the latest bundle takes a whole one: the manifest is written
\* last, so everything the producer of the input was to write is there - unless a
\* second run of the same second shares the directory.
ReadsWholeBundle ==
  \A p \in Procs : input[p] # NONE =>
    LET d == input[p].dir IN
    {q \in Procs : out[q] = d} = {input[p].by} =>
      \A a \in ToSet(Outputs[d[1]]) : Wrote(d, a) = input[p].by

\* A pipeline the orchestrator reports as successful left a bundle of its own: a
\* session without data, which exports nothing and returns 0, is not a success.
SuccessHasOwnBundle ==
  \A p \in Procs : verdict[p] = TRUE =>
    /\ Manifest(<<"run", p>>) = p
    /\ \A a \in ToSet(Outputs[job[p].kind]) : Wrote(<<"run", p>>, a) = p

\* Paper sessions that never overlap lose nothing: the state holds the trades of
\* every one that ended well with data, whatever died in between.
Serial ==
  \A p, q \in Procs :
    (p # q /\ "waiting" \notin {pc[p], pc[q]}) => p \in met[q] \/ q \in met[p]

SerialSessionsAccumulate ==
  Serial => \A p \in Procs :
    (job[p].kind = "paper" /\ step[p] > 1) => state[Store(p)] # NONE /\ p \in state[Store(p)]

\* Every runner that was started ends, although a lock may stay behind for good.
EveryRunnerEnds == <>[](\A p \in Procs : ~Alive(p))
=============================================================================
