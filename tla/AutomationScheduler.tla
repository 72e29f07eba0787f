------------------------ MODULE AutomationScheduler ------------------------
(***************************************************************************)
(* AutomationSchedulerService.trigger_pipeline and the RunStore it keeps   *)
(* its history in (src/automation).  The trigger route of the API runs on  *)
(* a thread pool, so several requests are in the service at once and no    *)
(* lock is taken; each step below ends where another thread may come in.   *)
(* A process crash ends all requests and empties the memory, not the disk. *)
(***************************************************************************)
EXTENDS Integers, Sequences, FiniteSets, SequencesExt

CONSTANTS
  Threads,       \* the threads of the API's pool
  Jobs,          \* job ids; every pipeline type has one
  LiveJobs,      \* the jobs that need live data while the source is online
  Cooldown,      \* cooldown_seconds, in ticks of the clock
  MaxHistory,    \* RunStore.max_history
  Faults,        \* subset of {"crash", "torn", "manifest", "save"}: what may go wrong
  MaxRuns, MaxTime, MaxCrashes,     \* bounds of the model
  NONE, TORN     \* no value; a file that holds a part of a record

ASSUME ConfigAssumption ==
  /\ LiveJobs \subseteq Jobs
  /\ {Cooldown, MaxHistory, MaxRuns, MaxTime} \subseteq Nat \ {0}
  /\ MaxCrashes \in Nat
  /\ Faults \subseteq {"crash", "torn", "manifest", "save"}
  /\ NONE \notin Nat

VARIABLES
  now,           \* the wall clock
  pc,            \* what each thread does next
  job, run,      \* the job a thread triggers and the id of its run
  record,        \* RunRecord by run id, as its thread holds it
  lastRunTimes,  \* _last_run_times
  files,         \* run ids with a file in the store, by mtime, newest last
  disk,          \* what those files hold: a record, or TORN
  listed,        \* the files a thread has listed, or sorted, for retention
  manifest,      \* run id -> the status in its run_manifest.json
  nextRun,       \* run ids given out
  crashes,
  lastSeen,      \* history: the last start or end of a run put on record, by job
  unsaved        \* history: the runs whose outcome could not be written

store == <<files, disk, listed>>
vars == <<now, pc, job, run, record, lastRunTimes, store, manifest, nextRun,
          crashes, lastSeen, unsaved>>

Runs == 1..MaxRuns
FinalStatus == {"completed", "failed"}
Record == [job : Jobs, status : {"running"} \union FinalStatus,
           started : 0..MaxTime, completed : (0..MaxTime) \union {NONE}]

\* What is not there, or only half there, is not a record.
ASSUME AbsentAssumption == {NONE, TORN} \cap Record = {} /\ NONE # TORN

Steps == {"idle", "gate", "open_first", "write_first", "list_first",
          "sort_first", "retain_first", "run", "manifest", "stamp", "open_last",
          "write_last", "list_last", "sort_last", "retain_last"}

-----------------------------------------------------------------------------
(* The cooldown                                                            *)

\* The newest record of j among the max_history newest files, NONE if none of
\* them can be read and is of j.
NewestRecord(j) ==
  LET mine == {n \in 1..Len(files) :
                 /\ n > Len(files) - MaxHistory
                 /\ disk[files[n]] # TORN /\ disk[files[n]].job = j}
  IN  IF mine = {} THEN NONE
      ELSE disk[files[CHOOSE n \in mine : \A m \in mine : m <= n]]

\* Broken variant: the run history is not looked at after a restart.
LastRun_MemoryOnly(j) == lastRunTimes[j]

\* When j last ran: from memory, else from the newest record in the store.
LastRun(j) ==
  IF lastRunTimes[j] # NONE THEN lastRunTimes[j]
  ELSE LET r == NewestRecord(j)
       IN  IF r = NONE THEN NONE
           ELSE IF r.completed # NONE THEN r.completed ELSE r.started

CooldownOver(j) == \A last \in {LastRun(j)} \ {NONE} : now - last >= Cooldown

-----------------------------------------------------------------------------
(* trigger_pipeline, step by step                                          *)

Init ==
  /\ now = 0
  /\ pc = [t \in Threads |-> "idle"]
  /\ job = [t \in Threads |-> NONE] /\ run = [t \in Threads |-> NONE]
  /\ record = [r \in Runs |-> NONE]
  /\ lastRunTimes = [j \in Jobs |-> NONE]
  /\ files = <<>> /\ disk = [r \in Runs |-> NONE]
  /\ listed = [t \in Threads |-> <<>>]
  /\ manifest = [r \in Runs |-> NONE]
  /\ nextRun = 1 /\ crashes = 0
  /\ lastSeen = [j \in Jobs |-> NONE]
  /\ unsaved = {}

Goto(t, from, to) == pc[t] = from /\ pc' = [pc EXCEPT ![t] = to]

\* The request is over, and what its thread held is gone.
Leave(t, from) ==
  /\ Goto(t, from, "idle")
  /\ job' = [job EXCEPT ![t] = NONE] /\ run' = [run EXCEPT ![t] = NONE]
  /\ listed' = [listed EXCEPT ![t] = <<>>]

\* A request inside the cooldown is answered 429 and changes nothing.
Trigger(t) ==
  \E j \in Jobs :
    /\ CooldownOver(j)
    /\ Goto(t, "idle", "gate")
    /\ job' = [job EXCEPT ![t] = j]
    /\ UNCHANGED <<now, run, record, lastRunTimes, store, manifest, nextRun,
                   crashes, lastSeen, unsaved>>

\* Live-data pipelines are turned away while the market is closed.
MarketClosed(t) ==
  /\ job[t] \in LiveJobs
  /\ Leave(t, "gate")
  /\ UNCHANGED <<now, record, lastRunTimes, files, disk, manifest, nextRun,
                 crashes, lastSeen, unsaved>>

NewRecord(j) ==
  [job |-> j, status |-> "running", started |-> now, completed |-> NONE]

CreateRecord(t) ==
  /\ nextRun <= MaxRuns
  /\ Goto(t, "gate", "open_first")
  /\ run' = [run EXCEPT ![t] = nextRun]
  /\ record' = [record EXCEPT ![nextRun] = NewRecord(job[t])]
  /\ nextRun' = nextRun + 1
  /\ UNCHANGED <<now, job, lastRunTimes, store, manifest, crashes, lastSeen, unsaved>>

\* The members of a sequence at some of its places, in their order.
Those(s, places) ==
  [n \in 1 .. Cardinality(places) |->
     s[CHOOSE i \in places : Cardinality({j \in places : j < i}) = n - 1]]
FilesIn(S) == Those(files, {n \in DOMAIN files : files[n] \in S})

Newest(r) == Append(FilesIn(Runs \ {r}), r)

\* path.write_text first creates or truncates the file ...
OpenFile(t) ==
  /\ \/ Goto(t, "open_first", "write_first")
     \/ Goto(t, "open_last", "write_last")
  /\ files' = Newest(run[t])
  /\ disk' = [disk EXCEPT ![run[t]] = TORN]
  /\ UNCHANGED <<now, job, run, record, lastRunTimes, listed, manifest, nextRun,
                 crashes, lastSeen, unsaved>>

\* ... and then writes the record, into nothing if another request's retention
\* has removed the open file meanwhile.
WriteFile(t) ==
  /\ \/ Goto(t, "write_first", "list_first")
     \/ Goto(t, "write_last", "list_last")
  /\ IF run[t] \in ToSet(files)
     THEN /\ files' = Newest(run[t])
          /\ disk' = [disk EXCEPT ![run[t]] = record[run[t]]]
          /\ lastSeen' = [lastSeen EXCEPT ![job[t]] =
                            IF pc[t] = "write_first" THEN record[run[t]].started
                            ELSE record[run[t]].completed]
     ELSE UNCHANGED <<files, disk, lastSeen>>
  /\ UNCHANGED <<now, job, run, record, lastRunTimes, listed, manifest, nextRun,
                 crashes, unsaved>>

\* The file cannot be opened, or is opened and cannot be written: the exception
\* ends the request, and at the last record leaves its outcome unsaved.
SaveFails(t) ==
  /\ "save" \in Faults
  /\ \/ Leave(t, "open_first") \/ Leave(t, "open_last")
     \/ "torn" \in Faults /\ (Leave(t, "write_first") \/ Leave(t, "write_last"))
  /\ unsaved' = IF pc[t] \in {"open_last", "write_last"} THEN unsaved \union {run[t]} ELSE unsaved
  /\ UNCHANGED <<now, record, lastRunTimes, files, disk, manifest, nextRun,
                 crashes, lastSeen>>

\* Retention takes three steps: the names, their mtimes, the removal.
ListFiles(t) ==
  /\ \/ Goto(t, "list_first", "sort_first")
     \/ Goto(t, "list_last", "sort_last")
  /\ listed' = [listed EXCEPT ![t] = files]
  /\ UNCHANGED <<now, job, run, record, lastRunTimes, files, disk, manifest,
                 nextRun, crashes, lastSeen, unsaved>>

SortFiles(t) ==
  /\ ToSet(listed[t]) \subseteq ToSet(files)
  /\ \/ Goto(t, "sort_first", "retain_first")
     \/ Goto(t, "sort_last", "retain_last")
  /\ listed' = [listed EXCEPT ![t] = FilesIn(ToSet(listed[t]))]
  /\ UNCHANGED <<now, job, run, record, lastRunTimes, files, disk, manifest,
                 nextRun, crashes, lastSeen, unsaved>>

\* A listed file that another thread has removed meanwhile cannot be stat'ed:
\* the exception ends the request, before its pipeline has run or after.
RetentionFails(t) ==
  /\ ~(ToSet(listed[t]) \subseteq ToSet(files))
  /\ Leave(t, "sort_first") \/ Leave(t, "sort_last")
  /\ UNCHANGED <<now, record, lastRunTimes, files, disk, manifest, nextRun,
                 crashes, lastSeen, unsaved>>

\* The first n of the files s, which are sorted by mtime.
Oldest(s, n) == {s[m] : m \in 1..n}

\* The records beyond max_history go, the oldest by the mtimes sorted before;
\* a file that is already gone is passed over.
EnforceRetention(t) ==
  LET excess == Len(listed[t]) - MaxHistory
      gone   == IF excess > 0 THEN Oldest(listed[t], excess) ELSE {}
  IN  /\ \/ /\ Goto(t, "retain_first", "run")
            /\ listed' = [listed EXCEPT ![t] = <<>>]
            /\ UNCHANGED <<job, run>>
         \/ Leave(t, "retain_last")
      /\ files' = FilesIn(Runs \ gone)
      /\ disk' = [r \in Runs |-> IF r \in gone THEN NONE ELSE disk[r]]
      /\ UNCHANGED <<now, record, lastRunTimes, manifest, nextRun, crashes,
                     lastSeen, unsaved>>

\* The runner returns, successfully or not, or raises.
RunPipeline(t) ==
  /\ Goto(t, "run", "manifest")
  /\ \E s \in FinalStatus :
       record' = [record EXCEPT ![run[t]].status = s,
                                ![run[t]].completed = now]
  /\ UNCHANGED <<now, job, run, lastRunTimes, store, manifest, nextRun, crashes,
                 lastSeen, unsaved>>

\* Broken variant: a manifest that cannot be written is passed over.
WriteManifest_Skippable(t) ==
  /\ Goto(t, "manifest", "stamp")
  /\ manifest' \in {manifest,
                    [manifest EXCEPT ![run[t]] = record[run[t]].status]}
  /\ UNCHANGED <<now, job, run, record, lastRunTimes, store, nextRun, crashes,
                 lastSeen, unsaved>>

WriteManifest(t) ==
  /\ Goto(t, "manifest", "stamp")
  /\ manifest' = [manifest EXCEPT ![run[t]] = record[run[t]].status]
  /\ UNCHANGED <<now, job, run, record, lastRunTimes, store, nextRun, crashes,
                 lastSeen, unsaved>>

\* mkdir or write_text raises: nothing below it happens.
ManifestFails(t) ==
  /\ "manifest" \in Faults
  /\ Leave(t, "manifest")
  /\ UNCHANGED <<now, record, lastRunTimes, files, disk, manifest, nextRun,
                 crashes, lastSeen, unsaved>>

\* Broken variant: the outcome is left in memory.
StampLastRun_Returns(t) ==
  /\ Leave(t, "stamp")
  /\ lastRunTimes' = [lastRunTimes EXCEPT ![job[t]] = now]
  /\ UNCHANGED <<now, record, files, disk, manifest, nextRun, crashes, lastSeen, unsaved>>

StampLastRun(t) ==
  /\ Goto(t, "stamp", "open_last")
  /\ lastRunTimes' = [lastRunTimes EXCEPT ![job[t]] = now]
  /\ UNCHANGED <<now, job, run, record, store, manifest, nextRun, crashes,
                 lastSeen, unsaved>>

-----------------------------------------------------------------------------
(* The environment                                                         *)

Tick ==
  /\ now < MaxTime
  /\ now' = now + 1
  /\ UNCHANGED <<pc, job, run, record, lastRunTimes, store, manifest, nextRun,
                 crashes, lastSeen, unsaved>>

\* The process dies and is started again.
Crash ==
  /\ "crash" \in Faults /\ crashes < MaxCrashes
  /\ "torn" \notin Faults =>
       \A t \in Threads : pc[t] \notin {"write_first", "write_last"}
  /\ crashes' = crashes + 1
  /\ pc' = [t \in Threads |-> "idle"]
  /\ job' = [t \in Threads |-> NONE] /\ run' = [t \in Threads |-> NONE]
  /\ listed' = [t \in Threads |-> <<>>]
  /\ lastRunTimes' = [j \in Jobs |-> NONE]
  /\ UNCHANGED <<now, record, files, disk, manifest, nextRun, lastSeen, unsaved>>

\* The steps that end without waiting for anything outside the service.
Handle(t) ==
  \/ MarketClosed(t) \/ CreateRecord(t)
  \/ OpenFile(t) \/ WriteFile(t) \/ SaveFails(t)
  \/ ListFiles(t) \/ SortFiles(t) \/ RetentionFails(t) \/ EnforceRetention(t)
  \/ WriteManifest(t) \/ ManifestFails(t) \/ StampLastRun(t)

Next ==
  \/ \E t \in Threads : Trigger(t) \/ Handle(t) \/ RunPipeline(t)
  \/ Tick
  \/ Crash

Spec == Init /\ [][Next]_vars

\* A request that has work to do goes on; the pipeline may run for ever.
FairSpec == Spec /\ \A t \in Threads : WF_vars(Handle(t))

-----------------------------------------------------------------------------
(* Properties                                                              *)

\* Types of the state, and the store is in one piece: a file for every run
\* whose content is there, in a list without repetitions.
TypeOK ==
  /\ now \in 0..MaxTime
  /\ pc \in [Threads -> Steps]
  /\ job \in [Threads -> Jobs \union {NONE}]
  /\ run \in [Threads -> Runs \union {NONE}]
  /\ record \in [Runs -> Record \union {NONE}]
  /\ lastRunTimes \in [Jobs -> (0..MaxTime) \union {NONE}]
  /\ lastSeen \in [Jobs -> (0..MaxTime) \union {NONE}]
  /\ IsInjective(files)
  /\ ToSet(files) = {r \in Runs : disk[r] # NONE}
  /\ \A r \in Runs : disk[r] \in Record \union {NONE, TORN}
  /\ manifest \in [Runs -> FinalStatus \union {NONE}]
  /\ nextRun \in 1 .. (MaxRuns + 1) /\ crashes \in 0..MaxCrashes
  /\ unsaved \subseteq Runs

\* AUTOMATION.md:35-36, the cooldown holds between the runs of a job and
\* "survives process restart": a run is dispatched only a cooldown after the
\* job's last run started, and after the end its record gives.
CooldownRespected ==
  [][\A t \in Threads :
       pc[t] = "gate" /\ pc'[t] = "open_first" /\ lastSeen[job[t]] # NONE
         => now - lastSeen[job[t]] >= Cooldown]_vars

\* A final record is in the store only with a manifest that says the same,
\* whatever crashes and whichever other requests come in between.
FinalRecordsHaveManifests ==
  \A r \in Runs :
    disk[r] \in Record /\ disk[r].status \in FinalStatus
      => manifest[r] = disk[r].status

\* A run whose manifest has been written and whose record could be written does not
\* stay on record as RUNNING or as half a file: in the end its record gives the
\* outcome for good, or is gone from the history, whatever other requests remove
\* from it meanwhile and whichever of them fail.
ReturnedRunsAreSettled ==
  \A r \in Runs :
    manifest[r] # NONE
      ~> [](r \notin unsaved /\ disk[r] # NONE => disk[r] # TORN /\ disk[r].status = manifest[r])

-----------------------------------------------------------------------------
(* What the documentation says and the code does not do                    *)

\* scheduler_service.py:6, "Rate-limits to prevent duplicate runs".
NoDuplicateRuns ==
  \A t, u \in Threads :
    pc[t] = "run" /\ pc[u] = "run" /\ job[t] = job[u] => t = u
=============================================================================
