--------------------- MODULE AutomationScheduler_proofs ---------------------
(***************************************************************************)
(* A final record in the store is backed by a manifest, for any number of  *)
(* threads, jobs and runs.  The argument follows a run: its thread is the  *)
(* only one that writes its record, its manifest and its file, the record  *)
(* says "running" until the pipeline returns, and the manifest says what   *)
(* the record says from then until the file is written again.              *)
(* The second theorem is of the cooldown, which the store must not forget: *)
(* files are in the order of their runs, and those after the last one of a *)
(* job that ran within the cooldown are too few to push it out.            *)
(***************************************************************************)
EXTENDS AutomationScheduler, SetSums, TLAPS

Working(t) == pc[t] \notin {"idle", "gate"}

\* The pipeline has not returned, the manifest is not written, the outcome is
\* not on disk.
Opening == {"open_first", "write_first", "list_first", "sort_first", "retain_first", "run"}
Closing == {"stamp", "open_last", "write_last"}

Final(r) == disk[r] \in Record /\ disk[r].status \in FinalStatus

StoreShape ==
  /\ now \in 0..MaxTime
  /\ pc \in [Threads -> Steps]
  /\ job \in [Threads -> Jobs \union {NONE}]
  /\ run \in [Threads -> Runs \union {NONE}]
  /\ record \in [Runs -> Record \union {NONE}]
  /\ disk \in [Runs -> Record \union {NONE, TORN}]
  /\ manifest \in [Runs -> FinalStatus \union {NONE}]
  /\ nextRun \in Nat \ {0}
  /\ \A t \in Threads : pc[t] # "idle" => job[t] \in Jobs

\* A thread at work has a run of its own, with a record in memory.
Owned ==
  /\ \A t \in Threads : Working(t) =>
       run[t] \in Runs /\ run[t] < nextRun /\ record[run[t]] \in Record
  /\ \A t, u \in Threads : Working(t) /\ Working(u) /\ run[t] = run[u] => t = u

Phases ==
  \A t \in Threads :
    /\ pc[t] \in Opening => record[run[t]].status = "running"
    /\ pc[t] = "manifest" => record[run[t]].status \in FinalStatus
    /\ pc[t] \in Closing => manifest[run[t]] = record[run[t]].status
    /\ pc[t] \in Opening \union {"manifest"} => ~Final(run[t])

\* Ids that have not been given out have no file.
Fresh == \A r \in Runs : r >= nextRun => disk[r] = NONE

IInv == StoreShape /\ Owned /\ Phases /\ Fresh /\ FinalRecordsHaveManifests

LEMMA Absent == NONE \notin Record /\ TORN \notin Record /\ NONE \notin Nat
  BY ConfigAssumption, AbsentAssumption

LEMMA InitHolds == Init => IInv
<1> SUFFICES ASSUME Init
             PROVE  IInv
  OBVIOUS
<1>1. StoreShape
  BY ConfigAssumption DEF Init, StoreShape, Steps
<1>2. Owned /\ Phases
  BY DEF Init, Owned, Phases, Working, Opening, Closing
<1>3. Fresh /\ FinalRecordsHaveManifests
  BY Absent DEF Init, Fresh, FinalRecordsHaveManifests
<1> QED
  BY <1>1, <1>2, <1>3 DEF IInv

-----------------------------------------------------------------------------
(* Steps that leave records, files and manifests as they are               *)

\* A thread goes on to a place whose demands its old place met already, or gives
\* up its run.
Onward(t) ==
  /\ UNCHANGED <<record, disk, manifest, nextRun>>
  /\ pc' \in [Threads -> Steps] /\ job' \in [Threads -> Jobs \union {NONE}]
  /\ run' \in [Threads -> Runs \union {NONE}]
  /\ \A u \in Threads \ {t} : pc'[u] = pc[u] /\ run'[u] = run[u] /\ job'[u] = job[u]
  /\ pc'[t] # "idle" => job'[t] \in Jobs
  /\ pc'[t] \notin {"idle", "gate"} =>
       /\ Working(t) /\ run'[t] = run[t]
       /\ pc'[t] \in Opening => pc[t] \in Opening
       /\ pc'[t] # "manifest"
       /\ pc'[t] \in Closing => pc[t] \in Closing

LEMMA OnwardKeeps ==
  ASSUME IInv, NEW t \in Threads, Onward(t), now' \in 0..MaxTime
  PROVE  IInv'
<1>1. StoreShape'
  BY DEF IInv, StoreShape, Onward
<1>2. Owned'
  BY DEF IInv, Owned, Onward, Working
<1>3. Phases'
  BY DEF IInv, Phases, Onward, Working, Final, Opening, Closing
<1>4. Fresh' /\ FinalRecordsHaveManifests'
  BY DEF IInv, Fresh, FinalRecordsHaveManifests, Onward
<1> QED
  BY <1>1, <1>2, <1>3, <1>4 DEF IInv

\* Requests that come in, are turned away, fail, or look at the files.
LEMMA PassingKeeps ==
  ASSUME IInv, NEW t \in Threads,
         \/ Trigger(t) \/ MarketClosed(t) \/ ListFiles(t) \/ SortFiles(t)
         \/ SaveFails(t) \/ RetentionFails(t) \/ ManifestFails(t) \/ StampLastRun(t)
  PROVE  IInv'
<1> USE DEF IInv, StoreShape
<1>1. CASE Trigger(t)
  <2>1. Onward(t)
    BY <1>1 DEF Trigger, Goto, store, Onward, Steps
  <2> QED
    BY <1>1, <2>1, OnwardKeeps DEF Trigger
<1>2. ASSUME NEW from \in Steps, Leave(t, from), UNCHANGED <<now, record, disk, manifest, nextRun>>
      PROVE  IInv'
  <2>1. Onward(t)
    BY <1>2 DEF Leave, Goto, Onward, Steps
  <2> QED
    BY <1>2, <2>1, OnwardKeeps
<1>3. CASE MarketClosed(t) \/ SaveFails(t) \/ RetentionFails(t) \/ ManifestFails(t)
  BY <1>2, <1>3 DEF MarketClosed, SaveFails, RetentionFails, ManifestFails, Steps
<1>4. CASE ListFiles(t) \/ SortFiles(t) \/ StampLastRun(t)
  <2>1. Onward(t)
    BY <1>4 DEF ListFiles, SortFiles, StampLastRun, Goto, store, Onward, Working, Steps,
                Opening, Closing
  <2> QED
    BY <1>4, <2>1, OnwardKeeps DEF ListFiles, SortFiles, StampLastRun
<1> QED
  BY <1>1, <1>3, <1>4

-----------------------------------------------------------------------------
(* Steps that write                                                        *)

LEMMA CreateRecordKeeps ==
  ASSUME IInv, NEW t \in Threads, CreateRecord(t)
  PROVE  IInv'
<1> USE DEF CreateRecord, Goto, store
<1>1. nextRun \in Runs /\ job[t] \in Jobs /\ pc[t] = "gate" /\ now \in 0..MaxTime
  BY ConfigAssumption DEF IInv, StoreShape, Runs
<1>2. NewRecord(job[t]) \in Record /\ NewRecord(job[t]).status = "running"
  BY <1>1 DEF NewRecord, Record
<1>3. \A u \in Threads : Working(u) => run[u] # nextRun
  BY DEF IInv, Owned, StoreShape, Runs
<1>4. StoreShape'
  BY <1>1, <1>2 DEF IInv, StoreShape, Steps
<1>5. Owned'
  <2>1. record'[nextRun] = NewRecord(job[t])
    BY <1>1 DEF IInv, StoreShape
  <2>2. \A r \in Runs : r # nextRun => record'[r] = record[r]
    BY DEF IInv, StoreShape
  <2>3. /\ pc'[t] = "open_first" /\ run'[t] = nextRun
        /\ \A u \in Threads \ {t} : pc'[u] = pc[u] /\ run'[u] = run[u]
    BY DEF IInv, StoreShape
  <2>4. nextRun < nextRun' /\ nextRun \in Nat
    BY DEF IInv, StoreShape
  <2> QED
    BY <1>1, <1>2, <1>3, <2>1, <2>2, <2>3, <2>4 DEF IInv, Owned, Working, Runs
<1>6. Phases'
  <2>1. record'[nextRun] = NewRecord(job[t]) /\ ~Final(nextRun)
    BY <1>1, Absent DEF IInv, StoreShape, Fresh, Final
  <2>2. \A r \in Runs : r # nextRun => record'[r] = record[r]
    BY DEF IInv, StoreShape
  <2>3. /\ pc'[t] = "open_first" /\ run'[t] = nextRun
        /\ \A u \in Threads \ {t} : pc'[u] = pc[u] /\ run'[u] = run[u]
    BY DEF IInv, StoreShape
  <2>4. \A u \in Threads : Working(u) => run[u] \in Runs
    BY DEF IInv, Owned
  <2> QED
    BY <1>2, <1>3, <2>1, <2>2, <2>3, <2>4
    DEF IInv, Phases, Working, Final, Opening, Closing
<1>7. Fresh' /\ FinalRecordsHaveManifests'
  BY DEF IInv, StoreShape, Fresh, FinalRecordsHaveManifests, Runs
<1> QED
  BY <1>4, <1>5, <1>6, <1>7 DEF IInv

\* A thread that changes the file of its run alone, to what may stand there.
LEMMA OpenFileKeeps ==
  ASSUME IInv, NEW t \in Threads, OpenFile(t)
  PROVE  IInv'
<1> USE DEF OpenFile, Goto
<1>1. Working(t) /\ run[t] \in Runs /\ run[t] < nextRun
  BY DEF IInv, Owned, Working
<1>2. /\ disk'[run[t]] = TORN
      /\ \A r \in Runs : r # run[t] => disk'[r] = disk[r]
  BY <1>1 DEF IInv, StoreShape
<1>3. \A r \in Runs : Final(r)' => Final(r) /\ disk'[r] = disk[r]
  BY <1>2, Absent DEF Final
<1>4. StoreShape'
  BY <1>1 DEF IInv, StoreShape, Steps
<1>5. Owned'
  BY <1>1 DEF IInv, StoreShape, Owned, Working
<1>6. Phases'
  <2>1. \A u \in Threads : Working(u) => run[u] \in Runs
    BY DEF IInv, Owned
  <2>2. \A u \in Threads : /\ pc'[u] \in Opening => pc[u] \in Opening
                           /\ pc'[u] = "manifest" => pc[u] = "manifest"
                           /\ pc'[u] \in Closing => pc[u] \in Closing
    BY DEF IInv, StoreShape, Opening, Closing
  <2> QED
    BY <1>3, <2>1, <2>2 DEF IInv, Phases, Working, Opening, Closing
<1>7. Fresh'
  BY <1>1, <1>2 DEF IInv, StoreShape, Fresh, Runs
<1>8. FinalRecordsHaveManifests'
  BY <1>3 DEF IInv, FinalRecordsHaveManifests, Final
<1> QED
  BY <1>4, <1>5, <1>6, <1>7, <1>8 DEF IInv

\* What is written is the record in memory: "running" the first time, what the
\* manifest says the second.
LEMMA WriteFileKeeps ==
  ASSUME IInv, NEW t \in Threads, WriteFile(t)
  PROVE  IInv'
<1> USE DEF WriteFile, Goto
<1>1. /\ Working(t) /\ run[t] \in Runs /\ run[t] < nextRun /\ record[run[t]] \in Record
      /\ pc[t] \in {"write_first", "write_last"}
  BY DEF IInv, Owned, Working
<1>2. /\ disk'[run[t]] \in {disk[run[t]], record[run[t]]}
      /\ \A r \in Runs : r # run[t] => disk'[r] = disk[r]
  BY <1>1 DEF IInv, StoreShape
<1>3. /\ pc[t] = "write_first" => record[run[t]].status = "running"
      /\ pc[t] = "write_last" => manifest[run[t]] = record[run[t]].status
  BY DEF IInv, Phases, Opening, Closing
<1>4. StoreShape'
  BY <1>1 DEF IInv, StoreShape, Steps
<1>5. Owned'
  BY <1>1 DEF IInv, StoreShape, Owned, Working
<1>6. Phases'
  <2>1. \A u \in Threads : Working(u) /\ u # t => run[u] # run[t] /\ run[u] \in Runs
    BY <1>1 DEF IInv, Owned
  <2>2. \A u \in Threads : /\ pc'[u] \in Opening => pc[u] \in Opening
                           /\ pc'[u] = "manifest" => pc[u] = "manifest"
                           /\ pc'[u] \in Closing => pc[u] \in Closing
    BY DEF IInv, StoreShape, Opening, Closing
  <2>3. \A u \in Threads : u # t /\ Working(u) /\ Final(run[u])' => Final(run[u])
    BY <1>2, <2>1 DEF Final
  <2>4. pc[t] = "write_first" /\ Final(run[t])' => Final(run[t])
    BY <1>1, <1>2, <1>3 DEF Final, FinalStatus
  <2>5. pc[t] = "write_last" => pc'[t] = "list_last"
    BY DEF IInv, StoreShape
  <2> QED
    BY <1>1, <2>2, <2>3, <2>4, <2>5 DEF IInv, Phases, Working, Opening, Closing
<1>7. Fresh'
  BY <1>1, <1>2 DEF IInv, StoreShape, Fresh, Runs
<1>8. FinalRecordsHaveManifests'
  BY <1>1, <1>2, <1>3 DEF IInv, FinalRecordsHaveManifests, FinalStatus
<1> QED
  BY <1>4, <1>5, <1>6, <1>7, <1>8 DEF IInv

\* Removing files of whichever runs, at work or not, breaks nothing.
LEMMA EnforceRetentionKeeps ==
  ASSUME IInv, NEW t \in Threads, EnforceRetention(t)
  PROVE  IInv'
<1> USE DEF EnforceRetention, Goto, Leave
<1>1. \A r \in Runs : disk'[r] \in {NONE, disk[r]}
  OBVIOUS
<1>2. \A r \in Runs : Final(r)' => Final(r) /\ disk'[r] = disk[r]
  BY <1>1, Absent DEF Final
<1>3. StoreShape'
  <2>1. disk' \in [Runs -> Record \union {NONE, TORN}]
    BY <1>1 DEF IInv, StoreShape
  <2>2. job' \in [Threads -> Jobs \union {NONE}] /\ run' \in [Threads -> Runs \union {NONE}]
    BY DEF IInv, StoreShape
  <2>3. /\ pc' \in [Threads -> Steps]
        /\ \A u \in Threads : pc'[u] # "idle" => job'[u] \in Jobs
    BY DEF IInv, StoreShape, Steps
  <2> QED
    BY <2>1, <2>2, <2>3 DEF IInv, StoreShape
<1>4. /\ \A u \in Threads : Working(u)' => Working(u) /\ run'[u] = run[u]
      /\ \A u \in Threads : /\ pc'[u] \in Opening => pc[u] \in Opening
                            /\ pc'[u] = "manifest" => pc[u] = "manifest"
                            /\ pc'[u] \in Closing => pc[u] \in Closing
  BY DEF IInv, StoreShape, Working, Opening, Closing
<1>5. Owned'
  BY <1>4 DEF IInv, Owned, Working
<1>6. Phases'
  <2>1. \A u \in Threads : Working(u) => run[u] \in Runs
    BY DEF IInv, Owned
  <2> QED
    BY <1>2, <1>4, <2>1 DEF IInv, Phases, Working, Opening, Closing
<1>7. Fresh'
  BY <1>1 DEF IInv, Fresh
<1>8. FinalRecordsHaveManifests'
  BY <1>2 DEF IInv, FinalRecordsHaveManifests, Final
<1> QED
  BY <1>3, <1>5, <1>6, <1>7, <1>8 DEF IInv

\* Only the record in memory gets the outcome.
LEMMA RunPipelineKeeps ==
  ASSUME IInv, NEW t \in Threads, RunPipeline(t)
  PROVE  IInv'
<1> USE DEF RunPipeline, Goto, store
<1>1. Working(t) /\ run[t] \in Runs /\ run[t] < nextRun /\ record[run[t]] \in Record
  BY DEF IInv, Owned, Working
<1>2. PICK s \in FinalStatus :
        record' = [record EXCEPT ![run[t]].status = s, ![run[t]].completed = now]
  OBVIOUS
<1>3. /\ record'[run[t]] \in Record /\ record'[run[t]].status = s
      /\ \A r \in Runs : r # run[t] => record'[r] = record[r]
  BY <1>1, <1>2 DEF IInv, StoreShape, Record
<1>4. StoreShape'
  <2>1. record' \in [Runs -> Record \union {NONE}]
    BY <1>2, <1>3 DEF IInv, StoreShape
  <2> QED
    BY <2>1 DEF IInv, StoreShape, Steps
<1>5. \A u \in Threads : Working(u) /\ u # t => run[u] # run[t] /\ run[u] \in Runs
  BY <1>1 DEF IInv, Owned
<1>6. /\ pc'[t] = "manifest" /\ pc[t] = "run"
      /\ \A u \in Threads \ {t} : pc'[u] = pc[u]
  BY DEF IInv, StoreShape
<1>7. Owned'
  BY <1>1, <1>3, <1>6 DEF IInv, Owned, Working
<1>8. Phases'
  <2>1. ~Final(run[t])
    BY <1>6 DEF IInv, Phases, Opening
  <2>2. \A r \in Runs : Final(r)' = Final(r)
    BY DEF Final
  <2>3. /\ \A u \in Threads : Working(u)' = Working(u)
        /\ pc'[t] \notin Opening \union Closing
    BY <1>6 DEF Working, Opening, Closing
  <2>4. ASSUME NEW u \in Threads, u # t, Working(u)
        PROVE  Phases!(u)'
    <3>1. run[u] # run[t] /\ run[u] \in Runs
      BY <1>5, <2>4
    <3>2. Phases!(u)
      BY DEF IInv, Phases
    <3> QED
      BY <1>3, <1>6, <2>2, <2>4, <3>1, <3>2
  <2>5. ASSUME NEW u \in Threads, ~Working(u)
        PROVE  Phases!(u)'
    BY <2>3, <2>5 DEF Working, Opening, Closing
  <2>6. Phases!(t)'
    BY <1>1, <1>3, <1>6, <2>1, <2>2, <2>3 DEF Opening
  <2> QED
    BY <2>4, <2>5, <2>6 DEF Phases
<1>9. Fresh' /\ FinalRecordsHaveManifests'
  BY DEF IInv, Fresh, FinalRecordsHaveManifests
<1> QED
  BY <1>4, <1>7, <1>8, <1>9 DEF IInv

\* The manifest is written while no final record of the run is on disk.
LEMMA WriteManifestKeeps ==
  ASSUME IInv, NEW t \in Threads, WriteManifest(t)
  PROVE  IInv'
<1> USE DEF WriteManifest, Goto, store
<1>1. /\ Working(t) /\ run[t] \in Runs /\ run[t] < nextRun
      /\ record[run[t]].status \in FinalStatus /\ ~Final(run[t])
  BY DEF IInv, Owned, Phases, Working
<1>2. /\ manifest'[run[t]] = record[run[t]].status
      /\ \A r \in Runs : r # run[t] => manifest'[r] = manifest[r]
  BY <1>1 DEF IInv, StoreShape
<1>3. StoreShape'
  BY <1>1 DEF IInv, StoreShape, Steps
<1>4. /\ pc'[t] = "stamp" /\ pc[t] = "manifest"
      /\ \A u \in Threads \ {t} : pc'[u] = pc[u]
  BY DEF IInv, StoreShape
<1>5. Owned'
  BY <1>4 DEF IInv, Owned, Working
<1>6. \A u \in Threads : Working(u) /\ u # t => run[u] # run[t] /\ run[u] \in Runs
  BY <1>1 DEF IInv, Owned
<1>7. Phases'
  BY <1>1, <1>2, <1>4, <1>6 DEF IInv, Phases, Working, Final, Opening, Closing
<1>8. Fresh'
  BY DEF IInv, Fresh
<1>9. FinalRecordsHaveManifests'
  BY <1>1, <1>2 DEF IInv, FinalRecordsHaveManifests, Final
<1> QED
  BY <1>3, <1>5, <1>7, <1>8, <1>9 DEF IInv

-----------------------------------------------------------------------------
(* Time, crashes and the theorem                                           *)

\* A crash leaves nobody at work; what is on disk stays.
LEMMA EnvironmentKeeps ==
  ASSUME IInv, Tick \/ Crash
  PROVE  IInv'
<1>1. CASE Tick
  <2>1. now' \in 0..MaxTime
    BY <1>1, ConfigAssumption DEF Tick, IInv, StoreShape
  <2>2. StoreShape' /\ Owned' /\ Phases'
    BY <1>1, <2>1 DEF Tick, store, IInv, StoreShape, Owned, Phases, Working, Final
  <2> QED
    BY <1>1, <2>2 DEF Tick, store, IInv, Fresh, FinalRecordsHaveManifests
<1>2. CASE Crash
  <2>1. StoreShape'
    BY <1>2 DEF Crash, IInv, StoreShape, Steps
  <2>2. Owned' /\ Phases'
    BY <1>2 DEF Crash, Owned, Phases, Working, Opening, Closing
  <2> QED
    BY <1>2, <2>1, <2>2 DEF Crash, IInv, Fresh, FinalRecordsHaveManifests
<1> QED
  BY <1>1, <1>2

LEMMA StepKeeps == IInv /\ [Next]_vars => IInv'
<1> SUFFICES ASSUME IInv, [Next]_vars
             PROVE  IInv'
  OBVIOUS
<1>1. CASE UNCHANGED vars
  BY <1>1 DEF vars, store, IInv, StoreShape, Owned, Phases, Fresh, Working, Final,
              FinalRecordsHaveManifests
<1>2. ASSUME NEW t \in Threads, Trigger(t) \/ Handle(t) \/ RunPipeline(t)
      PROVE  IInv'
  BY <1>2, PassingKeeps, CreateRecordKeeps, OpenFileKeeps, WriteFileKeeps,
     EnforceRetentionKeeps, RunPipelineKeeps, WriteManifestKeeps DEF Handle
<1> QED
  BY <1>1, <1>2, EnvironmentKeeps DEF Next

\* However many requests interleave, whatever crashes, fails or is removed by
\* retention, a final record in the store has a manifest that says the same.
THEOREM FinalRecordsSafety == Spec => []FinalRecordsHaveManifests
<1>1. IInv => FinalRecordsHaveManifests
  BY DEF IInv
<1> QED
  BY <1>1, InitHolds, StepKeeps, PTL DEF Spec
-----------------------------------------------------------------------------
(* The cooldown                                                            *)

\* What is asked of the store and its use: requests do not overlap, a manifest can be
\* written, neither a crash nor a failing disk tears a record, and the history has room
\* for a record of every job.  A record may fail to be saved at all.
OneRequestAtATime ==
  /\ \E t : Threads = {t}
  /\ Faults \subseteq {"crash", "save"}
  /\ IsFiniteSet(Jobs) /\ Cardinality(Jobs) <= MaxHistory

Known == {r \in Runs : r < nextRun}
OnFile == {r \in Runs : disk[r] # NONE}

\* When a job ran last, as a record says it.
Seen(rec) == IF rec.completed # NONE THEN rec.completed ELSE rec.started

Rising(s) == s \in Seq(Runs) /\ \A m, n \in DOMAIN s : m < n => s[m] < s[n]

\* The store lists its files in the order of their runs, and retention lists them as well.
Listing ==
  /\ Rising(files) /\ ToSet(files) = OnFile /\ DOMAIN listed = Threads
  /\ \A t \in Threads :
       pc[t] \in {"sort_first", "retain_first", "sort_last", "retain_last"} =>
         Rising(listed[t]) /\ ToSet(listed[t]) = OnFile

\* Where the thread is, and what its record says there.
BeforeReturn == {"open_first", "write_first", "list_first", "sort_first", "retain_first", "run"}
AfterReturn == {"manifest", "stamp", "open_last", "write_last"}
AtWork ==
  /\ \A t \in Threads : Working(t) =>
       /\ run[t] = nextRun - 1 /\ record[run[t]].job = job[t]
       /\ pc[t] \in BeforeReturn => record[run[t]].completed = NONE
       /\ pc[t] \in AfterReturn => record[run[t]].completed # NONE
  /\ \A t \in Threads : pc[t] \in {"write_first", "write_last"} => disk[run[t]] = TORN
  /\ \A r \in Runs : disk[r] = TORN =>
       \E t \in Threads : pc[t] \in {"write_first", "write_last"} /\ run[t] = r

\* The records in memory and on file, and their times.
Records ==
  /\ \A r \in Known : /\ record[r] \in Record /\ record[r].started <= now
                      /\ record[r].completed # NONE =>
                           record[r].started <= record[r].completed /\ record[r].completed <= now
  /\ \A r \in OnFile : disk[r] \in Record =>
       /\ disk[r].job = record[r].job
       /\ record[r].started <= Seen(disk[r]) /\ Seen(disk[r]) <= now
       /\ lastSeen[disk[r].job] # NONE /\ Seen(disk[r]) <= lastSeen[disk[r].job]

\* Runs follow each other, those of one job a cooldown apart.
InTurn ==
  \A q, r \in Known : q < r /\ disk[q] \in Record =>
    /\ Seen(disk[q]) <= record[r].started
    /\ record[q].job = record[r].job => Seen(disk[q]) + Cooldown <= record[r].started

\* The stamps in memory are not older than the records, but for a job that is running.
UpToStamp == {"list_first", "sort_first", "retain_first", "run", "manifest", "stamp"}
Stamps ==
  /\ lastSeen \in [Jobs -> (0..MaxTime) \union {NONE}]
  /\ lastRunTimes \in [Jobs -> (0..MaxTime) \union {NONE}]
  /\ \A j \in Jobs : lastSeen[j] # NONE => lastSeen[j] <= now
  /\ \A j \in Jobs : lastSeen[j] # NONE /\ lastRunTimes[j] # NONE =>
       \/ lastSeen[j] <= lastRunTimes[j]
       \/ \E t \in Threads : pc[t] \in UpToStamp /\ job[t] = j
  /\ \A t \in Threads : pc[t] \in {"open_last", "write_last"} =>
       lastRunTimes[job[t]] # NONE /\ record[run[t]].completed <= lastRunTimes[job[t]]

\* A job that ran within the cooldown has its last run on file.
Recent(j) == lastSeen[j] # NONE /\ now - lastSeen[j] < Cooldown
LastOf(j, r) ==
  /\ r \in OnFile /\ r < nextRun /\ record[r].job = j
  /\ \A q \in Known : q > r => record[q].job # j
  /\ disk[r] \in Record => Seen(disk[r]) = lastSeen[j]
Remembered ==
  /\ \A j \in Jobs : Recent(j) => \E r \in Runs : LastOf(j, r)
  /\ \A t \in Threads : pc[t] = "gate" => ~Recent(job[t])

HistInv == Listing /\ AtWork /\ Records /\ InTurn /\ Stamps /\ Remembered

LEMMA HistoryInit == Init => HistInv
<1> SUFFICES ASSUME Init PROVE HistInv
  OBVIOUS
<1>1. /\ nextRun = 1 /\ files = <<>> /\ \A r \in Runs : disk[r] = NONE
      /\ DOMAIN listed = Threads /\ \A t \in Threads : pc[t] = "idle" /\ listed[t] = <<>>
      /\ lastSeen = [j \in Jobs |-> NONE] /\ lastRunTimes = [j \in Jobs |-> NONE]
  BY DEF Init
<1>2. Known = {} /\ OnFile = {}
  BY <1>1, ConfigAssumption DEF Known, OnFile, Runs
<1>3. Listing
  <2>1. DOMAIN <<>> = {} /\ <<>> \in Seq(Runs)
    OBVIOUS
  <2>2. Rising(<<>>) /\ ToSet(<<>>) = {}
    BY <2>1 DEF Rising, ToSet
  <2> QED
    BY <1>1, <1>2, <2>2 DEF Listing
<1>4. AtWork
  BY <1>1, AbsentAssumption DEF AtWork, Working
<1>5. Records /\ InTurn
  BY <1>2 DEF Records, InTurn
<1>6. Stamps
  BY <1>1 DEF Stamps
<1>7. Remembered
  BY <1>1 DEF Remembered, Recent
<1> QED
  BY <1>3, <1>4, <1>5, <1>6, <1>7 DEF HistInv

LEMMA SeenIsATime == \A rec \in Record : Seen(rec) \in Nat /\ rec.started \in Nat
  BY ConfigAssumption DEF Record, Seen

\* Some of the files, in their order.
LEMMA FilesInAre ==
  ASSUME Rising(files), NEW S
  PROVE  Rising(FilesIn(S)) /\ ToSet(FilesIn(S)) = ToSet(files) \cap S
<1> DEFINE P == {n \in DOMAIN files : files[n] \in S}
           c == Cardinality(P)
           f == FilesIn(S)
<1>1. /\ files \in Seq(Runs) /\ DOMAIN files = 1 .. Len(files) /\ Len(files) \in Nat
      /\ \A n \in DOMAIN files : files[n] \in Runs
  BY DEF Rising
<1>2. P \in SUBSET Int /\ IsFiniteSet(P)
  <2>1. IsFiniteSet(1 .. Len(files))
    BY <1>1, FS_Interval
  <2> QED
    BY <1>1, <2>1, FS_Subset
<1>3. f = Placed(files, P)
  BY DEF FilesIn, Those, Placed
<1>4. /\ c \in Nat
      /\ \E h \in [1 .. c -> P] :
           /\ \A n \in 1 .. c : Placed(files, P)[n] = files[h[n]]
           /\ \A n, m \in 1 .. c : n < m => h[n] < h[m]
           /\ \A i \in P : \E n \in 1 .. c : h[n] = i
  <2> HIDE DEF P
  <2> QED
    BY <1>2, AtPlaces
<1>5. \A i \in P : i \in DOMAIN files /\ files[i] \in S
  OBVIOUS
<1>6. \A i \in DOMAIN files : files[i] \in S => i \in P
  OBVIOUS
<1>12. (\A i \in P : files[i] \in Runs) => Placed(files, P) \in [1 .. c -> Runs]
  <2> HIDE DEF P
  <2> QED
    BY <1>2, PlacedIn
<1> HIDE DEF P, c, f
<1>7. PICK h \in [1 .. c -> P] :
        /\ \A n \in 1 .. c : f[n] = files[h[n]] /\ h[n] \in P
        /\ \A n, m \in 1 .. c : n < m => h[n] < h[m]
        /\ \A i \in P : \E n \in 1 .. c : h[n] = i
  BY <1>3, <1>4
<1>8. f \in [1 .. c -> Runs] /\ DOMAIN f = 1 .. c
  BY <1>1, <1>3, <1>4, <1>5, <1>12
<1>10. Rising(f)
  <2>2. f \in Seq(Runs)
    BY <1>4, <1>8
  <2>3. \A m, n \in 1 .. c : m < n => f[m] < f[n]
    BY <1>5, <1>7 DEF Rising
  <2> QED
    BY <1>8, <2>2, <2>3 DEF Rising
<1>9. ToSet(f) = ToSet(files) \cap S
  <2>1. \A x \in ToSet(f) : x \in ToSet(files) \cap S
    BY <1>5, <1>7, <1>8 DEF ToSet
  <2>2. \A x \in ToSet(files) \cap S : x \in ToSet(f)
    BY <1>6, <1>7, <1>8 DEF ToSet
  <2> QED
    BY <2>1, <2>2
<1> QED
  BY <1>9, <1>10 DEF f

\* The file of the latest run goes to the end.
LEMMA NewestIs ==
  ASSUME Rising(files), NEW r \in Runs, \A q \in ToSet(files) : q <= r
  PROVE  Rising(Newest(r)) /\ ToSet(Newest(r)) = ToSet(files) \cup {r}
<1> DEFINE f == FilesIn(Runs \ {r})
           g == Newest(r)
<1>1. /\ f \in Seq(Runs) /\ \A m, n \in DOMAIN f : m < n => f[m] < f[n]
      /\ ToSet(f) = ToSet(files) \cap (Runs \ {r})
  BY FilesInAre DEF Rising
<1>2. g = Append(f, r)
  BY DEF Newest
<1>3. PICK a : a = Len(f)
  OBVIOUS
<1> HIDE DEF f, g
<1>4. a \in Nat /\ DOMAIN f = 1 .. a
  BY <1>1, <1>3
<1>5. /\ g \in Seq(Runs) /\ DOMAIN g = 1 .. a + 1 /\ g[a + 1] = r
      /\ \A n \in 1 .. a : g[n] = f[n]
  BY <1>1, <1>2, <1>3, <1>4
<1>6. ToSet(files) \in SUBSET Runs
  BY DEF Rising, ToSet
<1>7. \A n \in 1 .. a : f[n] \in Runs /\ f[n] < r
  <2> TAKE n \in 1 .. a
  <2>1. f[n] \in ToSet(f)
    BY <1>4 DEF ToSet
  <2>2. f[n] \in ToSet(files) /\ f[n] \in Runs /\ f[n] # r
    BY <1>1, <2>1
  <2>3. \A x, y \in Runs : x <= y /\ x # y => x < y
    BY DEF Runs
  <2> QED
    BY <2>2, <2>3
<1>8. \A m, n \in 1 .. a + 1 : m < n => g[m] < g[n]
  <2> SUFFICES ASSUME NEW m \in 1 .. a + 1, NEW n \in 1 .. a + 1, m < n PROVE g[m] < g[n]
    OBVIOUS
  <2>1. m \in 1 .. a /\ (n \in 1 .. a \/ n = a + 1)
    BY <1>4
  <2>2. CASE n \in 1 .. a
    BY <1>1, <1>4, <1>5, <2>1, <2>2
  <2>3. CASE n = a + 1
    BY <1>5, <1>7, <2>1, <2>3
  <2> QED
    BY <2>1, <2>2, <2>3
<1>9. ToSet(g) = ToSet(files) \cup {r}
  <2>1. ToSet(g) = ToSet(f) \cup {r}
    <3>1. \A n \in 1 .. a + 1 : n \in 1 .. a \/ n = a + 1
      BY <1>4
    <3>2. a + 1 \in 1 .. a + 1 /\ 1 .. a \subseteq 1 .. a + 1
      BY <1>4
    <3> QED
      BY <1>4, <1>5, <3>1, <3>2 DEF ToSet
  <2> QED
    BY <1>1, <1>6, <2>1
<1> QED
  BY <1>5, <1>8, <1>9 DEF Rising, g

LEMMA RisingIs ==
  ASSUME NEW s, Rising(s)
  PROVE  /\ s \in Seq(Runs) /\ DOMAIN s = 1 .. Len(s) /\ Len(s) \in Nat
         /\ \A m \in 1 .. Len(s) : s[m] \in Runs /\ s[m] \in Int
         /\ \A m, k \in 1 .. Len(s) : m < k => s[m] < s[k]
         /\ \A m, k \in 1 .. Len(s) : s[m] = s[k] => m = k
<1>1. s \in Seq(Runs) /\ DOMAIN s = 1 .. Len(s) /\ Len(s) \in Nat
  BY DEF Rising
<1>2. PICK a : a = Len(s)
  OBVIOUS
<1>3. a \in Nat /\ DOMAIN s = 1 .. a /\ \A m \in 1 .. a : s[m] \in Runs
  BY <1>1, <1>2
<1>4. \A x \in Runs : x \in Int
  BY DEF Runs
<1>5. \A m, k \in 1 .. a : m < k => s[m] < s[k]
  BY <1>3 DEF Rising
<1>6. ASSUME NEW m \in 1 .. a, NEW k \in 1 .. a, s[m] = s[k] PROVE m = k
  <2>1. s[m] \in Int /\ ~(s[m] < s[m])
    BY <1>3, <1>4
  <2>2. ~(m < k) /\ ~(k < m)
    BY <1>5, <1>6, <2>1
  <2>3. m \in Int /\ k \in Int
    BY <1>3
  <2> QED
    BY <2>2, <2>3
<1> QED
  BY <1>1, <1>2, <1>3, <1>4, <1>5, <1>6

\* Files after the last one of a job that ran within the cooldown are of other jobs,
\* no two of them of one job: there are too few of them to be a history.
LEMMA FewFilesAfter ==
  ASSUME OneRequestAtATime, IInv, HistInv, NEW s, Rising(s), ToSet(s) = OnFile,
         NEW j \in Jobs, Recent(j), NEW n \in DOMAIN s, LastOf(j, s[n]), disk[s[n]] \in Record
  PROVE  Len(s) - n < MaxHistory
<1> DEFINE L == Len(s)
           D == (n + 1) .. L
           others == Jobs \ {j}
           jobAt == [m \in D |-> record[s[m]].job]
<1>1. /\ s \in Seq(Runs) /\ DOMAIN s = 1 .. L /\ L \in Nat /\ n \in 1 .. L
      /\ \A m \in 1 .. L : s[m] \in Runs /\ s[m] \in Int
      /\ \A m, k \in 1 .. L : m < k => s[m] < s[k]
  BY RisingIs
<1>2. \A m \in 1 .. L : s[m] \in OnFile /\ s[m] \in Known
  <2> TAKE m \in 1 .. L
  <2>1. s[m] \in OnFile
    BY <1>1 DEF ToSet
  <2>2. nextRun \in Int
    BY DEF IInv, StoreShape
  <2>3. s[m] < nextRun
    BY <1>1, <2>1, <2>2 DEF IInv, Fresh, OnFile
  <2> QED
    BY <1>1, <2>1, <2>3 DEF Known
<1>3. \A m, k \in 1 .. L : m < k => disk[s[m]] \in Record
  <2> SUFFICES ASSUME NEW m \in 1 .. L, NEW k \in 1 .. L, m < k, disk[s[m]] \notin Record
               PROVE  FALSE
    OBVIOUS
  <2>1. disk[s[m]] = TORN
    BY <1>1, <1>2 DEF OnFile, IInv, StoreShape
  <2>2. PICK t \in Threads : pc[t] \in {"write_first", "write_last"} /\ run[t] = s[m]
    BY <1>1, <2>1 DEF HistInv, AtWork
  <2>3. s[m] = nextRun - 1
    BY <2>2 DEF HistInv, AtWork, Working
  <2>4. s[m] < s[k] /\ s[k] < nextRun /\ nextRun \in Int
    BY <1>1, <1>2 DEF Known, IInv, StoreShape
  <2> QED
    BY <1>1, <2>3, <2>4
<1> DEFINE r == s[n]
<1>4. /\ record[r].job = j /\ \A q \in Known : q > r => record[q].job # j
      /\ Seen(disk[r]) = lastSeen[j]
  BY DEF LastOf
<1>5. \A m \in D : m \in 1 .. L /\ n < m /\ s[m] > r /\ s[m] \in Known /\ record[s[m]] \in Record
  <2> TAKE m \in D
  <2>1. m \in 1 .. L /\ n < m
    BY <1>1
  <2>2. s[n] < s[m] /\ s[m] \in Known
    BY <1>1, <1>2, <2>1
  <2>3. record[s[m]] \in Record
    BY <2>2 DEF HistInv, Records
  <2> QED
    BY <1>1, <2>1, <2>2, <2>3
<1>6. jobAt \in [D -> others]
  <2>1. \A m \in D : record[s[m]].job \in others
    BY <1>4, <1>5 DEF Record
  <2> QED
    BY <2>1
<1>7. \A m, k \in D : m < k => jobAt[m] # jobAt[k]
  <2> SUFFICES ASSUME NEW m \in D, NEW k \in D, m < k, record[s[m]].job = record[s[k]].job
               PROVE  FALSE
    OBVIOUS
  <2>1. /\ m \in 1 .. L /\ k \in 1 .. L /\ s[m] \in Known /\ s[k] \in Known /\ r \in Known
        /\ r < s[m] /\ s[m] < s[k]
    BY <1>1, <1>2, <1>5
  <2>2. disk[s[m]] \in Record /\ disk[r] \in Record
    BY <1>3, <2>1
  <2>3. lastSeen[j] <= record[s[m]].started
    BY <1>4, <2>1, <2>2 DEF HistInv, InTurn
  <2>4. record[s[m]].started <= Seen(disk[s[m]])
    BY <1>2, <2>1, <2>2 DEF HistInv, Records
  <2>5. Seen(disk[s[m]]) + Cooldown <= record[s[k]].started
    BY <2>1, <2>2 DEF HistInv, InTurn
  <2>6. record[s[k]].started <= now
    BY <2>1 DEF HistInv, Records
  <2>7. /\ record[s[m]].started \in Nat /\ record[s[k]].started \in Nat
        /\ Seen(disk[s[m]]) \in Nat /\ lastSeen[j] \in Nat
    BY <1>4, <1>5, <2>2, SeenIsATime
  <2>8. now \in Nat /\ Cooldown \in Nat /\ now - lastSeen[j] < Cooldown
    BY ConfigAssumption DEF IInv, StoreShape, Recent
  <2>9. \A l, a, e, b, x, z \in Int :
          l <= a /\ a <= e /\ e + z <= b /\ b <= x => ~(x - l < z)
    OBVIOUS
  <2>10. ~(now - lastSeen[j] < Cooldown)
    <3>1. /\ lastSeen[j] \in Int /\ record[s[m]].started \in Int /\ Seen(disk[s[m]]) \in Int
          /\ record[s[k]].started \in Int /\ now \in Int /\ Cooldown \in Int
      BY <2>7, <2>8
    <3> QED
      BY <2>3, <2>4, <2>5, <2>6, <2>9, <3>1
  <2> QED
    BY <2>8, <2>10
<1> HIDE DEF jobAt, others, r, L
<1>8. jobAt \in Injection(D, others)
  <2> SUFFICES ASSUME NEW m \in D, NEW k \in D, jobAt[m] = jobAt[k] PROVE m = k
    BY <1>6 DEF Injection, IsInjective
  <2>1. ~(m < k) /\ ~(k < m)
    BY <1>7
  <2>2. m \in Int /\ k \in Int
    BY <1>1
  <2> QED
    BY <2>1, <2>2
<1>9. IsFiniteSet(others) /\ Cardinality(others) = Cardinality(Jobs) - 1
  BY FS_RemoveElement DEF OneRequestAtATime, others
<1>10. IsFiniteSet(D) /\ Cardinality(D) = L - n
  <2>1. n + 1 \in Int /\ L \in Int /\ n \in Int /\ n <= L
    BY <1>1
  <2>2. IsFiniteSet(D) /\ Cardinality(D) = IF n + 1 > L THEN 0 ELSE L - (n + 1) + 1
    BY <2>1, FS_Interval
  <2> QED
    BY <2>1, <2>2
<1> HIDE DEF D
<1>11. Cardinality(D) <= Cardinality(others)
  BY <1>8, <1>9, <1>10, FS_Injection
<1>12. Cardinality(Jobs) \in Nat /\ Cardinality(Jobs) <= MaxHistory /\ MaxHistory \in Nat
  BY FS_CardinalityType, ConfigAssumption DEF OneRequestAtATime
<1>13. L \in Nat /\ n \in Int
  BY <1>1
<1> QED
  BY <1>9, <1>10, <1>11, <1>12, <1>13 DEF L

\* What stays as it is when records, files and their times do.
LEMMA RecordsStay ==
  ASSUME HistInv, UNCHANGED <<now, record, disk, nextRun, lastSeen>>
  PROVE  /\ Records' /\ InTurn' /\ OnFile' = OnFile
         /\ \A j \in Jobs : Recent(j)' <=> Recent(j)
         /\ \A j \in Jobs : Recent(j)' => \E r \in Runs : LastOf(j, r)'
<1>1. Known' = Known /\ OnFile' = OnFile
  BY DEF Known, OnFile
<1>2. Records'
  BY <1>1 DEF HistInv, Records, Seen
<1>3. InTurn'
  BY <1>1 DEF HistInv, InTurn, Seen
<1>4. \A j \in Jobs : Recent(j)' <=> Recent(j)
  BY DEF Recent
<1>5. \A j \in Jobs, r \in Runs : LastOf(j, r) => LastOf(j, r)'
  BY <1>1 DEF LastOf, Seen
<1> QED
  BY <1>1, <1>2, <1>3, <1>4, <1>5 DEF HistInv, Remembered

\* A thread that comes to rest, or waits at the gate for a job that may run.
LEMMA RestKeeps ==
  ASSUME OneRequestAtATime, HistInv, NEW t \in Threads,
         pc'[t] \in {"idle", "gate"}, pc[t] \notin UpToStamp \cup {"write_first", "write_last"},
         UNCHANGED <<now, record, lastRunTimes, files, disk, nextRun, lastSeen>>,
         DOMAIN listed' = Threads, pc'[t] = "gate" => ~Recent(job'[t])
  PROVE  HistInv'
<1>1. \A u \in Threads : u = t
  BY DEF OneRequestAtATime
<1>2. Records' /\ InTurn' /\ OnFile' = OnFile
  BY RecordsStay
<1>3. Listing'
  BY <1>1, <1>2 DEF HistInv, Listing, Rising, ToSet
<1>4. AtWork'
  BY <1>1 DEF HistInv, AtWork, Working
<1>5. Stamps'
  BY <1>1 DEF HistInv, Stamps
<1>6. Remembered'
  BY <1>1, RecordsStay DEF Remembered, Recent
<1> QED
  BY <1>2, <1>3, <1>4, <1>5, <1>6 DEF HistInv

\* Whoever is let in finds a cooldown since the last run of the job, in memory
\* or, after a restart, in the store.
LEMMA TriggerRemembers ==
  ASSUME OneRequestAtATime, IInv, IInv', HistInv, NEW t \in Threads, Trigger(t)
  PROVE  HistInv'
<1>1. \A u \in Threads : u = t
  BY DEF OneRequestAtATime
<1>2. PICK j \in Jobs : CooldownOver(j) /\ Goto(t, "idle", "gate") /\ job' = [job EXCEPT ![t] = j]
  BY DEF Trigger
<1>3. pc[t] = "idle" /\ pc'[t] = "gate" /\ job'[t] = j
  BY <1>2 DEF Goto, IInv, StoreShape
<1>4. \A r \in Runs : disk[r] # TORN
  BY <1>1, <1>3 DEF HistInv, AtWork
<1>5. ~Recent(j)
  <2> SUFFICES ASSUME Recent(j) PROVE FALSE
    OBVIOUS
  <2>1. lastSeen[j] # NONE /\ now - lastSeen[j] < Cooldown
    BY DEF Recent
  <2>2. now \in Nat /\ Cooldown \in Nat /\ lastSeen[j] \in Nat
    BY <2>1, ConfigAssumption DEF IInv, StoreShape, HistInv, Stamps
  <2>3. LastRun(j) # NONE => now - LastRun(j) >= Cooldown
    BY <1>2 DEF CooldownOver
  <2>4. CASE lastRunTimes[j] # NONE
    <3>1. lastSeen[j] <= lastRunTimes[j]
      BY <1>1, <1>3, <2>1, <2>4 DEF HistInv, Stamps, UpToStamp
    <3>2. lastRunTimes[j] \in Nat
      BY <2>4, ConfigAssumption DEF HistInv, Stamps
    <3>3. now - lastRunTimes[j] >= Cooldown
      BY <2>3, <2>4 DEF LastRun
    <3> QED
      BY <2>1, <2>2, <3>1, <3>2, <3>3
  <2>5. CASE lastRunTimes[j] = NONE
    <3>1. PICK r \in Runs : LastOf(j, r)
      BY DEF HistInv, Remembered
    <3>2. disk[r] \in Record /\ Seen(disk[r]) = lastSeen[j] /\ r \in OnFile
      BY <1>4, <3>1 DEF LastOf, OnFile, IInv, StoreShape
    <3>3. Rising(files) /\ ToSet(files) = OnFile
      BY DEF HistInv, Listing
    <3>4. PICK n \in DOMAIN files : files[n] = r
      BY <3>2, <3>3 DEF ToSet
    <3>5. Len(files) - n < MaxHistory
      BY <3>1, <3>2, <3>3, <3>4, FewFilesAfter
    <3> DEFINE mine == {m \in 1 .. Len(files) :
                          /\ m > Len(files) - MaxHistory
                          /\ disk[files[m]] # TORN /\ disk[files[m]].job = j}
               last == CHOOSE m \in mine : \A k \in mine : k <= m
    <3>6. /\ DOMAIN files = 1 .. Len(files) /\ Len(files) \in Nat
          /\ \A m, k \in 1 .. Len(files) : m < k => files[m] < files[k]
          /\ \A m \in 1 .. Len(files) : files[m] \in Runs
      BY <3>3, RisingIs
    <3>7. n \in mine
      <4>1. n > Len(files) - MaxHistory
        BY <3>5, <3>6, ConfigAssumption
      <4>2. disk[files[n]].job = j
        BY <3>1, <3>2, <3>4 DEF HistInv, Records, LastOf
      <4> QED
        BY <1>4, <3>4, <3>6, <4>1, <4>2
    <3>8. \A m \in mine : m <= n
      <4> SUFFICES ASSUME NEW m \in mine, n < m PROVE FALSE
        BY <3>6
      <4>1. m \in 1 .. Len(files) /\ disk[files[m]].job = j /\ files[m] \in Runs
        BY <3>6
      <4>2. r < files[m]
        BY <3>4, <3>6, <4>1
      <4>3. files[m] \in OnFile
        BY <3>3, <3>6, <4>1 DEF ToSet
      <4>4. disk[files[m]] \in Record
        BY <1>4, <4>1, <4>3 DEF OnFile, IInv, StoreShape
      <4>5. record[files[m]].job = j
        BY <4>1, <4>3, <4>4 DEF HistInv, Records
      <4>6. files[m] \in Known
        BY <4>1, <4>3 DEF Known, OnFile, IInv, Fresh, StoreShape, Runs
      <4>7. r \in Int /\ files[m] \in Int
        BY <4>1 DEF Runs
      <4> QED
        BY <3>1, <4>2, <4>5, <4>6, <4>7 DEF LastOf
    <3>9. last = n
      <4>1. mine \in SUBSET Int
        OBVIOUS
      <4> HIDE DEF mine
      <4>2. last \in mine /\ n <= last
        BY <3>7, <3>8
      <4>3. last <= n /\ last \in Int /\ n \in Int
        BY <3>7, <3>8, <4>1, <4>2
      <4> QED
        BY <4>2, <4>3
    <3>10. NewestRecord(j) = disk[r]
      <4>1. mine # {}
        BY <3>7
      <4>2. NewestRecord(j) = IF mine = {} THEN NONE ELSE disk[files[last]]
        BY DEF NewestRecord
      <4> HIDE DEF mine, last
      <4> QED
        BY <3>4, <3>9, <4>1, <4>2
    <3>11. NewestRecord(j) # NONE
      BY <3>2, <3>10, Absent
    <3>12. LastRun(j) = lastSeen[j]
      BY <2>5, <3>2, <3>10, <3>11 DEF LastRun, Seen
    <3> QED
      BY <2>1, <2>2, <2>3, <3>12
  <2> QED
    BY <2>4, <2>5
<1> QED
  BY <1>3, <1>5, RestKeeps DEF Trigger, store, UpToStamp, HistInv, Listing

\* A step that changes neither the records nor the files, nor the time.
LEMMA QuietStepRemembers ==
  ASSUME OneRequestAtATime, IInv, HistInv, NEW t \in Threads,
         \/ ListFiles(t)
         \/ SortFiles(t)
         \/ WriteManifest(t)
         \/ StampLastRun(t)
  PROVE  HistInv'
<1>1. \A u \in Threads : u = t
  BY DEF OneRequestAtATime
<1>2. UNCHANGED <<now, job, run, record, files, disk, nextRun, lastSeen>>
  BY DEF ListFiles, SortFiles, WriteManifest, StampLastRun, store
<1>3. /\ \/ pc[t] = "list_first" /\ pc'[t] = "sort_first"
         \/ pc[t] = "list_last" /\ pc'[t] = "sort_last"
         \/ pc[t] = "sort_first" /\ pc'[t] = "retain_first"
         \/ pc[t] = "sort_last" /\ pc'[t] = "retain_last"
         \/ pc[t] = "manifest" /\ pc'[t] = "stamp"
         \/ pc[t] = "stamp" /\ pc'[t] = "open_last"
      /\ pc[t] \in {"manifest", "stamp"} \/ lastRunTimes' = lastRunTimes
  BY DEF ListFiles, SortFiles, WriteManifest, StampLastRun, Goto, IInv, StoreShape
<1>4. Records' /\ InTurn' /\ OnFile' = OnFile
  BY <1>2, RecordsStay
<1>5. Listing'
  <2>1. Rising(files)' /\ (ToSet(files) = OnFile)'
    BY <1>2, <1>4 DEF HistInv, Listing, Rising, ToSet
  <2>2. ASSUME pc'[t] \in {"sort_first", "retain_first", "sort_last", "retain_last"}
        PROVE  Rising(listed'[t]) /\ ToSet(listed'[t]) = OnFile
    <3>1. CASE ListFiles(t)
      <4>1. listed'[t] = files
        BY <3>1 DEF ListFiles, HistInv, Listing
      <4> QED
        BY <4>1 DEF HistInv, Listing
    <3>2. CASE SortFiles(t)
      <4>1. listed'[t] = FilesIn(ToSet(listed[t]))
        BY <3>2 DEF SortFiles, HistInv, Listing
      <4>2. Rising(files) /\ ToSet(files) = OnFile /\ ToSet(listed[t]) = OnFile
        BY <3>2 DEF HistInv, Listing, SortFiles, Goto
      <4> QED
        BY <4>1, <4>2, FilesInAre
    <3>3. CASE WriteManifest(t) \/ StampLastRun(t)
      BY <2>2, <3>3 DEF WriteManifest, StampLastRun, Goto, IInv, StoreShape
    <3> QED
      BY <3>1, <3>2, <3>3
  <2>3. DOMAIN listed' = Threads
    BY DEF ListFiles, SortFiles, WriteManifest, StampLastRun, HistInv, Listing, store
  <2>4. \A u \in Threads :
          pc'[u] \in {"sort_first", "retain_first", "sort_last", "retain_last"} =>
            Rising(listed'[u]) /\ ToSet(listed'[u]) = OnFile'
    BY <1>1, <1>4, <2>2
  <2> QED
    BY <2>1, <2>3, <2>4 DEF Listing, Rising
<1>6. AtWork'
  BY <1>1, <1>2, <1>3 DEF HistInv, AtWork, Working, BeforeReturn, AfterReturn
<1>7. Stamps'
  <2>1. CASE StampLastRun(t)
    <3>1. /\ pc[t] = "stamp" /\ pc'[t] = "open_last" /\ job[t] \in Jobs /\ now \in 0..MaxTime
          /\ lastRunTimes' = [lastRunTimes EXCEPT ![job[t]] = now]
      BY <2>1 DEF StampLastRun, Goto, IInv, StoreShape
    <3>2. lastRunTimes' \in [Jobs -> (0..MaxTime) \union {NONE}] /\ lastRunTimes'[job[t]] = now
      BY <3>1 DEF HistInv, Stamps
    <3>3. now # NONE
      BY <3>1, Absent
    <3>4. record[run[t]].completed # NONE
      BY <3>1 DEF HistInv, AtWork, Working, AfterReturn
    <3>5. record[run[t]].completed <= now
      BY <3>1, <3>4 DEF HistInv, Records, IInv, Owned, Working, Known
    <3>6. ASSUME NEW i \in Jobs, lastSeen[i] # NONE, lastRunTimes'[i] # NONE
          PROVE  lastSeen[i] <= lastRunTimes'[i]
      <4>1. CASE i = job[t]
        BY <3>2, <3>6, <4>1 DEF HistInv, Stamps
      <4>2. CASE i # job[t]
        BY <1>1, <3>1, <3>6, <4>2 DEF HistInv, Stamps
      <4> QED
        BY <4>1, <4>2
    <3> QED
      BY <1>1, <1>2, <3>1, <3>2, <3>3, <3>5, <3>6 DEF HistInv, Stamps
  <2>2. CASE lastRunTimes' = lastRunTimes /\ ~StampLastRun(t)
    <3>1. pc[t] \notin {"write_first", "stamp"} /\ pc'[t] \notin {"open_last", "write_last"}
      BY <1>3, <2>2 DEF ListFiles, SortFiles, WriteManifest, Goto
    <3>2. pc[t] \in UpToStamp => pc'[t] \in UpToStamp
      BY <1>3, <3>1 DEF UpToStamp
    <3> QED
      BY <1>1, <1>2, <2>2, <3>1, <3>2 DEF HistInv, Stamps
  <2> QED
    BY <2>1, <2>2 DEF ListFiles, SortFiles, WriteManifest
<1>8. Remembered'
  BY <1>1, <1>2, <1>3, RecordsStay DEF Remembered
<1> QED
  BY <1>4, <1>5, <1>6, <1>7, <1>8 DEF HistInv

\* A new run starts a cooldown after the last run of its job that is on file.
LEMMA CreateRecordRemembers ==
  ASSUME OneRequestAtATime, IInv, IInv', HistInv, NEW t \in Threads, CreateRecord(t)
  PROVE  HistInv'
<1> DEFINE new == nextRun
           j == job[t]
<1>1. \A u \in Threads : u = t
  BY DEF OneRequestAtATime
<1>2. /\ pc[t] = "gate" /\ pc'[t] = "open_first" /\ job' = job /\ j \in Jobs
      /\ new \in Runs /\ new \in Nat /\ run'[t] = new /\ nextRun' = new + 1
      /\ record' = [record EXCEPT ![new] = NewRecord(j)]
      /\ UNCHANGED <<now, lastRunTimes, files, disk, listed, lastSeen>>
  BY ConfigAssumption DEF CreateRecord, Goto, IInv, StoreShape, Runs, store
<1>3. /\ record'[new] = NewRecord(j) /\ record'[new] \in Record
      /\ \A r \in Runs : r # new => record'[r] = record[r]
  BY <1>2 DEF IInv, StoreShape, NewRecord, Record, FinalStatus
<1>4. record'[new].job = j /\ record'[new].started = now /\ record'[new].completed = NONE
  BY <1>3 DEF NewRecord
<1>5. /\ disk[new] = NONE /\ disk[new] \notin Record /\ OnFile' = OnFile /\ new \notin OnFile
      /\ Known' = Known \cup {new} /\ new \notin Known
      /\ \A q \in Known : q \in Runs /\ q # new /\ q < new
  <2>1. disk[new] = NONE
    BY <1>2 DEF IInv, Fresh
  <2>2. \A q \in Runs : q < new + 1 <=> q < new \/ q = new
    BY <1>2 DEF Runs
  <2>3. disk[new] \notin Record /\ OnFile' = OnFile /\ new \notin OnFile
    BY <1>2, <2>1, Absent DEF OnFile
  <2>4. ~(new < new) /\ \A q \in Runs : q < new => q # new
    BY <1>2 DEF Runs
  <2>5. Known' = {r \in Runs : r < new + 1} /\ Known = {r \in Runs : r < new}
    BY <1>2 DEF Known
  <2>6. Known' = Known \cup {new} /\ new \notin Known
    BY <1>2, <2>2, <2>4, <2>5, ZenonT(30)
  <2>7. \A q \in Known : q \in Runs /\ q # new /\ q < new
    BY <2>4, <2>5
  <2> QED
    BY <2>1, <2>3, <2>6, <2>7
<1>6. Listing'
  BY <1>1, <1>2, <1>5 DEF HistInv, Listing, Rising, ToSet
<1>7. AtWork'
  <2>1. run'[t] = nextRun' - 1
    BY <1>2
  <2>2. \A r \in Runs : disk[r] # TORN
    BY <1>1, <1>2 DEF HistInv, AtWork
  <2> QED
    BY <1>1, <1>2, <1>4, <2>1, <2>2 DEF AtWork, Working, BeforeReturn, AfterReturn
<1>8. now \in Nat /\ Cooldown \in Nat
  BY ConfigAssumption DEF IInv, StoreShape
<1>9. Records'
  <2>1. \A r \in OnFile : r # new
    BY <1>5
  <2>2. \A r \in OnFile : r \in Runs /\ record'[r] = record[r]
    BY <1>3, <2>1 DEF OnFile
  <2>3. \A r \in Known : record'[r] = record[r]
    BY <1>3, <1>5
  <2> QED
    BY <1>2, <1>3, <1>4, <1>5, <1>8, <2>2, <2>3 DEF HistInv, Records, Seen
<1>10. InTurn'
  <2> SUFFICES ASSUME NEW q \in Known', NEW r \in Known', q < r, disk[q] \in Record
               PROVE  /\ Seen(disk[q]) <= record'[r].started
                      /\ record'[q].job = record'[r].job =>
                           Seen(disk[q]) + Cooldown <= record'[r].started
    BY <1>2 DEF InTurn, Seen
  <2>1. q \in Known /\ q \in OnFile /\ record'[q] = record[q] /\ q \in Runs
    BY <1>3, <1>5, Absent DEF OnFile
  <2>2. CASE r \in Known
    BY <1>3, <1>5, <2>1, <2>2 DEF HistInv, InTurn
  <2>3. CASE r = new
    <3>1. Seen(disk[q]) <= now /\ Seen(disk[q]) \in Nat
      BY <2>1, SeenIsATime DEF HistInv, Records
    <3>2. ASSUME record[q].job = j PROVE Seen(disk[q]) + Cooldown <= now
      <4>1. lastSeen[j] # NONE /\ Seen(disk[q]) <= lastSeen[j]
        BY <2>1, <3>2 DEF HistInv, Records
      <4>2. lastSeen[j] \in Nat
        BY <1>2, <4>1, ConfigAssumption DEF HistInv, Stamps
      <4>3. ~(now - lastSeen[j] < Cooldown)
        BY <1>2, <4>1 DEF HistInv, Remembered, Recent
      <4> QED
        BY <1>8, <3>1, <4>1, <4>2, <4>3
    <3> QED
      BY <1>4, <2>1, <2>3, <3>1, <3>2
  <2> QED
    BY <1>5, <2>2, <2>3
<1>11. Stamps'
  BY <1>1, <1>2 DEF HistInv, Stamps, UpToStamp
<1>12. Remembered'
  <2>1. ASSUME NEW i \in Jobs, Recent(i) PROVE \E r \in Runs : LastOf(i, r)'
    <3>1. i # j
      BY <1>2, <2>1 DEF HistInv, Remembered
    <3>2. PICK r \in Runs : LastOf(i, r)
      BY <2>1 DEF HistInv, Remembered
    <3>3. r # new /\ record'[r] = record[r] /\ r < new + 1
      BY <1>2, <1>3, <1>5, <3>2 DEF LastOf, Runs
    <3>4. \A q \in Known' : q > r => record'[q].job # i
      BY <1>3, <1>4, <1>5, <3>1, <3>2 DEF LastOf
    <3> QED
      BY <1>2, <1>5, <3>2, <3>3, <3>4 DEF LastOf, Seen
  <2> QED
    BY <1>1, <1>2, <2>1 DEF Remembered, Recent
<1> QED
  BY <1>6, <1>7, <1>9, <1>10, <1>11, <1>12 DEF HistInv

\* The record gets its outcome and its end, later than every time before it.
LEMMA RunPipelineRemembers ==
  ASSUME OneRequestAtATime, IInv, IInv', HistInv, NEW t \in Threads, RunPipeline(t)
  PROVE  HistInv'
<1> DEFINE new == run[t]
<1>1. \A u \in Threads : u = t
  BY DEF OneRequestAtATime
<1>2. /\ pc[t] = "run" /\ pc'[t] = "manifest" /\ new \in Runs /\ record[new] \in Record
      /\ new = nextRun - 1 /\ new < nextRun
      /\ UNCHANGED <<now, job, run, lastRunTimes, files, disk, listed, nextRun, lastSeen>>
  BY DEF RunPipeline, Goto, IInv, StoreShape, Owned, Working, HistInv, AtWork, store
<1>3. PICK s \in FinalStatus :
        record' = [record EXCEPT ![new].status = s, ![new].completed = now]
  BY DEF RunPipeline
<1>4. /\ record'[new].job = record[new].job /\ record'[new].started = record[new].started
      /\ record'[new].completed = now /\ record'[new] \in Record
      /\ \A r \in Runs : r # new => record'[r] = record[r]
  BY <1>2, <1>3 DEF IInv, StoreShape, Record, FinalStatus
<1>5. \A r \in Runs : record'[r].job = record[r].job /\ record'[r].started = record[r].started
  BY <1>4
<1>6. now \in Nat /\ now # NONE
  BY ConfigAssumption DEF IInv, StoreShape
<1>7. /\ Known' = Known /\ OnFile' = OnFile /\ \A q \in Known \cup OnFile : q \in Runs
      /\ new \in Known
  BY <1>2 DEF OnFile, Known
<1>8. Listing'
  BY <1>1, <1>2, <1>7 DEF HistInv, Listing, Rising, ToSet
<1>9. AtWork'
  <2>1. \A r \in Runs : disk[r] # TORN
    BY <1>1, <1>2 DEF HistInv, AtWork
  <2>2. record'[run'[t]].job = job'[t] /\ record'[run'[t]].completed # NONE /\ run'[t] = nextRun' - 1
    BY <1>2, <1>4, <1>6 DEF HistInv, AtWork, Working
  <2> QED
    BY <1>1, <1>2, <2>1, <2>2 DEF AtWork, Working, BeforeReturn, AfterReturn
<1>10. Records'
  <2>1. record[new].started <= now /\ now <= now
    BY <1>6, <1>7 DEF HistInv, Records
  <2> QED
    BY <1>2, <1>4, <1>5, <1>7, <2>1 DEF HistInv, Records, Seen
<1>11. InTurn'
  BY <1>2, <1>5, <1>7 DEF HistInv, InTurn, Seen
<1>12. Stamps'
  BY <1>1, <1>2 DEF HistInv, Stamps, UpToStamp
<1>13. Remembered'
  <2>1. \A i \in Jobs, r \in Runs : LastOf(i, r) => LastOf(i, r)'
    BY <1>2, <1>5, <1>7 DEF LastOf, Seen
  <2> QED
    BY <1>1, <1>2, <2>1 DEF HistInv, Remembered, Recent
<1> QED
  BY <1>8, <1>9, <1>10, <1>11, <1>12, <1>13 DEF HistInv

\* Time passes: what was recent may be so no longer.
LEMMA TickRemembers ==
  ASSUME IInv, IInv', HistInv, Tick
  PROVE  HistInv'
<1>1. /\ now \in Nat /\ now' = now + 1 /\ Cooldown \in Nat
      /\ UNCHANGED <<pc, job, run, record, lastRunTimes, files, disk, listed, nextRun, lastSeen>>
  BY ConfigAssumption DEF Tick, store, IInv, StoreShape
<1>2. Known' = Known /\ OnFile' = OnFile
  BY <1>1 DEF Known, OnFile
<1>3. \A x \in Int : x <= now => x <= now'
  BY <1>1
<1>4. Listing' /\ AtWork' /\ InTurn'
  BY <1>1, <1>2 DEF HistInv, Listing, Rising, ToSet, AtWork, Working, InTurn, Seen
<1>5. Records'
  <2>1. ASSUME NEW r \in Known
        PROVE  /\ record[r] \in Record /\ record[r].started <= now'
               /\ record[r].completed # NONE =>
                    record[r].started <= record[r].completed /\ record[r].completed <= now'
    <3>1. /\ record[r] \in Record /\ record[r].started \in Int /\ record[r].started <= now
          /\ record[r].completed # NONE => record[r].completed \in Int
      BY DEF HistInv, Records, Record
    <3> QED
      BY <1>3, <3>1 DEF HistInv, Records
  <2>2. ASSUME NEW r \in OnFile, disk[r] \in Record
        PROVE  Seen(disk[r]) <= now'
    BY <1>3, <2>2, SeenIsATime DEF HistInv, Records
  <2> QED
    BY <1>1, <1>2, <2>1, <2>2 DEF HistInv, Records, Seen
<1>6. \A i \in Jobs : lastSeen[i] # NONE => lastSeen[i] \in Nat /\ lastSeen[i] <= now
  BY ConfigAssumption DEF HistInv, Stamps
<1>7. Stamps'
  BY <1>1, <1>3, <1>6 DEF HistInv, Stamps
<1>8. Remembered'
  <2>1. \A i \in Jobs : Recent(i)' => Recent(i)
    BY <1>1, <1>6 DEF Recent
  <2>2. \A i \in Jobs, r \in Runs : LastOf(i, r) => LastOf(i, r)'
    BY <1>1, <1>2 DEF LastOf, Seen
  <2>3. \A t \in Threads : pc[t] = "gate" => job[t] \in Jobs
    BY DEF IInv, StoreShape
  <2> QED
    BY <1>1, <2>1, <2>2, <2>3 DEF HistInv, Remembered
<1> QED
  BY <1>4, <1>5, <1>7, <1>8 DEF HistInv

\* A crash takes the stamps in memory; the store, with no record torn, stays.
LEMMA CrashRemembers ==
  ASSUME OneRequestAtATime, IInv, HistInv, Crash
  PROVE  HistInv'
<1>1. /\ \A t \in Threads : pc[t] \notin {"write_first", "write_last"} /\ pc'[t] = "idle"
      /\ DOMAIN listed' = Threads /\ lastRunTimes' = [j \in Jobs |-> NONE]
      /\ UNCHANGED <<now, record, files, disk, nextRun, lastSeen>>
  BY DEF Crash, OneRequestAtATime
<1>2. Records' /\ InTurn' /\ OnFile' = OnFile
  BY <1>1, RecordsStay
<1>3. Listing'
  BY <1>1, <1>2 DEF HistInv, Listing, Rising, ToSet
<1>4. AtWork'
  BY <1>1 DEF HistInv, AtWork, Working
<1>5. Stamps'
  BY <1>1 DEF HistInv, Stamps
<1>6. Remembered'
  BY <1>1, RecordsStay DEF Remembered
<1> QED
  BY <1>2, <1>3, <1>4, <1>5, <1>6 DEF HistInv

\* The file of the thread's run, the latest there is, becomes the newest.
LEMMA LatestFile ==
  ASSUME OneRequestAtATime, IInv, HistInv, NEW t \in Threads, Working(t), files' = Newest(run[t])
  PROVE  /\ run[t] \in Runs /\ run[t] \in Known /\ run[t] = nextRun - 1
         /\ record[run[t]] \in Record /\ record[run[t]].job = job[t] /\ job[t] \in Jobs
         /\ \A q \in Known : ~(q > run[t])
         /\ Rising(files') /\ ToSet(files') = OnFile \cup {run[t]}
<1>1. /\ run[t] \in Runs /\ record[run[t]] \in Record /\ run[t] < nextRun
      /\ run[t] = nextRun - 1 /\ record[run[t]].job = job[t] /\ nextRun \in Nat /\ job[t] \in Jobs
  BY DEF HistInv, AtWork, IInv, Owned, StoreShape, Working
<1>2. \A q \in Runs : q < nextRun => q <= run[t] /\ ~(q > run[t])
  BY <1>1 DEF Runs
<1>3. \A q \in OnFile : q < nextRun
  BY <1>1 DEF IInv, Fresh, OnFile, Runs
<1>4. Rising(files) /\ ToSet(files) = OnFile
  BY DEF HistInv, Listing
<1>5. \A q \in ToSet(files) : q <= run[t]
  BY <1>2, <1>3, <1>4 DEF OnFile
<1> QED
  BY <1>1, <1>2, <1>4, <1>5, NewestIs DEF Known

\* A file that is opened holds no record; the one it held was not the job's last
\* word, which comes with this run.
LEMMA OpenFileRemembers ==
  ASSUME OneRequestAtATime, IInv, IInv', HistInv, NEW t \in Threads, OpenFile(t)
  PROVE  HistInv'
<1> DEFINE new == run[t]
<1>1. \A u \in Threads : u = t
  BY DEF OneRequestAtATime
<1>2. /\ \/ pc[t] = "open_first" /\ pc'[t] = "write_first"
         \/ pc[t] = "open_last" /\ pc'[t] = "write_last"
      /\ files' = Newest(new) /\ disk' = [disk EXCEPT ![new] = TORN] /\ Working(t)
      /\ UNCHANGED <<now, job, run, record, lastRunTimes, listed, nextRun, lastSeen>>
  BY DEF OpenFile, Goto, IInv, StoreShape, Working
<1>3. /\ new \in Runs /\ new \in Known /\ new = nextRun - 1
      /\ record[new].job = job[t] /\ \A q \in Known : ~(q > new)
      /\ Rising(files') /\ ToSet(files') = OnFile \cup {new}
  BY <1>2, LatestFile
<1>4. /\ disk'[new] = TORN /\ TORN # NONE /\ TORN \notin Record
      /\ \A r \in Runs : r # new => disk'[r] = disk[r]
  BY <1>2, <1>3, Absent, AbsentAssumption DEF IInv, StoreShape
<1>5. Known' = Known /\ OnFile' = OnFile \cup {new}
  BY <1>2, <1>3, <1>4 DEF Known, OnFile
<1>6. \A r \in Runs : disk'[r] \in Record => disk'[r] = disk[r] /\ r \in OnFile
  BY <1>4, Absent DEF OnFile
<1>7. Listing'
  BY <1>1, <1>2, <1>3, <1>5 DEF HistInv, Listing, Rising, ToSet
<1>8. AtWork'
  <2>1. \A r \in Runs : disk[r] # TORN
    BY <1>1, <1>2 DEF HistInv, AtWork
  <2>2. \A r \in Runs : disk'[r] = TORN => r = new
    BY <1>4, <2>1
  <2> QED
    BY <1>1, <1>2, <1>4, <2>2 DEF HistInv, AtWork, Working, BeforeReturn, AfterReturn
<1>9. Records'
  BY <1>2, <1>5, <1>6 DEF HistInv, Records, Seen, OnFile
<1>10. InTurn'
  BY <1>2, <1>5, <1>6 DEF HistInv, InTurn, Seen, Known
<1>11. Stamps'
  BY <1>1, <1>2 DEF HistInv, Stamps, UpToStamp
<1>12. Remembered'
  <2>1. ASSUME NEW i \in Jobs, NEW r \in Runs, LastOf(i, r) PROVE LastOf(i, r)'
    BY <1>2, <1>4, <1>5, <2>1 DEF LastOf, Seen
  <2> QED
    BY <1>1, <1>2, <2>1 DEF HistInv, Remembered, Recent
<1> QED
  BY <1>7, <1>8, <1>9, <1>10, <1>11, <1>12 DEF HistInv

\* The record that is written is the job's last word.
LEMMA WriteFileRemembers ==
  ASSUME OneRequestAtATime, IInv, IInv', HistInv, NEW t \in Threads, WriteFile(t)
  PROVE  HistInv'
<1> DEFINE new == run[t]
           j == job[t]
           v == Seen(record[new])
<1>1. \A u \in Threads : u = t
  BY DEF OneRequestAtATime
<1>2. /\ \/ pc[t] = "write_first" /\ pc'[t] = "list_first"
         \/ pc[t] = "write_last" /\ pc'[t] = "list_last"
      /\ Working(t)
      /\ UNCHANGED <<now, job, run, record, lastRunTimes, listed, nextRun>>
  BY DEF WriteFile, Goto, IInv, StoreShape, Working
<1>3. new \in Runs /\ disk[new] = TORN /\ new \in ToSet(files)
  BY <1>2, AbsentAssumption DEF HistInv, AtWork, Listing, OnFile, IInv, Owned
<1>4. /\ pc[t] = "write_first" => record[new].completed = NONE
      /\ pc[t] = "write_last" => record[new].completed # NONE
  BY <1>2 DEF HistInv, AtWork, BeforeReturn, AfterReturn
<1>5. /\ files' = Newest(new) /\ disk' = [disk EXCEPT ![new] = record[new]]
      /\ lastSeen' = [lastSeen EXCEPT ![j] = v]
  BY <1>2, <1>3, <1>4 DEF WriteFile, Seen
<1>6. /\ new \in Known /\ new = nextRun - 1
      /\ record[new] \in Record /\ record[new].job = j /\ j \in Jobs
      /\ \A q \in Known : ~(q > new)
      /\ Rising(files') /\ ToSet(files') = OnFile \cup {new}
  BY <1>2, <1>5, LatestFile
<1>7. /\ record[new].started \in Nat /\ v \in Nat /\ record[new].started <= v /\ v <= now
      /\ v # NONE /\ v \in 0..MaxTime
  <2>1. record[new].started \in Nat /\ v \in Nat /\ v # NONE
    BY <1>6, SeenIsATime, Absent
  <2>2. record[new].started <= v /\ v <= now
    BY <1>6, <2>1 DEF HistInv, Records, Seen
  <2>3. v \in 0..MaxTime
    BY <2>1, <2>2, ConfigAssumption DEF IInv, StoreShape
  <2> QED
    BY <2>1, <2>2, <2>3
<1>8. /\ disk'[new] = record[new]
      /\ \A r \in Runs : r # new => disk'[r] = disk[r]
      /\ lastSeen'[j] = v /\ \A i \in Jobs : i # j => lastSeen'[i] = lastSeen[i]
      /\ lastSeen' \in [Jobs -> (0..MaxTime) \union {NONE}]
  BY <1>3, <1>5, <1>6, <1>7 DEF IInv, StoreShape, HistInv, Stamps
<1>9. Known' = Known /\ OnFile' = OnFile \cup {new} /\ OnFile' = OnFile
  BY <1>2, <1>3, <1>6, <1>8, Absent, AbsentAssumption DEF Known, OnFile
<1>10. Listing'
  BY <1>1, <1>2, <1>6, <1>9 DEF HistInv, Listing, Rising, ToSet
<1>11. AtWork'
  <2>1. \A r \in Runs : disk'[r] # TORN
    BY <1>1, <1>6, <1>8, Absent DEF HistInv, AtWork
  <2> QED
    BY <1>1, <1>2, <2>1 DEF HistInv, AtWork, Working, BeforeReturn, AfterReturn
<1>12. \A r \in OnFile : disk[r] \in Record /\ record[r].job = j => Seen(disk[r]) <= v
  <2> SUFFICES ASSUME NEW r \in OnFile, disk[r] \in Record, record[r].job = j
               PROVE  Seen(disk[r]) <= v
    OBVIOUS
  <2>1. r # new /\ r \in Runs
    BY <1>3, Absent DEF OnFile
  <2>2. r \in Known
    BY <2>1, <1>6 DEF Known, OnFile, IInv, Fresh, StoreShape, Runs
  <2>3. r < new
    BY <1>3, <1>6, <2>1, <2>2 DEF Runs
  <2>4. Seen(disk[r]) <= record[new].started
    BY <1>6, <2>2, <2>3 DEF HistInv, InTurn
  <2> QED
    BY <1>7, <2>4, SeenIsATime
<1>13. Records'
  <2>1. ASSUME NEW r \in OnFile, disk'[r] \in Record
        PROVE  /\ disk'[r].job = record[r].job
               /\ record[r].started <= Seen(disk'[r]) /\ Seen(disk'[r]) <= now
               /\ lastSeen'[disk'[r].job] # NONE /\ Seen(disk'[r]) <= lastSeen'[disk'[r].job]
    <3>1. CASE r = new
      BY <1>6, <1>7, <1>8, <3>1
    <3>2. CASE r # new
      <4>1. disk'[r] = disk[r] /\ disk[r].job \in Jobs
        BY <1>8, <2>1, <3>2 DEF OnFile, Record
      <4>2. /\ disk[r].job = record[r].job
            /\ record[r].started <= Seen(disk[r]) /\ Seen(disk[r]) <= now
            /\ lastSeen[disk[r].job] # NONE /\ Seen(disk[r]) <= lastSeen[disk[r].job]
        BY <2>1, <4>1 DEF HistInv, Records
      <4>3. CASE disk[r].job = j
        BY <1>7, <1>8, <1>12, <2>1, <4>1, <4>2, <4>3
      <4>4. CASE disk[r].job # j
        BY <1>8, <4>1, <4>2, <4>4
      <4> QED
        BY <4>3, <4>4
    <3> QED
      BY <3>1, <3>2
  <2> QED
    BY <1>2, <1>9, <2>1 DEF HistInv, Records, Seen
<1>14. InTurn'
  <2> SUFFICES ASSUME NEW q \in Known, NEW r \in Known, q < r, disk'[q] \in Record
               PROVE  /\ Seen(disk'[q]) <= record[r].started
                      /\ record[q].job = record[r].job =>
                           Seen(disk'[q]) + Cooldown <= record[r].started
    BY <1>2, <1>9 DEF InTurn, Seen
  <2>1. q # new
    BY <1>6 DEF Known, Runs
  <2>2. disk'[q] = disk[q]
    BY <1>8, <2>1 DEF Known
  <2> QED
    BY <2>2 DEF HistInv, InTurn
<1>15. Stamps'
  <2>1. pc'[t] # "list_first" => lastRunTimes[j] # NONE /\ v <= lastRunTimes[j]
    BY <1>2, <1>4 DEF HistInv, Stamps, Seen
  <2>2. pc'[t] = "list_first" => pc'[t] \in UpToStamp
    BY DEF UpToStamp
  <2>3. ASSUME NEW i \in Jobs, lastSeen'[i] # NONE
        PROVE  /\ lastSeen'[i] <= now
               /\ lastRunTimes[i] # NONE => \/ lastSeen'[i] <= lastRunTimes[i]
                                            \/ pc'[t] \in UpToStamp /\ job[t] = i
    <3>1. CASE i = j
      BY <1>7, <1>8, <2>1, <2>2, <3>1
    <3>2. CASE i # j
      <4>1. lastSeen'[i] = lastSeen[i]
        BY <1>8, <3>2
      <4>2. pc[t] \notin UpToStamp
        BY <1>2 DEF UpToStamp
      <4>3. lastSeen[i] <= now /\ (lastRunTimes[i] # NONE => lastSeen[i] <= lastRunTimes[i])
        BY <1>1, <2>3, <4>1, <4>2 DEF HistInv, Stamps
      <4> QED
        BY <4>1, <4>3
    <3> QED
      BY <3>1, <3>2
  <2>4. pc'[t] \notin {"open_last", "write_last"}
    BY <1>2
  <2> QED
    BY <1>1, <1>2, <1>8, <2>3, <2>4 DEF HistInv, Stamps
<1>16. Remembered'
  <2>1. ASSUME NEW i \in Jobs, Recent(i)' PROVE \E r \in Runs : LastOf(i, r)'
    <3>1. CASE i = j
      <4>1. new \in OnFile' /\ new < nextRun' /\ record'[new].job = i
        BY <1>2, <1>6, <1>9, <3>1 DEF Known
      <4>2. \A q \in Known' : q > new => record'[q].job # i
        BY <1>6, <1>9
      <4>3. Seen(disk'[new]) = lastSeen'[i]
        BY <1>8, <3>1
      <4> QED
        BY <1>3, <4>1, <4>2, <4>3 DEF LastOf, Seen
    <3>2. CASE i # j
      <4>1. Recent(i)
        BY <1>2, <1>8, <2>1, <3>2 DEF Recent
      <4>2. PICK r \in Runs : LastOf(i, r)
        BY <4>1 DEF HistInv, Remembered
      <4>3. r # new /\ disk'[r] = disk[r]
        BY <1>6, <1>8, <3>2, <4>2 DEF LastOf
      <4> QED
        BY <1>2, <1>8, <1>9, <3>2, <4>2, <4>3 DEF LastOf, Seen
    <3> QED
      BY <3>1, <3>2
  <2>2. pc'[t] # "gate"
    BY <1>2
  <2> QED
    BY <1>1, <2>1, <2>2 DEF Remembered
<1> QED
  BY <1>10, <1>11, <1>13, <1>14, <1>15, <1>16 DEF HistInv

\* Retention removes files, but not the last one of a job that ran within the cooldown.
LEMMA EnforceRetentionRemembers ==
  ASSUME OneRequestAtATime, IInv, IInv', HistInv, NEW t \in Threads, EnforceRetention(t)
  PROVE  HistInv'
<1> DEFINE excess == Len(listed[t]) - MaxHistory
           gone   == IF excess > 0 THEN Oldest(listed[t], excess) ELSE {}
<1>1. \A u \in Threads : u = t
  BY DEF OneRequestAtATime
<1>2. /\ \/ pc[t] = "retain_first" /\ pc'[t] = "run" /\ run' = run /\ job' = job
         \/ pc[t] = "retain_last" /\ pc'[t] = "idle"
      /\ DOMAIN listed' = Threads
      /\ UNCHANGED <<now, record, lastRunTimes, nextRun, lastSeen>>
  BY DEF EnforceRetention, Goto, Leave, IInv, StoreShape, HistInv, Listing
<1>3. /\ files' = FilesIn(Runs \ gone)
      /\ disk' = [r \in Runs |-> IF r \in gone THEN NONE ELSE disk[r]]
  BY DEF EnforceRetention
<1>4. Rising(listed[t]) /\ ToSet(listed[t]) = OnFile /\ Rising(files) /\ ToSet(files) = OnFile
  BY <1>2 DEF HistInv, Listing
<1>5. ASSUME NEW i \in Jobs, Recent(i), NEW r \in Runs, LastOf(i, r), disk[r] \in Record
      PROVE  r \notin gone
  <2>1. PICK n \in DOMAIN listed[t] : listed[t][n] = r
    BY <1>4, <1>5 DEF LastOf, ToSet
  <2>2. Len(listed[t]) - n < MaxHistory
    BY <1>4, <1>5, <2>1, FewFilesAfter
  <2>3. /\ DOMAIN listed[t] = 1 .. Len(listed[t]) /\ Len(listed[t]) \in Nat
        /\ \A m, k \in 1 .. Len(listed[t]) : listed[t][m] = listed[t][k] => m = k
    BY <1>4, RisingIs
  <2> SUFFICES ASSUME excess > 0, NEW m \in 1 .. excess, listed[t][m] = r PROVE FALSE
    BY DEF Oldest
  <2>4. MaxHistory \in Nat /\ n \in 1 .. Len(listed[t]) /\ m \in 1 .. Len(listed[t])
    BY <2>1, <2>3, ConfigAssumption
  <2>5. m = n
    BY <2>1, <2>3, <2>4
  <2> QED
    BY <2>2, <2>3, <2>4, <2>5
<1> HIDE DEF gone, excess
<1>6. \A r \in Runs : disk'[r] = IF r \in gone THEN NONE ELSE disk[r]
  BY <1>3
<1>7. Known' = Known /\ OnFile' = OnFile \ gone
  BY <1>2, <1>6 DEF Known, OnFile
<1>8. \A r \in Runs : disk'[r] \in Record => disk'[r] = disk[r] /\ r \in OnFile
  BY <1>6, Absent DEF OnFile
<1>9. Listing'
  <2>1. Rising(files') /\ ToSet(files') = OnFile \cap (Runs \ gone)
    BY <1>3, <1>4, FilesInAre
  <2>2. ToSet(files') = OnFile'
    BY <1>7, <2>1 DEF OnFile
  <2> QED
    BY <1>1, <1>2, <2>1, <2>2 DEF Listing, Rising
<1>10. AtWork'
  <2>1. \A r \in Runs : disk'[r] # TORN
    BY <1>1, <1>2, <1>6, AbsentAssumption DEF HistInv, AtWork
  <2> QED
    BY <1>1, <1>2, <2>1 DEF HistInv, AtWork, Working, BeforeReturn, AfterReturn
<1>11. Records'
  BY <1>2, <1>7, <1>8 DEF HistInv, Records, Seen, OnFile
<1>12. InTurn'
  BY <1>2, <1>7, <1>8 DEF HistInv, InTurn, Seen, Known
<1>13. Stamps'
  <2>1. pc'[t] = "run" => pc'[t] \in UpToStamp /\ job' = job
    BY <1>2 DEF UpToStamp
  <2>2. pc'[t] # "run" => pc[t] \notin UpToStamp
    BY <1>2 DEF UpToStamp
  <2> QED
    BY <1>1, <1>2, <2>1, <2>2 DEF HistInv, Stamps
<1>14. Remembered'
  <2>1. ASSUME NEW i \in Jobs, Recent(i)' PROVE \E r \in Runs : LastOf(i, r)'
    <3>1. Recent(i)
      BY <1>2, <2>1 DEF Recent
    <3>2. PICK r \in Runs : LastOf(i, r)
      BY <3>1 DEF HistInv, Remembered
    <3>3. disk[r] \in Record
      BY <1>1, <1>2, <3>2 DEF LastOf, OnFile, HistInv, AtWork, IInv, StoreShape
    <3>4. r \notin gone
      BY <1>5, <3>1, <3>2, <3>3
    <3> QED
      BY <1>2, <1>6, <1>7, <3>2, <3>4 DEF LastOf, Seen
  <2>2. pc'[t] # "gate"
    BY <1>2
  <2> QED
    BY <1>1, <2>1, <2>2 DEF Remembered
<1> QED
  BY <1>9, <1>10, <1>11, <1>12, <1>13, <1>14 DEF HistInv

LEMMA StepRemembers ==
  ASSUME OneRequestAtATime, IInv, IInv', HistInv, [Next]_vars
  PROVE  HistInv'
<1>1. ASSUME NEW t \in Threads, Trigger(t) PROVE HistInv'
  BY <1>1, TriggerRemembers
<1>2. ASSUME NEW t \in Threads, MarketClosed(t) PROVE HistInv'
  <2>1. /\ pc[t] = "gate" /\ pc'[t] = "idle" /\ DOMAIN listed' = Threads
        /\ UNCHANGED <<now, record, lastRunTimes, files, disk, nextRun, lastSeen>>
    BY <1>2 DEF MarketClosed, Leave, Goto, IInv, StoreShape, HistInv, Listing
  <2> QED
    BY <2>1, RestKeeps DEF UpToStamp
<1>3. ASSUME NEW t \in Threads, CreateRecord(t) PROVE HistInv'
  BY <1>3, CreateRecordRemembers
<1>4. ASSUME NEW t \in Threads, OpenFile(t) PROVE HistInv'
  BY <1>4, OpenFileRemembers
<1>5. ASSUME NEW t \in Threads, WriteFile(t) PROVE HistInv'
  BY <1>5, WriteFileRemembers
<1>6. ASSUME NEW t \in Threads, ListFiles(t) \/ SortFiles(t) \/ WriteManifest(t) \/ StampLastRun(t)
      PROVE  HistInv'
  BY <1>6, QuietStepRemembers
<1>7. ASSUME NEW t \in Threads, RetentionFails(t) PROVE HistInv'
  <2>1. pc[t] \in {"sort_first", "sort_last"} /\ ~(ToSet(listed[t]) \subseteq ToSet(files))
    BY <1>7 DEF RetentionFails, Leave, Goto
  <2>2. ToSet(listed[t]) = OnFile /\ ToSet(files) = OnFile
    BY <2>1 DEF HistInv, Listing
  <2> QED
    BY <2>1, <2>2
<1>8. ASSUME NEW t \in Threads, EnforceRetention(t) PROVE HistInv'
  BY <1>8, EnforceRetentionRemembers
<1>9. ASSUME NEW t \in Threads, ManifestFails(t) PROVE HistInv'
  BY <1>9 DEF ManifestFails, OneRequestAtATime
<1>14. ASSUME NEW t \in Threads, SaveFails(t) PROVE HistInv'
  <2>1. /\ pc[t] \in {"open_first", "open_last"} /\ pc'[t] = "idle" /\ DOMAIN listed' = Threads
        /\ UNCHANGED <<now, record, lastRunTimes, files, disk, nextRun, lastSeen>>
    BY <1>14 DEF SaveFails, Leave, Goto, OneRequestAtATime, IInv, StoreShape, HistInv, Listing
  <2> QED
    BY <2>1, RestKeeps DEF UpToStamp
<1>10. ASSUME NEW t \in Threads, RunPipeline(t) PROVE HistInv'
  BY <1>10, RunPipelineRemembers
<1>11. CASE Tick
  BY <1>11, TickRemembers
<1>12. CASE Crash
  BY <1>12, CrashRemembers
<1>13. CASE UNCHANGED vars
  BY <1>13 DEF vars, store, HistInv, Listing, Rising, ToSet, AtWork, Working, Records, InTurn, Stamps,
     Remembered, Recent, LastOf, Known, OnFile, Seen
<1> QED
  BY <1>1, <1>2, <1>3, <1>4, <1>5, <1>6, <1>7, <1>8, <1>9, <1>10, <1>11, <1>12, <1>13,
     <1>14
  DEF Next, Handle

\* AUTOMATION.md:35-36, the cooldown holds between the runs of a job and "survives
\* process restart": with one request at a time, manifests that can be written, no
\* record torn by a crash or the disk and a history with room for every job, a run is
\* dispatched only a cooldown after the job's last run started, and after its end,
\* whatever the store has forgotten meanwhile (trigger_pipeline, RunStore).
THEOREM CooldownSafety ==
  ASSUME OneRequestAtATime
  PROVE  Spec => CooldownRespected
<1>1. Init => HistInv
  BY HistoryInit
<1>2. IInv /\ HistInv /\ [Next]_vars => IInv' /\ HistInv'
  BY StepKeeps, StepRemembers
<1>3. ASSUME IInv, HistInv, [Next]_vars,
             NEW t \in Threads, pc[t] = "gate", pc'[t] = "open_first", lastSeen[job[t]] # NONE
      PROVE  now - lastSeen[job[t]] >= Cooldown
  <2>1. job[t] \in Jobs /\ now \in Nat /\ Cooldown \in Nat /\ lastSeen[job[t]] \in Nat
    BY <1>3, ConfigAssumption DEF IInv, StoreShape, HistInv, Stamps
  <2>2. ~(now - lastSeen[job[t]] < Cooldown)
    BY <1>3 DEF HistInv, Remembered, Recent
  <2> QED
    BY <2>1, <2>2
<1>4. IInv /\ HistInv /\ [Next]_vars =>
        [\A t \in Threads :
           pc[t] = "gate" /\ pc'[t] = "open_first" /\ lastSeen[job[t]] # NONE
             => now - lastSeen[job[t]] >= Cooldown]_vars
  BY <1>3
<1> QED
  BY <1>1, <1>2, <1>4, InitHolds, PTL DEF Spec, CooldownRespected
=============================================================================
