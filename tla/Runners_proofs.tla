--------------------------- MODULE Runners_proofs ---------------------------
(***************************************************************************)
(* The lock of the paper state excludes, and what a runner takes for the   *)
(* latest bundle is whole: for any number of runners, whatever they are    *)
(* started for, and for any number of deaths and failures.                 *)
(***************************************************************************)
EXTENDS Runners, SequenceTheorems, WellFoundedInduction, TLAPS

InsidePlaces == {"read", "replace", "unlock"}

Places == {"waiting", "input", "load", "lockload", "read", "dir", "write", "fill",
           "save", "replace", "unlock", "manifest", "publish", "validate", "next",
           "done", "dead"}

\* The invariant is inductive with the types of what the lock depends on.
LockInv ==
  /\ job \in [Procs -> Jobs]
  /\ pc \in [Procs -> Places]
  /\ lock \in [StateDirs -> Procs \union {NONE}]
  /\ LockExcludes

\* The lock of a process is one of the locks.
LEMMA StoreType ==
  ASSUME job \in [Procs -> Jobs], NEW p \in Procs
  PROVE  Store(p) \in StateDirs
BY DEF Store, StateDirs, Jobs

\* A step that leaves the locks alone and takes a process to a place outside the
\* critical section changes nothing about the exclusion.
LEMMA OutsideStep ==
  ASSUME LockInv, NEW p \in Procs, NEW there \in Places \ InsidePlaces,
         Goto(p, there), UNCHANGED <<job, lock>>
  PROVE  LockInv'
BY DEF LockInv, LockExcludes, Inside, InsidePlaces, Goto, Store

\* So does one that stays inside.
LEMMA InsideStep ==
  ASSUME LockInv, NEW p \in Procs, pc[p] \in InsidePlaces, NEW there \in Places,
         Goto(p, there), UNCHANGED <<job, lock>>
  PROVE  LockInv'
BY DEF LockInv, LockExcludes, Inside, InsidePlaces, Goto, Store

\* Leaving the critical section with the lock removed: no other process is inside
\* with the same lock, since the lock is this one's.
LEMMA ReleaseStep ==
  ASSUME LockInv, NEW p \in Procs, pc[p] \in InsidePlaces,
         NEW there \in Places \ InsidePlaces, Goto(p, there),
         lock' = [lock EXCEPT ![Store(p)] = NONE], UNCHANGED job
  PROVE  LockInv'
<1>1. Store(p) \in StateDirs /\ \A q \in Procs : Store(q)' = Store(q)
  BY StoreType DEF LockInv, Store
<1>2. lock[Store(p)] = p
  BY DEF LockInv, LockExcludes, Inside, InsidePlaces
<1>3. ASSUME NEW q \in Procs, pc'[q] \in InsidePlaces
      PROVE  lock'[Store(q)] = q
  <2>1. q # p /\ pc[q] \in InsidePlaces
    BY <1>3 DEF LockInv, Goto
  <2>2. lock[Store(q)] = q /\ Store(q) \in StateDirs
    BY <2>1, StoreType DEF LockInv, LockExcludes, Inside, InsidePlaces
  <2>3. Store(q) # Store(p)
    BY <1>2, <2>1, <2>2
  <2> QED BY <2>2, <2>3, <1>1 DEF LockInv
<1> QED
  BY <1>1, <1>3 DEF LockInv, LockExcludes, Inside, InsidePlaces, Goto

\* Taking a free lock: nobody is inside with it.
LEMMA AcquireStep ==
  ASSUME LockInv, NEW p \in Procs, lock[Store(p)] = NONE,
         NEW there \in Places, Goto(p, there),
         lock' = [lock EXCEPT ![Store(p)] = p], UNCHANGED job
  PROVE  LockInv'
<1>1. Store(p) \in StateDirs /\ \A q \in Procs : Store(q)' = Store(q)
  BY StoreType DEF LockInv, Store
<1>2. ASSUME NEW q \in Procs, pc'[q] \in InsidePlaces
      PROVE  lock'[Store(q)] = q
  <2>1. CASE q = p
    BY <2>1, <1>1 DEF LockInv
  <2>2. CASE q # p
    <3>1. lock[Store(q)] = q /\ Store(q) \in StateDirs
      BY <2>2, <1>2, StoreType DEF LockInv, LockExcludes, Inside, InsidePlaces, Goto
    <3>2. Store(q) # Store(p)
      BY <3>1, NoneAssumption
    <3> QED BY <3>1, <3>2, <1>1 DEF LockInv
  <2> QED BY <2>1, <2>2
<1> QED
  BY <1>1, <1>2 DEF LockInv, LockExcludes, Inside, InsidePlaces, Goto

-----------------------------------------------------------------------------
LEMMA LockInvInit == Init => LockInv
<1> SUFFICES ASSUME Init PROVE LockInv
  OBVIOUS
<1>1. job \in [Procs -> Jobs]
  BY JobAssumption DEF Init
<1>2. pc \in [Procs -> Places] /\ LockExcludes
  BY DEF Init, Places, LockExcludes, Inside
<1>3. lock \in [StateDirs -> Procs \union {NONE}]
  BY DEF Init
<1> QED BY <1>1, <1>2, <1>3 DEF LockInv

\* One step per action; each is one of the four kinds above.
LEMMA LockInvNext == LockInv /\ [Next]_vars => LockInv'
<1> SUFFICES ASSUME LockInv, [Next]_vars PROVE LockInv'
  OBVIOUS
<1> USE DEF Places, InsidePlaces, local, disk
<1>1. CASE Tick
  BY <1>1 DEF Tick, LockInv, LockExcludes, Inside, Store
<1>2. ASSUME NEW p \in Procs, Start(p) PROVE LockInv'
  <2>1. \E there \in Places \ InsidePlaces : Goto(p, there)
    BY <1>2 DEF Start, Exit, Goto
  <2> QED BY <1>2, <2>1, OutsideStep DEF Start
<1>3. ASSUME NEW p \in Procs, ResolveInput(p) PROVE LockInv'
  <2>1. \E there \in Places \ InsidePlaces : Goto(p, there)
    BY <1>3 DEF ResolveInput, Exit, Goto
  <2> QED BY <1>3, <2>1, OutsideStep DEF ResolveInput
<1>4. ASSUME NEW p \in Procs, MakeDir(p) PROVE LockInv'
  BY <1>4, OutsideStep DEF MakeDir
<1>5. ASSUME NEW p \in Procs, Write(p) PROVE LockInv'
  <2>1. ASSUME NEW n \in {step[p] + 1} PROVE AfterArtifact(p, n) \in Places \ InsidePlaces
    BY DEF AfterArtifact
  <2>2. \E there \in Places \ InsidePlaces : Goto(p, there)
    BY <1>5, <2>1 DEF Write, OpenArtifact, WriteArtifact, Fails, NoExport, Exit
  <2> QED
    BY <1>5, <2>2, OutsideStep DEF Write, OpenArtifact, WriteArtifact, Fails, NoExport
<1>6. ASSUME NEW p \in Procs, Bundle(p) PROVE LockInv'
  <2>1. \E there \in Places \ InsidePlaces : Goto(p, there)
    BY <1>6 DEF Bundle, OpenManifest, Publish, Validate, NextCycle, Exit
  <2> QED
    BY <1>6, <2>1, OutsideStep DEF Bundle, OpenManifest, Publish, Validate, NextCycle
<1>7. ASSUME NEW p \in Procs, Session(p) PROVE LockInv'
  <2>1. CASE Load(p)
    <3>1. \E there \in Places \ InsidePlaces : Goto(p, there)
      BY <2>1 DEF Load, Goto
    <3> QED BY <2>1, <3>1, OutsideStep DEF Load
  <2>2. CASE Acquire(p)
    <3>1. \E there \in Places : Goto(p, there)
      BY <2>2 DEF Acquire, Goto
    <3> QED BY <2>2, <3>1, AcquireStep DEF Acquire
  <2>3. CASE TimeOut(p)
    BY <2>3, OutsideStep DEF TimeOut, Exit
  <2>4. CASE ReadState(p)
    BY <2>4, ReleaseStep DEF ReadState
  <2>5. CASE ReplaceState(p)
    BY <2>5, InsideStep DEF ReplaceState
  <2>6. CASE SaveFails(p)
    BY <2>6, ReleaseStep DEF SaveFails, Exit
  <2>7. CASE Unlock(p)
    <3>1. AfterArtifact(p, step[p] + 1) \in Places \ InsidePlaces
      BY DEF AfterArtifact
    <3> QED BY <2>7, <3>1, ReleaseStep DEF Unlock
  <2> QED BY <1>7, <2>1, <2>2, <2>3, <2>4, <2>5, <2>6, <2>7 DEF Session
<1>8. ASSUME NEW p \in Procs, Judge(p) PROVE LockInv'
  BY <1>8 DEF Judge, LockInv, LockExcludes, Inside, Store
<1>9. ASSUME NEW p \in Procs, AcquireFails(p) PROVE LockInv'
  BY <1>9, AcquireStep DEF AcquireFails, Exit
<1>10. ASSUME NEW p \in Procs, Crash(p) PROVE LockInv'
  BY <1>10, OutsideStep DEF Crash
<1>11. CASE UNCHANGED vars
  BY <1>11 DEF vars, LockInv, LockExcludes, Inside, Store
<1> QED
  BY <1>1, <1>2, <1>3, <1>4, <1>5, <1>6, <1>7, <1>8, <1>9, <1>10, <1>11
  DEF Next, Step

\* Between the acquisition of paper_state.json.lock and its removal there is one
\* session and it is the owner of the file, for every set of processes.
THEOREM LockSafety == Spec => []LockExcludes
<1>1. Init => LockInv
  BY LockInvInit
<1>2. LockInv /\ [Next]_vars => LockInv'
  BY LockInvNext
<1>3. LockInv => LockExcludes
  BY DEF LockInv
<1> QED BY <1>1, <1>2, <1>3, PTL DEF Spec

-----------------------------------------------------------------------------
(* The bundles: helpers                                                    *)

\* Kinds whose bundles another runner takes; they have two artifacts.
Stages == {"scanner", "monitoring"}
Staged(p) == job[p].kind \in Stages

Unplaced == {"waiting", "input", "dir"}
Placed == {"write", "fill", "save", "replace", "unlock", "manifest", "publish", "validate",
           "next"}
SessionPlaces == {"load", "lockload", "read", "save", "replace", "unlock"}

\* A file is put where it was or is new; the others stay.
LEMMA PutFacts ==
  ASSUME NEW d, NEW a, NEW w, Put(d, a, w)
  PROVE  /\ DOMAIN files' = DOMAIN files \union {<<d, a>>}
         /\ files'[<<d, a>>] = w
         /\ \A f \in DOMAIN files : f # <<d, a>> => files'[f] = files[f]
  BY DEF Put

\* A non-empty set of numbers up to n has its maximum.
LEMMA MaxIsMember ==
  ASSUME NEW n \in Nat, NEW S \in SUBSET (1..n), S # {}
  PROVE  Max(S) \in S
<1> DEFINE T == {n - i : i \in S}
<1>1. T \in SUBSET Nat /\ T # {}
  <2>1. PICK i \in S : TRUE
    OBVIOUS
  <2>2. n - i \in T
    OBVIOUS
  <2>3. \A j \in S : n - j \in Nat
    OBVIOUS
  <2> QED
    BY <2>2, <2>3
<1>2. PICK x \in T : \A y \in T : ~(<<y, x>> \in OpToRel(<, Nat))
  BY <1>1, WFMin, NatLessThanWellFounded
<1>3. \A y \in T : ~(y < x)
  BY <1>1, <1>2 DEF OpToRel
<1>4. PICK i \in S : x = n - i
  BY <1>2
<1>5. \A j \in S : i >= j
  BY <1>3, <1>4
<1> QED
  BY <1>4, <1>5 DEF Max

\* The latest directory is one of the candidates.
LEMMA LatestIsCandidate ==
  ASSUME changed \in Seq(Dirs), NEW kind, Latest(kind) # NONE
  PROVE  Latest(kind) \in Candidates(kind)
<1> DEFINE at == {i \in DOMAIN changed : changed[i] \in Candidates(kind)}
<1>1. Len(changed) \in Nat /\ at \in SUBSET (1..Len(changed))
  OBVIOUS
<1>2. at # {} /\ Latest(kind) = changed[Max(at)]
  BY DEF Latest
<1>3. Max(at) \in at
  BY <1>1, <1>2, MaxIsMember
<1> QED
  BY <1>2, <1>3

\* A touched directory keeps the list a list of directories.
LEMMA TouchType ==
  ASSUME changed \in Seq(Dirs), NEW d \in Dirs, NEW new, Touch(d, new)
  PROVE  changed' \in Seq(Dirs)
<1>1. Without(d) \in Seq(Dirs)
  <2>1. CASE d \in ToSet(changed)
    <3> DEFINE k == CHOOSE i \in DOMAIN changed : changed[i] = d
    <3>1. k \in 1..Len(changed) /\ Len(changed) \in Nat
      BY <2>1 DEF ToSet
    <3> HIDE DEF k
    <3>2. /\ SubSeq(changed, 1, k - 1) \in Seq(Dirs)
          /\ SubSeq(changed, k + 1, Len(changed)) \in Seq(Dirs)
      <4>1. \A i \in 1 .. k - 1 : changed[i] \in Dirs
        BY <3>1
      <4>2. \A i \in k + 1 .. Len(changed) : changed[i] \in Dirs
        BY <3>1
      <4> QED
        BY <3>1, <4>1, <4>2, SubSeqProperties
    <3>3. Without(d) = SubSeq(changed, 1, k - 1) \o SubSeq(changed, k + 1, Len(changed))
      BY <2>1 DEF Without, RemoveAt, k
    <3> QED
      BY <3>2, <3>3
  <2>2. CASE d \notin ToSet(changed)
    BY <2>2 DEF Without
  <2> QED
    BY <2>1, <2>2
<1> QED
  BY <1>1 DEF Touch

LEMMA OutputDirType ==
  ASSUME job \in [Procs -> Jobs], second \in Nat, cycle \in [Procs -> Nat], NEW p \in Procs
  PROVE  /\ OutputDir(p) \in Dirs
         /\ OutputDir(p)[1] \in Stages => job[p].kind = OutputDir(p)[1]
  BY DEF OutputDir, Dirs, Jobs, Stages

-----------------------------------------------------------------------------
(* The bundles: the invariant                                              *)

Typed ==
  /\ job \in [Procs -> Jobs] /\ pc \in [Procs -> Places]
  /\ out \in [Procs -> Dirs \union {NONE}]
  /\ step \in [Procs -> Nat] /\ cycle \in [Procs -> Nat \ {0}] /\ second \in Nat
  /\ changed \in Seq(Dirs)
  /\ \A f \in DOMAIN files : f[1] \in Dirs /\ f = <<f[1], f[2]>>

\* A runner of a stage gets its directory once, and knows how far it is.
Placing ==
  \A p \in Procs :
    /\ pc[p] = "input" => job[p].kind \in Chained
    /\ pc[p] \in Placed => out[p] \in Dirs
    /\ out[p] \in Dirs /\ out[p][1] \in Stages => job[p].kind = out[p][1]
    /\ Staged(p) =>
         /\ pc[p] \notin SessionPlaces
         /\ pc[p] \in Unplaced => out[p] = NONE
         /\ pc[p] \in {"write", "fill"} => step[p] \in {0, 1}
         /\ pc[p] \in {"manifest", "publish"} => step[p] = 2

Alone(p) == \A q \in Procs : out[q] = out[p] => q = p

\* What is in the directory of a stage was left there by a runner that still names
\* it; who has it alone has whole what it has written; a manifest is there only
\* after everything else of its runner.
Filed ==
  /\ \A f \in DOMAIN files :
       f[1][1] \in Stages =>
         /\ files[f] = TORN \/ (files[f] \in Procs /\ out[files[f]] = f[1])
         /\ f[2] = "run_manifest" => \E q \in Procs : out[q] = f[1] /\ step[q] = 2
  /\ \A p \in Procs :
       out[p] \in Dirs /\ out[p][1] \in Stages /\ Alone(p) =>
         \A n \in {1, 2} : n <= step[p] => Wrote(out[p], Outputs[out[p][1]][n]) = p

\* An input came from a directory with a manifest.
Taken ==
  \A p \in Procs : input[p] # NONE =>
    /\ input[p] \in [dir : Dirs, by : Procs]
    /\ input[p].dir[1] \in Stages /\ out[input[p].by] = input[p].dir
    /\ Exists(input[p].dir, "run_manifest")

BundleInv == Typed /\ Placing /\ Filed /\ Taken /\ DOMAIN input = Procs

LEMMA StageOutputsOf ==
  ASSUME NEW kind \in Stages
  PROVE  /\ Outputs[kind] = IF kind = "scanner" THEN <<"universe", "candidates">>
                            ELSE <<"setups", "decision_input">>
         /\ Len(Outputs[kind]) = 2
         /\ Outputs[kind][1] # Outputs[kind][2]
         /\ Outputs[kind][1] # "run_manifest" /\ Outputs[kind][2] # "run_manifest"
         /\ ToSet(Outputs[kind]) = {Outputs[kind][1], Outputs[kind][2]}
  BY DEF Stages, Outputs, ScannerOutputs, MonitoringOutputs, ToSet

LEMMA BundleInit == Init => BundleInv
<1> SUFFICES ASSUME Init PROVE BundleInv
  OBVIOUS
<1> USE DEF Init
<1>1. Typed
  BY JobAssumption DEF Typed, Places
<1>2. Placing
  BY NoneAssumption DEF Placing, Placed, SessionPlaces
<1>3. Filed /\ Taken /\ DOMAIN input = Procs
  BY NoneAssumption DEF Filed, Taken
<1> QED
  BY <1>1, <1>2, <1>3 DEF BundleInv

\* The property follows: the runner that had everything when the manifest appeared
\* is the one the directory belongs to.
LEMMA WholeBundle == BundleInv => ReadsWholeBundle
<1> SUFFICES ASSUME BundleInv, NEW p \in Procs, input[p] # NONE,
                    {q \in Procs : out[q] = input[p].dir} = {input[p].by}
             PROVE  \A a \in ToSet(Outputs[input[p].dir[1]]) :
                      Wrote(input[p].dir, a) = input[p].by
  BY DEF ReadsWholeBundle
<1> DEFINE d == input[p].dir
           w == input[p].by
<1>1. /\ d \in Dirs /\ w \in Procs /\ d[1] \in Stages /\ out[w] = d
      /\ <<d, "run_manifest">> \in DOMAIN files
  BY DEF BundleInv, Taken, Exists
<1> HIDE DEF d, w
<1>2. \A q \in Procs : out[q] = d => q = w
  BY DEF d, w
<1>3. \E q \in Procs : out[q] = d /\ step[q] = 2
  BY <1>1 DEF BundleInv, Filed
<1>4. step[w] = 2
  BY <1>2, <1>3
<1>5. Alone(w)
  BY <1>1, <1>2 DEF Alone
<1>6. \A n \in {1, 2} : Wrote(d, Outputs[d[1]][n]) = w
  BY <1>1, <1>4, <1>5 DEF BundleInv, Filed
<1> QED
  BY <1>1, <1>6, StageOutputsOf DEF d, w

-----------------------------------------------------------------------------
(* The bundles: the steps                                                  *)

\* A process goes where no more is known of it than before.
Plain(p) ==
  /\ UNCHANGED <<job, out, step, input, files, changed, second>>
  /\ cycle' \in [Procs -> Nat \ {0}]
  /\ \E there \in Places :
       /\ Goto(p, there)
       /\ there = "input" => job[p].kind \in Chained
       /\ there \in Placed => pc[p] \in Placed
       /\ Staged(p) =>
            /\ there \notin SessionPlaces
            /\ there \in Unplaced => pc[p] \in Unplaced
            /\ there \in {"write", "fill"} => pc[p] \in {"write", "fill"}
            /\ there \in {"manifest", "publish"} => pc[p] \in {"manifest", "publish"}

LEMMA PlainKeeps ==
  ASSUME BundleInv, NEW p \in Procs, Plain(p)
  PROVE  BundleInv'
<1> USE DEF Plain
<1>1. Typed'
  BY DEF BundleInv, Typed, Goto
<1>2. Placing'
  <2> SUFFICES ASSUME NEW q \in Procs
               PROVE  Placing!(q)'
    BY DEF Placing
  <2>1. CASE q = p
    BY <2>1 DEF BundleInv, Typed, Placing, Goto, Staged
  <2>2. CASE q # p
    <3>1. pc'[q] = pc[q]
      BY <2>2 DEF BundleInv, Typed, Goto
    <3> QED
      BY <3>1 DEF BundleInv, Placing, Staged
  <2> QED
    BY <2>1, <2>2
<1>3. Filed' /\ Taken' /\ DOMAIN input' = Procs
  BY DEF BundleInv, Filed, Alone, Taken, Wrote, Exists
<1> QED
  BY <1>1, <1>2, <1>3 DEF BundleInv

\* A process writes a file of its directory: in the directory of a stage a manifest
\* only at the end, and otherwise the next artifact, whole or empty.
Writing(p, a, w) ==
  /\ pc[p] \in Placed /\ w \in {p, TORN} /\ Put(out[p], a, w)
  /\ UNCHANGED <<job, out, input, cycle, second>>
  /\ \E new \in BOOLEAN : Touch(out[p], new)
  /\ step' \in {step, [step EXCEPT ![p] = @ + 1]}
  /\ Staged(p) =>
       \/ a = "run_manifest" /\ step[p] = 2 /\ step' = step
       \/ /\ step[p] \in {0, 1} /\ a = Outputs[job[p].kind][step[p] + 1]
          /\ step' # step => w = p

LEMMA WriteFiles ==
  ASSUME BundleInv, NEW p \in Procs, NEW a, NEW w, Writing(p, a, w)
  PROVE  Filed' /\ Taken' /\ DOMAIN input' = Procs
<1> USE DEF Writing
<1>1. /\ DOMAIN files' = DOMAIN files \union {<<out[p], a>>}
      /\ files'[<<out[p], a>>] = w
      /\ \A f \in DOMAIN files : f # <<out[p], a>> => files'[f] = files[f]
  BY PutFacts
<1>2. out[p] \in Dirs /\ (out[p][1] \in Stages => Staged(p) /\ job[p].kind = out[p][1])
  BY DEF BundleInv, Placing, Staged
<1>3. /\ step' \in [Procs -> Nat]
      /\ \A q \in Procs : q # p => step'[q] = step[q]
      /\ step'[p] \in {step[p], step[p] + 1}
      /\ step[p] = 2 /\ out[p][1] \in Stages => step'[p] = 2
  BY <1>2 DEF BundleInv, Typed
<1>4. \A q \in Procs : out[q] \in Dirs /\ out[q][1] \in Stages /\ step[q] = 2 => step'[q] = 2
  BY <1>3
<1>5. ASSUME NEW f \in DOMAIN files', f[1][1] \in Stages
      PROVE  /\ files'[f] = TORN \/ (files'[f] \in Procs /\ out[files'[f]] = f[1])
             /\ f[2] = "run_manifest" => \E q \in Procs : out[q] = f[1] /\ step'[q] = 2
  <2>1. CASE f = <<out[p], a>>
    <3>1. f[1] = out[p] /\ f[2] = a
      BY <2>1
    <3>2. Staged(p)
      BY <1>2, <1>5, <3>1
    <3>3. a = "run_manifest" => step[p] = 2
      BY <3>2, StageOutputsOf DEF Staged
    <3> QED
      BY <1>1, <1>3, <1>5, <2>1, <3>1, <3>3
  <2>2. CASE f # <<out[p], a>>
    <3>1. f \in DOMAIN files /\ files'[f] = files[f] /\ f[1] \in Dirs
      BY <1>1, <2>2 DEF BundleInv, Typed
    <3> QED
      BY <1>4, <1>5, <3>1 DEF BundleInv, Filed
  <2> QED
    BY <2>1, <2>2
<1>6. ASSUME NEW q \in Procs, out[q] \in Dirs, out[q][1] \in Stages, Alone(q),
             NEW n \in {1, 2}, n <= step'[q]
      PROVE  Wrote(out[q], Outputs[out[q][1]][n])' = q
  <2> DEFINE b == Outputs[out[q][1]][n]
  <2>1. CASE q = p /\ a = b /\ n = step[p] + 1
    <3>1. step'[p] # step[p]
      BY <1>3, <1>6, <2>1 DEF BundleInv, Typed
    <3>2. w = p
      BY <1>2, <1>6, <2>1, <3>1, StageOutputsOf DEF Staged
    <3> QED
      BY <1>1, <2>1, <3>2 DEF Wrote, Exists
  <2>2. CASE ~(q = p /\ a = b /\ n = step[p] + 1)
    <3>1. n <= step[q]
      <4>1. CASE q # p
        BY <1>3, <1>6, <4>1
      <4>2. CASE q = p /\ n = step[p] + 1
        <5>1. step' # step
          BY <1>3, <1>6, <4>2 DEF BundleInv, Typed
        <5>2. a = Outputs[job[p].kind][step[p] + 1]
          BY <1>2, <1>6, <4>2, <5>1
        <5> QED
          BY <1>2, <1>6, <2>2, <4>2, <5>2
      <4>3. CASE q = p /\ n # step[p] + 1
        BY <1>3, <1>6, <4>3 DEF BundleInv, Typed
      <4> QED
        BY <4>1, <4>2, <4>3
    <3>2. Wrote(out[q], b) = q
      BY <1>6, <3>1 DEF BundleInv, Filed
    <3>3. <<out[q], b>> # <<out[p], a>>
      <4>1. CASE q # p
        BY <1>6, <4>1 DEF Alone
      <4>2. CASE q = p
        <5>1. a = b => step[p] # 2
          BY <1>2, <1>6, <4>2, StageOutputsOf DEF Staged
        <5>2. a = b => a = Outputs[job[p].kind][step[p] + 1] /\ step[p] \in {0, 1}
          BY <1>2, <1>6, <4>2, <5>1
        <5> QED
          BY <1>2, <1>6, <3>1, <4>2, <5>2, StageOutputsOf
      <4> QED
        BY <4>1, <4>2
    <3>4. <<out[q], b>> \in DOMAIN files
      BY <3>2, NoneAssumption DEF Wrote, Exists
    <3> QED
      BY <1>1, <3>2, <3>3, <3>4 DEF Wrote, Exists
  <2> QED
    BY <2>1, <2>2
<1>7. Filed'
  BY <1>5, <1>6 DEF Filed, Alone
<1>8. Taken' /\ DOMAIN input' = Procs
  BY <1>1 DEF BundleInv, Taken, Exists
<1> QED
  BY <1>7, <1>8

LEMMA WriteTypes ==
  ASSUME BundleInv, NEW p \in Procs, NEW a, NEW w, Writing(p, a, w),
         NEW there \in Places, Goto(p, there)
  PROVE  Typed'
<1>1. /\ out[p] \in Dirs /\ Put(out[p], a, w) /\ UNCHANGED <<job, out, cycle, second>>
      /\ \E new \in BOOLEAN : Touch(out[p], new)
      /\ step' \in {step, [step EXCEPT ![p] = @ + 1]}
  BY DEF BundleInv, Placing, Writing
<1>2. changed' \in Seq(Dirs)
  BY <1>1, TouchType DEF BundleInv, Typed
<1>3. step' \in [Procs -> Nat]
  <2>1. step \in [Procs -> Nat]
    BY DEF BundleInv, Typed
  <2> QED
    BY <1>1, <2>1
<1>4. pc' \in [Procs -> Places]
  BY DEF BundleInv, Typed, Goto
<1>5. DOMAIN files' = DOMAIN files \union {<<out[p], a>>}
  BY <1>1, PutFacts
<1>6. \A f \in DOMAIN files' : f[1] \in Dirs /\ f = <<f[1], f[2]>>
  BY <1>1, <1>5 DEF BundleInv, Typed
<1> QED
  BY <1>1, <1>2, <1>3, <1>4, <1>6 DEF BundleInv, Typed

\* What is left to show of a step that writes: where it leads.
LEMMA WriteKeeps ==
  ASSUME BundleInv, NEW p \in Procs, NEW a, NEW w, Writing(p, a, w),
         NEW there \in Placed, Goto(p, there),
         Staged(p) => /\ there \notin SessionPlaces
                      /\ there \in {"write", "fill"} => step'[p] \in {0, 1}
                      /\ there \in {"manifest", "publish"} => step'[p] = 2
  PROVE  BundleInv'
<1>1. Typed'
  BY WriteTypes DEF Places, Placed
<1>2. Placing'
  <2> SUFFICES ASSUME NEW q \in Procs
               PROVE  Placing!(q)'
    BY DEF Placing
  <2>1. CASE q = p
    <3>1. pc'[p] = there /\ there \notin Unplaced /\ there # "input" /\ out' = out /\ job' = job /\ pc[p] \in Placed
      BY DEF BundleInv, Typed, Goto, Writing, Placed, Unplaced
    <3> QED
      BY <2>1, <3>1 DEF BundleInv, Placing, Staged
  <2>2. CASE q # p
    <3>1. pc'[q] = pc[q] /\ step'[q] = step[q] /\ out' = out /\ job' = job
      BY <2>2 DEF BundleInv, Typed, Goto, Writing
    <3> QED
      BY <3>1 DEF BundleInv, Placing, Staged
  <2> QED
    BY <2>1, <2>2
<1> QED
  BY <1>1, <1>2, WriteFiles DEF BundleInv

\* The steps that leave directories and files alone.
LEMMA PlainSteps ==
  ASSUME BundleInv, NEW p \in Procs,
         \/ Start(p) \/ Fails(p) \/ NoExport(p) \/ Validate(p) \/ NextCycle(p)
         \/ Load(p) \/ Acquire(p) \/ AcquireFails(p) \/ TimeOut(p) \/ ReadState(p)
         \/ ReplaceState(p) \/ SaveFails(p) \/ Crash(p)
  PROVE  BundleInv'
<1>1. CASE Start(p)
  <2>1. Plain(p)
    BY <1>1 DEF Start, Exit, Goto, Plain, disk, BundleInv, Typed, Staged, Chained, Before,
                Stages, Places, Placed, Unplaced, SessionPlaces
  <2> QED BY <2>1, PlainKeeps
<1>2. CASE Fails(p) \/ NoExport(p) \/ Validate(p) \/ Crash(p)
  <2>1. Plain(p)
    BY <1>2 DEF Fails, NoExport, Validate, Crash, Exit, Goto, Plain, disk, BundleInv, Typed,
                Placing, Places, Placed, Unplaced, SessionPlaces
  <2> QED BY <2>1, PlainKeeps
<1>3. CASE NextCycle(p)
  <2>1. Staged(p) => ~(cycle[p] < job[p].cycles)
    <3>1. job[p] \in Jobs /\ cycle[p] \in Nat /\ cycle[p] # 0
      BY DEF BundleInv, Typed
    <3>2. Staged(p) => job[p].cycles = 1
      BY <3>1 DEF Jobs, Staged, Stages
    <3> QED
      BY <3>1, <3>2
  <2>2. cycle' \in [Procs -> Nat \ {0}]
    BY <1>3 DEF NextCycle, BundleInv, Typed
  <2>3. Plain(p)
    BY <1>3, <2>1, <2>2 DEF NextCycle, Exit, Goto, Plain, disk, Places, Placed, Unplaced,
                            SessionPlaces
  <2> QED BY <2>3, PlainKeeps
<1>4. CASE \/ Load(p) \/ Acquire(p) \/ AcquireFails(p) \/ TimeOut(p) \/ ReadState(p)
           \/ ReplaceState(p) \/ SaveFails(p)
  <2>1. pc[p] \in SessionPlaces /\ ~Staged(p)
    BY <1>4 DEF Load, Acquire, AcquireFails, TimeOut, ReadState, ReplaceState, SaveFails,
                BundleInv, Placing, SessionPlaces
  <2>2. UNCHANGED <<job, out, step, input, files, changed, second, cycle>>
    BY <1>4 DEF Load, Acquire, AcquireFails, TimeOut, ReadState, ReplaceState, SaveFails, disk
  <2>3. \E there \in Places \ {"input"} : Goto(p, there) /\ (there \in Placed => pc[p] \in Placed)
    BY <1>4 DEF Load, Acquire, AcquireFails, TimeOut, ReadState, ReplaceState, SaveFails,
                Exit, Goto, Places, Placed
  <2>4. Plain(p)
    BY <2>1, <2>2, <2>3 DEF Plain, BundleInv, Typed
  <2> QED BY <2>4, PlainKeeps
<1> QED
  BY <1>1, <1>2, <1>3, <1>4

\* The steps that write.
LEMMA WriteSteps ==
  ASSUME BundleInv, NEW p \in Procs,
         \/ OpenArtifact(p) \/ WriteArtifact(p) \/ OpenManifest(p) \/ Publish(p) \/ Unlock(p)
  PROVE  BundleInv'
<1>1. CASE OpenArtifact(p)
  <2>1. pc[p] = "write" /\ Goto(p, "fill") /\ step' = step
    BY <1>1 DEF OpenArtifact
  <2>2. Staged(p) => step[p] \in {0, 1}
    BY <2>1 DEF BundleInv, Placing
  <2>3. Writing(p, Current(p), TORN)
    BY <1>1, <2>1, <2>2 DEF OpenArtifact, Writing, Current, Placed
  <2> QED
    BY <2>1, <2>2, <2>3, WriteKeeps DEF Placed, SessionPlaces
<1>2. CASE WriteArtifact(p)
  <2>1. /\ pc[p] \in {"write", "fill"} /\ Goto(p, AfterArtifact(p, step[p] + 1))
        /\ step' = [step EXCEPT ![p] = @ + 1]
    BY <1>2 DEF WriteArtifact
  <2>2. Staged(p) => step[p] \in {0, 1}
    BY <2>1 DEF BundleInv, Placing
  <2>3. Writing(p, Current(p), p)
    BY <1>2, <2>1, <2>2 DEF WriteArtifact, Writing, Current, Placed
  <2>4. AfterArtifact(p, step[p] + 1) \in {"manifest", "save", "write"}
    BY DEF AfterArtifact
  <2>5. Staged(p) => AfterArtifact(p, step[p] + 1) = IF step[p] = 1 THEN "manifest" ELSE "write"
    <3> SUFFICES ASSUME Staged(p)
                 PROVE  AfterArtifact(p, step[p] + 1) = IF step[p] = 1 THEN "manifest" ELSE "write"
      OBVIOUS
    <3>1. Len(Outputs[job[p].kind]) = 2 /\ Outputs[job[p].kind][2] # "state"
      BY DEF Staged, Stages, Outputs, ScannerOutputs, MonitoringOutputs
    <3> QED
      BY <2>2, <3>1 DEF AfterArtifact
  <2>6. step'[p] = step[p] + 1
    BY <2>1 DEF BundleInv, Typed
  <2> QED
    BY <2>1, <2>2, <2>3, <2>4, <2>5, <2>6, WriteKeeps DEF Placed, SessionPlaces
<1>3. CASE OpenManifest(p)
  <2>1. /\ pc[p] = "manifest" /\ Goto(p, "publish") /\ step' = step
        /\ (Staged(p) => step[p] = 2)
    BY <1>3 DEF OpenManifest, BundleInv, Placing
  <2>2. Writing(p, "run_manifest", TORN)
    BY <1>3, <2>1 DEF OpenManifest, Writing, Placed
  <2> QED
    BY <2>1, <2>2, WriteKeeps DEF Placed, SessionPlaces
<1>4. CASE Publish(p)
  <2>1. /\ pc[p] = "publish" /\ Goto(p, "validate") /\ step' = step
        /\ (Staged(p) => step[p] = 2) /\ changed' = changed
    BY <1>4 DEF Publish, BundleInv, Placing
  <2>2. Touch(out[p], FALSE)
    BY <2>1 DEF Touch
  <2>3. Writing(p, "run_manifest", p)
    BY <1>4, <2>1, <2>2 DEF Publish, Writing, Placed
  <2> QED
    BY <2>1, <2>3, WriteKeeps DEF Placed, SessionPlaces
<1>5. CASE Unlock(p)
  <2>1. /\ pc[p] = "unlock" /\ Goto(p, AfterArtifact(p, step[p] + 1)) /\ ~Staged(p)
    BY <1>5 DEF Unlock, BundleInv, Placing, SessionPlaces
  <2>2. Writing(p, "state", p)
    BY <1>5, <2>1 DEF Unlock, Writing, Placed
  <2>3. AfterArtifact(p, step[p] + 1) \in Placed
    BY DEF AfterArtifact, Placed
  <2> QED
    BY <2>1, <2>2, <2>3, WriteKeeps
<1> QED
  BY <1>1, <1>2, <1>3, <1>4, <1>5

\* The input comes from a published directory, whoever is at work in it.
LEMMA ResolveKeeps ==
  ASSUME BundleInv, NEW p \in Procs, ResolveInput(p)
  PROVE  BundleInv'
<1>1. /\ pc[p] = "input" /\ UNCHANGED <<job, out, step, cycle, files, changed, second>>
      /\ \E there \in {"done", "dir"} : Goto(p, there)
  BY DEF ResolveInput, Exit, disk
<1>2. Typed'
  BY <1>1 DEF BundleInv, Typed, Goto, Places
<1>3. Placing'
  <2> SUFFICES ASSUME NEW q \in Procs
               PROVE  Placing!(q)'
    BY DEF Placing
  <2>1. CASE q = p
    <3>1. pc'[p] \in {"done", "dir"}
      BY <1>1 DEF BundleInv, Typed, Goto
    <3> QED
      BY <1>1, <2>1, <3>1 DEF BundleInv, Placing, Staged, Placed, Unplaced, SessionPlaces
  <2>2. CASE q # p
    <3>1. pc'[q] = pc[q]
      BY <1>1, <2>2 DEF BundleInv, Typed, Goto
    <3> QED
      BY <1>1, <3>1 DEF BundleInv, Placing, Staged
  <2> QED
    BY <2>1, <2>2
<1>4. Filed'
  BY <1>1 DEF BundleInv, Filed, Alone, Wrote, Exists
<1>5. Taken' /\ DOMAIN input' = Procs
  <2>1. CASE input' = input
    BY <1>1, <2>1 DEF BundleInv, Taken, Exists
  <2>2. CASE input' # input
    <3> DEFINE d == Latest(Before[job[p].kind])
    <3>1. PICK a \in InputFiles(p) :
            /\ job[p].latest /\ d # NONE /\ Wrote(d, a) \notin {NONE, TORN}
            /\ input' = [input EXCEPT ![p] = [dir |-> d, by |-> Wrote(d, a)]]
      BY <2>2 DEF ResolveInput, Exit
    <3>2. d \in Candidates(Before[job[p].kind])
      BY <3>1, LatestIsCandidate DEF BundleInv, Typed
    <3> HIDE DEF d
    <3>3. Exists(d, "run_manifest") /\ d[1] = Before[job[p].kind]
      BY <3>2 DEF Candidates
    <3>4. d \in Dirs
      BY <3>3 DEF BundleInv, Typed, Exists
    <3>5. d[1] \in Stages
      BY <1>1, <3>3 DEF BundleInv, Placing, Chained, Before, Stages
    <3>6. <<d, a>> \in DOMAIN files /\ Wrote(d, a) = files[<<d, a>>]
      BY <3>1 DEF Wrote, Exists
    <3>7. Wrote(d, a) \in Procs /\ out[Wrote(d, a)] = d
      BY <3>1, <3>5, <3>6 DEF BundleInv, Filed
    <3> QED
      BY <1>1, <3>1, <3>3, <3>4, <3>5, <3>7 DEF BundleInv, Taken, Exists
  <2> QED
    BY <2>1, <2>2
<1> QED
  BY <1>2, <1>3, <1>4, <1>5 DEF BundleInv

\* A directory is made once by a runner of a stage, with nothing of it in there.
LEMMA MakeDirKeeps ==
  ASSUME BundleInv, NEW p \in Procs, MakeDir(p)
  PROVE  BundleInv'
<1> DEFINE d == OutputDir(p)
<1>1. /\ pc[p] = "dir" /\ Goto(p, "write") /\ out' = [out EXCEPT ![p] = d]
      /\ step' = [step EXCEPT ![p] = 0] /\ Touch(d, d \notin ToSet(changed))
      /\ UNCHANGED <<job, cycle, input, files, second>>
  BY DEF MakeDir
<1>2. d \in Dirs /\ (d[1] \in Stages => job[p].kind = d[1])
  BY OutputDirType DEF BundleInv, Typed
<1> HIDE DEF d
<1>3. Staged(p) => out[p] = NONE
  BY <1>1 DEF BundleInv, Placing, Unplaced
<1>4. /\ out'[p] = d /\ step'[p] = 0 /\ pc'[p] = "write"
      /\ \A q \in Procs : q # p => out'[q] = out[q] /\ step'[q] = step[q] /\ pc'[q] = pc[q]
  BY <1>1 DEF BundleInv, Typed, Goto
<1>5. Typed'
  <2>1. changed' \in Seq(Dirs)
    BY <1>1, <1>2, TouchType DEF BundleInv, Typed
  <2>2. out' \in [Procs -> Dirs \union {NONE}] /\ step' \in [Procs -> Nat]
    BY <1>1, <1>2 DEF BundleInv, Typed
  <2>3. pc' \in [Procs -> Places]
    BY <1>1 DEF BundleInv, Typed, Goto, Places
  <2> QED
    BY <1>1, <2>1, <2>2, <2>3 DEF BundleInv, Typed
<1>6. Placing'
  <2> SUFFICES ASSUME NEW q \in Procs
               PROVE  Placing!(q)'
    BY DEF Placing
  <2>1. CASE q = p
    BY <1>1, <1>2, <1>4, <2>1 DEF Staged, SessionPlaces, Unplaced
  <2>2. CASE q # p
    BY <1>1, <1>4, <2>2 DEF BundleInv, Placing, Staged
  <2> QED
    BY <2>1, <2>2
\* Whoever is named in the directory of a stage is not p.
<1>7. \A q \in Procs : out[q] \in Dirs /\ out[q][1] \in Stages => q # p
  BY <1>3, NoneAssumption DEF BundleInv, Placing, Staged
<1>8. Filed'
  <2>1. ASSUME NEW f \in DOMAIN files, f[1][1] \in Stages
        PROVE  /\ files[f] = TORN \/ (files[f] \in Procs /\ out'[files[f]] = f[1])
               /\ f[2] = "run_manifest" => \E q \in Procs : out'[q] = f[1] /\ step'[q] = 2
    <3>1. f[1] \in Dirs
      BY DEF BundleInv, Typed
    <3>2. \A q \in Procs : out[q] = f[1] => out'[q] = f[1] /\ step'[q] = step[q]
      BY <1>4, <1>7, <2>1, <3>1
    <3>3. /\ files[f] = TORN \/ (files[f] \in Procs /\ out[files[f]] = f[1])
          /\ f[2] = "run_manifest" => \E q \in Procs : out[q] = f[1] /\ step[q] = 2
      BY <2>1 DEF BundleInv, Filed
    <3> QED
      BY <3>2, <3>3
  <2>2. ASSUME NEW q \in Procs, out'[q] \in Dirs, out'[q][1] \in Stages, Alone(q)',
               NEW n \in {1, 2}, n <= step'[q]
        PROVE  Wrote(out'[q], Outputs[out'[q][1]][n]) = q
    <3>1. q # p
      BY <1>4, <2>2
    <3>2. out'[q] = out[q] /\ step'[q] = step[q]
      BY <1>4, <3>1
    <3>3. Alone(q)
      <4>1. ASSUME NEW r \in Procs, out[r] = out[q] PROVE r = q
        <5>1. r # p
          BY <1>7, <2>2, <3>2, <4>1
        <5> QED
          BY <1>4, <2>2, <3>2, <4>1, <5>1 DEF Alone
      <4> QED
        BY <4>1 DEF Alone
    <3> QED
      BY <2>2, <3>2, <3>3 DEF BundleInv, Filed
  <2>3. files' = files
    BY <1>1
  <2> QED
    BY <2>1, <2>2, <2>3 DEF Filed, Wrote, Exists
<1>9. Taken' /\ DOMAIN input' = Procs
  <2>1. ASSUME NEW q \in Procs, input[q] # NONE
        PROVE  out'[input[q].by] = input[q].dir
    <3>1. /\ input[q] \in [dir : Dirs, by : Procs] /\ input[q].dir[1] \in Stages
          /\ out[input[q].by] = input[q].dir
      BY <2>1 DEF BundleInv, Taken
    <3>2. input[q].by \in Procs /\ input[q].dir \in Dirs
      BY <3>1
    <3> QED
      BY <1>4, <1>7, <3>1, <3>2
  <2> QED
    BY <1>1, <2>1 DEF BundleInv, Taken, Exists
<1> QED
  BY <1>5, <1>6, <1>8, <1>9 DEF BundleInv

LEMMA BundleNext == BundleInv /\ [Next]_vars => BundleInv'
<1> SUFFICES ASSUME BundleInv, [Next]_vars PROVE BundleInv'
  OBVIOUS
<1>1. ASSUME UNCHANGED <<job, pc, out, step, cycle, input, files, changed>>, second' \in Nat
      PROVE  BundleInv'
  <2>1. Typed' /\ Placing'
    BY <1>1 DEF BundleInv, Typed, Placing, Staged
  <2> QED
    BY <1>1, <2>1 DEF BundleInv, Filed, Alone, Taken, Wrote, Exists
<1>2. CASE Tick
  BY <1>1, <1>2 DEF Tick, local, disk, BundleInv, Typed
<1>3. CASE UNCHANGED vars
  BY <1>1, <1>3 DEF vars, local, disk, BundleInv, Typed
<1>4. ASSUME NEW p \in Procs, Judge(p) PROVE BundleInv'
  BY <1>1, <1>4 DEF Judge, disk, BundleInv, Typed
<1>5. ASSUME NEW p \in Procs, Start(p) \/ Step(p) \/ AcquireFails(p) \/ Crash(p)
      PROVE  BundleInv'
  BY <1>5, PlainSteps, WriteSteps, ResolveKeeps, MakeDirKeeps
  DEF Step, Write, Bundle, Session
<1> QED
  BY <1>2, <1>3, <1>4, <1>5 DEF Next

\* Whatever dies, fails or is started meanwhile, a runner that takes the latest
\* bundle of a stage takes one with all its artifacts, unless two runs share it.
THEOREM BundleSafety == Spec => []ReadsWholeBundle
<1> QED BY BundleInit, BundleNext, WholeBundle, PTL DEF Spec

-----------------------------------------------------------------------------
(* The pipelines: a success has a bundle of its own                        *)

RunDir(p) == <<"run", p>>

\* A file of a pipeline may be half written now, or since the pipeline failed.
Half(p, a) ==
  \/ pc[p] = "fill" /\ a = Current(p)
  \/ pc[p] = "publish" /\ a = "run_manifest"
  \/ pc[p] \in Ended /\ code[p] \in {NONE, 1}

\* Exit codes belong to processes that have ended.
Coded ==
  /\ code \in [Procs -> {NONE, 0, 1}] /\ DOMAIN verdict = Procs
  /\ \A p \in Procs : pc[p] # "done" => code[p] = NONE

\* The directory of a pipeline is its own.
Private ==
  /\ \A p, r \in Procs :
       out[p] = RunDir(r) => r = p /\ job[p].orchestrated /\ job[p].kind # "dry"
  /\ \A f \in DOMAIN files, p \in Procs :
       f[1] = RunDir(p) => /\ out[p] = RunDir(p)
                           /\ files[f] = p \/ (files[f] = TORN /\ Half(p, f[2]))

Judged ==
  \A p \in Procs : verdict[p] = TRUE =>
    /\ pc[p] = "done" /\ Manifest(RunDir(p)) = p
    /\ \A a \in ToSet(Outputs[job[p].kind]) : Wrote(RunDir(p), a) = p

SuccessInv == BundleInv /\ Coded /\ Private /\ Judged

LEMMA SuccessInit == Init => SuccessInv
<1> SUFFICES ASSUME Init PROVE SuccessInv
  OBVIOUS
<1>1. Coded
  BY DEF Init, Coded
<1>2. Private
  BY NoneAssumption DEF Init, Private, RunDir, Dirs
<1>3. Judged
  BY NoneAssumption DEF Init, Judged
<1> QED
  BY <1>1, <1>2, <1>3, BundleInit DEF SuccessInv

\* A process that has nothing half written goes on, makes its directory or ends.
Moves(p) ==
  /\ pc[p] \notin {"fill", "publish"} \union Ended
  /\ UNCHANGED <<job, files, verdict>>
  /\ \E there \in Places \ {"fill", "publish"} :
       Goto(p, there)
         /\ \/ there # "done" /\ code' = code
            \/ there = "done" /\ \E c \in {0, 1} : code' = [code EXCEPT ![p] = c]
  /\ out' = out \/ out' = [out EXCEPT ![p] = OutputDir(p)]
  /\ \A q \in Procs : q # p => step'[q] = step[q]

LEMMA MovesKeep ==
  ASSUME SuccessInv, BundleInv', NEW p \in Procs, Moves(p)
  PROVE  SuccessInv'
<1> USE DEF Moves
<1>1. /\ \A q \in Procs : q # p => pc'[q] = pc[q] /\ code'[q] = code[q] /\ out'[q] = out[q]
      /\ code' \in [Procs -> {NONE, 0, 1}]
      /\ pc'[p] # "done" => code'[p] = code[p]
  <2>1. /\ \A q \in Procs : q # p => pc'[q] = pc[q] /\ out'[q] = out[q]
        /\ \A q \in Procs : pc'[q] \in {pc[q]} \union {pc'[p]}
    BY DEF SuccessInv, BundleInv, Typed, Goto
  <2>2. code \in [Procs -> {NONE, 0, 1}]
    BY DEF SuccessInv, Coded
  <2>3. /\ code' \in [Procs -> {NONE, 0, 1}]
        /\ \A q \in Procs : q # p => code'[q] = code[q]
    BY <2>2
  <2>4. pc'[p] # "done" => code' = code
    BY DEF SuccessInv, BundleInv, Typed, Goto
  <2> QED
    BY <2>1, <2>3, <2>4
<1>2. Coded'
  BY <1>1 DEF SuccessInv, Coded, Ended
<1>3. Private'
  <2>1. /\ OutputDir(p) = RunDir(p) \/ \A r \in Procs : OutputDir(p) # RunDir(r)
        /\ (job[p].orchestrated /\ job[p].kind # "dry") <=> OutputDir(p) = RunDir(p)
    <3>1. job[p].kind # "run"
      BY DEF SuccessInv, BundleInv, Typed, Jobs, Kinds, Outputs
    <3>2. CASE job[p].kind = "dry"
      <4>1. OutputDir(p) = <<"stage", cycle[p]>>
        BY <3>2 DEF OutputDir
      <4>2. \A r : OutputDir(p) # RunDir(r)
        BY <4>1 DEF RunDir
      <4> QED
        BY <3>2, <4>2
    <3>3. CASE job[p].kind # "dry" /\ job[p].orchestrated
      <4>1. OutputDir(p) = RunDir(p)
        BY <3>3 DEF OutputDir, RunDir
      <4> QED
        BY <3>3, <4>1
    <3>4. CASE job[p].kind # "dry" /\ ~job[p].orchestrated
      BY <3>1, <3>4 DEF OutputDir, RunDir
    <3> QED
      BY <3>2, <3>3, <3>4
  <2>2. out'[p] \in {out[p], OutputDir(p)}
    BY DEF SuccessInv, BundleInv, Typed
  <2>3. ASSUME NEW q \in Procs, NEW r \in Procs, out'[q] = RunDir(r)
        PROVE  r = q /\ job[q].orchestrated /\ job[q].kind # "dry"
    <3>1. RunDir(r) = RunDir(q) => r = q
      BY DEF RunDir
    <3> QED
      <4>1. \A x, y \in Procs : out[x] = RunDir(y) =>
              y = x /\ job[x].orchestrated /\ job[x].kind # "dry"
        BY DEF SuccessInv, Private
      <4>2. CASE out'[q] = out[q]
        BY <2>3, <4>1, <4>2
      <4>3. CASE q = p /\ out'[q] = OutputDir(p)
        BY <2>1, <2>3, <3>1, <4>3
      <4> QED
        BY <1>1, <2>2, <4>2, <4>3
  <2>4. ASSUME NEW f \in DOMAIN files, NEW q \in Procs, f[1] = RunDir(q)
        PROVE  /\ out'[q] = RunDir(q)
               /\ files[f] = q \/ (files[f] = TORN /\ Half(q, f[2])')
    <3>1. /\ files[f] = q \/ (files[f] = TORN /\ Half(q, f[2]))
          /\ out[q] = RunDir(q) /\ job[q].orchestrated /\ job[q].kind # "dry"
      BY <2>4 DEF SuccessInv, Private
    <3>2. CASE q = p
      BY <2>1, <2>2, <3>1, <3>2 DEF Half
    <3>3. CASE q # p
      BY <1>1, <3>1, <3>3 DEF Half, Current
    <3> QED
      BY <3>2, <3>3
  <2> QED
    BY <2>3, <2>4 DEF Private
<1>4. Judged'
  BY <1>1 DEF SuccessInv, Judged, Manifest, Wrote, Exists, Ended
<1> QED
  BY <1>2, <1>3, <1>4 DEF SuccessInv

\* A process that writes what belongs there: nothing of it stays half written
\* unless it is the file it is about to fill.
LEMMA PutKeeps ==
  ASSUME SuccessInv, BundleInv', NEW p \in Procs, pc[p] \in Placed,
         NEW a, NEW w \in {p, TORN}, Put(out[p], a, w),
         UNCHANGED <<job, out, code, verdict>>,
         \A q \in Procs : q # p => step'[q] = step[q],
         NEW there \in Placed, Goto(p, there),
         \A b : Half(p, b) => b = a,
         w = TORN => Half(p, a)'
  PROVE  SuccessInv'
<1>1. /\ DOMAIN files' = DOMAIN files \union {<<out[p], a>>}
      /\ files'[<<out[p], a>>] = w
      /\ \A f \in DOMAIN files : f # <<out[p], a>> => files'[f] = files[f]
  BY PutFacts
<1>2. /\ pc'[p] = there /\ pc[p] # "done" /\ there # "done"
      /\ \A q \in Procs : q # p => pc'[q] = pc[q]
  BY DEF SuccessInv, BundleInv, Typed, Goto, Placed
<1>3. Coded'
  BY <1>2 DEF SuccessInv, Coded
<1>4. Private'
  <2>1. ASSUME NEW f \in DOMAIN files', NEW q \in Procs, f[1] = RunDir(q)
        PROVE  /\ out[q] = RunDir(q)
               /\ files'[f] = q \/ (files'[f] = TORN /\ Half(q, f[2])')
    <3>1. CASE f = <<out[p], a>>
      <4>1. f[1] = out[p] /\ f[2] = a
        BY <3>1
      <4>2. q = p
        <5>1. \A x, y \in Procs : out[x] = RunDir(y) => y = x
          BY DEF SuccessInv, Private
        <5> QED
          BY <2>1, <4>1, <5>1
      <4>3. files'[f] = w /\ out[q] = RunDir(q)
        BY <1>1, <2>1, <3>1, <4>1, <4>2
      <4>4. CASE w = TORN
        <5>1. Half(q, f[2])'
          BY <4>1, <4>2, <4>4 DEF Half, Current
        <5> QED
          BY <4>3, <4>4, <5>1
      <4> QED
        BY <4>2, <4>3, <4>4
    <3>2. CASE f # <<out[p], a>>
      <4>1. f \in DOMAIN files /\ files'[f] = files[f] /\ f = <<f[1], f[2]>>
        BY <1>1, <3>2 DEF SuccessInv, BundleInv, Typed
      <4>2. /\ files[f] = q \/ (files[f] = TORN /\ Half(q, f[2]))
            /\ out[q] = RunDir(q)
        BY <2>1, <4>1 DEF SuccessInv, Private
      <4>3. CASE q # p
        <5>1. pc'[q] = pc[q] /\ step'[q] = step[q] /\ job' = job /\ code' = code
          BY <1>2, <4>3
        <5>2. Half(q, f[2])' = Half(q, f[2])
          BY <5>1 DEF Half, Current
        <5> QED
          BY <4>1, <4>2, <4>3, <5>2
      <4>4. CASE q = p /\ files[f] = TORN /\ files[f] # p
        <5>1. f[2] = a
          BY <4>2, <4>4
        <5>2. FALSE
          BY <2>1, <3>2, <4>1, <4>2, <4>4, <5>1
        <5> QED
          BY <5>2
      <4> QED
        BY <4>1, <4>2, <4>3, <4>4
    <3> QED
      BY <3>1, <3>2
  <2> QED
    BY <2>1 DEF SuccessInv, Private
<1>5. Judged'
  <2>1. ASSUME NEW q \in Procs, verdict[q] = TRUE, NEW b, Wrote(RunDir(q), b) = q
        PROVE  Wrote(RunDir(q), b)' = q
    <3>1. out[p] # RunDir(q)
      BY <1>2, <2>1 DEF SuccessInv, Private, Judged
    <3>2. <<RunDir(q), b>> # <<out[p], a>>
      BY <3>1
    <3>3. <<RunDir(q), b>> \in DOMAIN files /\ files[<<RunDir(q), b>>] = q
      BY <2>1, NoneAssumption DEF Wrote, Exists
    <3> QED
      BY <1>1, <3>2, <3>3 DEF Wrote, Exists, RunDir
  <2>2. ASSUME NEW q \in Procs, verdict[q] = TRUE
        PROVE  /\ pc'[q] = "done" /\ Manifest(RunDir(q))' = q
               /\ \A b \in ToSet(Outputs[job[q].kind]) : Wrote(RunDir(q), b)' = q
    BY <1>2, <2>1, <2>2 DEF SuccessInv, Judged, Manifest
  <2> QED
    BY <2>2 DEF Judged, Manifest
<1> QED
  BY <1>3, <1>4, <1>5 DEF SuccessInv

\* A process that dies or gives up leaves what it has half written.
LEMMA BreakKeeps ==
  ASSUME SuccessInv, BundleInv', NEW p \in Procs, Fails(p) \/ Crash(p)
  PROVE  SuccessInv'
<1>1. /\ pc[p] \notin Ended /\ UNCHANGED <<job, out, step, files, verdict>>
      /\ \/ Goto(p, "done") /\ code' = [code EXCEPT ![p] = 1]
         \/ Goto(p, "dead") /\ code' = code
  BY DEF Fails, Crash, Exit, Alive, Ended, disk
<1>2. code \in [Procs -> {NONE, 0, 1}] /\ code[p] = NONE
  BY <1>1 DEF SuccessInv, Coded, Ended
<1>3. /\ \A q \in Procs : q # p => pc'[q] = pc[q] /\ code'[q] = code[q]
      /\ pc'[p] \in Ended /\ code'[p] \in {NONE, 1} /\ (pc'[p] # "done" => code'[p] = NONE)
      /\ code' \in [Procs -> {NONE, 0, 1}]
  <2>1. pc \in [Procs -> Places]
    BY DEF SuccessInv, BundleInv, Typed
  <2>2. CASE Goto(p, "done") /\ code' = [code EXCEPT ![p] = 1]
    BY <1>2, <2>1, <2>2 DEF Goto, Ended
  <2>3. CASE Goto(p, "dead") /\ code' = code
    BY <1>2, <2>1, <2>3 DEF Goto, Ended
  <2> QED
    BY <1>1, <2>2, <2>3
<1>4. Coded'
  BY <1>1, <1>3 DEF SuccessInv, Coded
<1>5. \A q \in Procs : \A b : Half(q, b) => Half(q, b)'
  BY <1>1, <1>3 DEF Half, Current
<1>6. Private'
  BY <1>1, <1>5 DEF SuccessInv, Private
<1>7. Judged'
  BY <1>1, <1>3 DEF SuccessInv, Judged, Manifest, Wrote, Exists, Ended
<1> QED
  BY <1>4, <1>6, <1>7 DEF SuccessInv

\* A verdict is passed on a process that has ended well: nothing is half written.
LEMMA JudgeKeeps ==
  ASSUME SuccessInv, BundleInv', NEW p \in Procs, Judge(p)
  PROVE  SuccessInv'
<1>1. /\ code[p] # NONE /\ UNCHANGED <<job, pc, out, step, code, files>>
      /\ verdict' = [verdict EXCEPT ![p] =
           code[p] = 0 /\ ContractHolds(RunDir(p), job[p].kind)]
  BY DEF Judge, disk, RunDir
<1>2. pc[p] = "done"
  BY <1>1 DEF SuccessInv, Coded
<1>3. ASSUME verdict'[p] = TRUE
      PROVE  /\ Manifest(RunDir(p)) = p
             /\ \A a \in ToSet(Outputs[job[p].kind]) : Wrote(RunDir(p), a) = p
  <2>1. code[p] = 0 /\ ContractHolds(RunDir(p), job[p].kind)
    BY <1>1, <1>3 DEF SuccessInv, Coded
  <2>2. ASSUME NEW a, Exists(RunDir(p), a)
        PROVE  Wrote(RunDir(p), a) = p
    <3>1. /\ <<RunDir(p), a>> \in DOMAIN files
          /\ Wrote(RunDir(p), a) = files[<<RunDir(p), a>>]
      BY <2>2 DEF Exists, Wrote
    <3>2. ~Half(p, a)
      BY <1>1, <1>2, <2>1 DEF Half, Ended
    <3> QED
      BY <3>1, <3>2 DEF SuccessInv, Private
  <2>3. Exists(RunDir(p), "run_manifest")
    BY <2>1 DEF ContractHolds, Manifest, Wrote
  <2> QED
    BY <2>1, <2>2, <2>3 DEF ContractHolds, Manifest
<1>4. Coded'
  BY <1>1 DEF SuccessInv, Coded
<1>5. Private'
  BY <1>1 DEF SuccessInv, Private, Half, Current
<1>6. Judged'
  <2>1. ASSUME NEW q \in Procs, verdict'[q] = TRUE
        PROVE  /\ pc[q] = "done" /\ Manifest(RunDir(q)) = q
               /\ \A a \in ToSet(Outputs[job[q].kind]) : Wrote(RunDir(q), a) = q
    <3>1. CASE q = p
      BY <1>2, <1>3, <2>1, <3>1
    <3>2. CASE q # p
      <4>1. verdict[q] = TRUE
        BY <1>1, <2>1, <3>2 DEF SuccessInv, Coded
      <4> QED
        BY <4>1 DEF SuccessInv, Judged
    <3> QED
      BY <3>1, <3>2
  <2> QED
    BY <1>1, <2>1 DEF Judged, Manifest, Wrote, Exists
<1> QED
  BY <1>4, <1>5, <1>6 DEF SuccessInv

\* The steps of the processes are of these kinds.
LEMMA SuccessStep ==
  ASSUME SuccessInv, BundleInv', NEW p \in Procs,
         Start(p) \/ Step(p) \/ AcquireFails(p)
  PROVE  SuccessInv'
<1>1. pc[p] \notin {"fill", "publish"} \union Ended => \A b : ~Half(p, b)
  BY DEF Half
<1>2. CASE \/ Start(p) \/ ResolveInput(p) \/ MakeDir(p) \/ NoExport(p) \/ Validate(p)
           \/ NextCycle(p) \/ Load(p) \/ Acquire(p) \/ AcquireFails(p) \/ TimeOut(p)
           \/ ReadState(p) \/ ReplaceState(p) \/ SaveFails(p)
  <2>1. Moves(p)
    <3>1. CASE Start(p) \/ ResolveInput(p)
      <4>1. /\ pc[p] \in {"waiting", "input"} /\ UNCHANGED <<job, out, step, verdict, files>>
            /\ \/ \E there \in {"input", "load", "dir"} : Goto(p, there) /\ code' = code
               \/ \E c \in {0, 1} : Exit(p, c)
        <5>1. CASE Start(p)
          BY <5>1 DEF Start, disk
        <5>2. CASE ResolveInput(p)
          BY <5>2 DEF ResolveInput, disk
        <5> QED
          BY <3>1, <5>1, <5>2
      <4>2. CASE \E there \in {"input", "load", "dir"} : Goto(p, there) /\ code' = code
        BY <4>1, <4>2 DEF Moves, Places, Ended
      <4>3. CASE \E c \in {0, 1} : Exit(p, c)
        BY <4>1, <4>3 DEF Exit, Moves, Places, Ended
      <4> QED
        BY <4>1, <4>2, <4>3
    <3>2. CASE MakeDir(p)
      <4>1. step' = [step EXCEPT ![p] = 0] /\ step \in [Procs -> Nat]
        BY <3>2 DEF MakeDir, SuccessInv, BundleInv, Typed
      <4> QED
        BY <3>2, <4>1 DEF MakeDir, Moves, Places, Ended
    <3>3. CASE NoExport(p) \/ Validate(p) \/ NextCycle(p)
      BY <3>3 DEF NoExport, Validate, NextCycle, Exit, disk, Moves, Places, Ended
    <3>4. CASE Load(p) \/ Acquire(p) \/ AcquireFails(p) \/ TimeOut(p)
      BY <3>4 DEF Load, Acquire, AcquireFails, TimeOut, Exit, disk, Moves, Places, Ended
    <3>5. CASE ReadState(p) \/ ReplaceState(p) \/ SaveFails(p)
      BY <3>5 DEF ReadState, ReplaceState, SaveFails, Exit, disk, Moves, Places, Ended
    <3> QED
      BY <1>2, <3>1, <3>2, <3>3, <3>4, <3>5
  <2> QED
    BY <2>1, MovesKeep
<1>3. CASE Fails(p)
  BY <1>3, BreakKeeps
<1>4. CASE OpenArtifact(p)
  <2>1. Half(p, Current(p))'
    BY <1>4 DEF OpenArtifact, Goto, Half, Current, SuccessInv, BundleInv, Typed
  <2>2. \A b : ~Half(p, b)
    BY <1>1, <1>4 DEF OpenArtifact, Ended
  <2>3. Current(p)' = Current(p)
    BY <1>4 DEF OpenArtifact, Current
  <2> QED
    BY <1>4, <2>1, <2>2, <2>3, PutKeeps DEF OpenArtifact, Placed
<1>5. CASE WriteArtifact(p)
  <2>1. \A b : Half(p, b) => b = Current(p)
    BY <1>5 DEF WriteArtifact, Half, Ended
  <2>2. AfterArtifact(p, step[p] + 1) \in Placed
    BY DEF AfterArtifact, Placed
  <2>3. \A q \in Procs : q # p => step'[q] = step[q]
    BY <1>5 DEF WriteArtifact, SuccessInv, BundleInv, Typed
  <2>4. pc[p] \in Placed
    BY <1>5 DEF WriteArtifact, Placed
  <2> QED
    BY <1>5, <2>1, <2>2, <2>3, <2>4, NoneAssumption, PutKeeps DEF WriteArtifact
<1>6. CASE OpenManifest(p)
  <2>1. \A b : ~Half(p, b)
    BY <1>1, <1>6 DEF OpenManifest, Ended
  <2>2. Half(p, "run_manifest")'
    BY <1>6 DEF OpenManifest, Goto, Half, SuccessInv, BundleInv, Typed
  <2> QED
    BY <1>6, <2>1, <2>2, PutKeeps DEF OpenManifest, Placed
<1>7. CASE Publish(p)
  <2>1. \A b : Half(p, b) => b = "run_manifest"
    BY <1>7 DEF Publish, Half, Ended
  <2> QED
    BY <1>7, <2>1, NoneAssumption, PutKeeps DEF Publish, Placed
<1>8. CASE Unlock(p)
  <2>1. \A b : ~Half(p, b)
    BY <1>1, <1>8 DEF Unlock, Ended
  <2>2. AfterArtifact(p, step[p] + 1) \in Placed
    BY DEF AfterArtifact, Placed
  <2>3. \A q \in Procs : q # p => step'[q] = step[q]
    BY <1>8 DEF Unlock, SuccessInv, BundleInv, Typed
  <2>4. pc[p] \in Placed
    BY <1>8 DEF Unlock, Placed
  <2> QED
    BY <1>8, <2>1, <2>2, <2>3, <2>4, NoneAssumption, PutKeeps DEF Unlock
<1> QED
  BY <1>2, <1>3, <1>4, <1>5, <1>6, <1>7, <1>8 DEF Step, Write, Bundle, Session

LEMMA SuccessNext == SuccessInv /\ [Next]_vars => SuccessInv'
<1> SUFFICES ASSUME SuccessInv, [Next]_vars PROVE SuccessInv'
  OBVIOUS
<1>1. BundleInv'
  BY BundleNext DEF SuccessInv
<1>2. CASE Tick \/ UNCHANGED vars
  <2>1. UNCHANGED <<job, pc, out, step, code, verdict, files>>
    BY <1>2 DEF Tick, vars, local, disk
  <2> QED
    BY <1>1, <2>1 DEF SuccessInv, Coded, Private, Half, Current, Judged, Manifest, Wrote, Exists
<1>3. ASSUME NEW p \in Procs,
             Start(p) \/ Step(p) \/ Judge(p) \/ AcquireFails(p) \/ Crash(p)
      PROVE  SuccessInv'
  BY <1>1, <1>3, SuccessStep, JudgeKeeps, BreakKeeps
<1> QED
  BY <1>2, <1>3 DEF Next

\* A pipeline reported as successful has left a whole bundle of its own, whatever
\* fails or dies around it and however often it writes it.
THEOREM SuccessSafety == Spec => []SuccessHasOwnBundle
<1>1. SuccessInv => SuccessHasOwnBundle
  BY DEF SuccessInv, Judged, SuccessHasOwnBundle, RunDir
<1> QED BY <1>1, SuccessInit, SuccessNext, PTL DEF Spec

-----------------------------------------------------------------------------
(* The paper sessions: one after the other they lose nothing               *)

IsPaper(p) == job[p].kind = "paper"

\* Whoever has been met has ended for good.
Met == \A p, q \in Procs : q \in met[p] => pc[q] \in Ended

SessionTypes ==
  /\ DOMAIN met = Procs /\ base \in [Procs -> SUBSET Procs]
  /\ state \in [StateDirs -> (SUBSET Procs) \union {NONE}]
  /\ Met

\* How far a process is: only a paper session comes to the state file, once, after
\* its first artifact, and a state file that was there to be read stays there.
Progress ==
  \A p \in Procs :
    /\ pc[p] \in SessionPlaces => IsPaper(p)
    /\ pc[p] \in {"write", "fill"} => step[p] < Len(Outputs[job[p].kind])
    /\ IsPaper(p) =>
         /\ pc[p] \in {"waiting", "load", "lockload", "read"} => step[p] = 0 /\ base[p] = {}
         /\ pc[p] \in {"dir", "write", "fill"} => step[p] = 0
         /\ pc[p] \in {"save", "replace", "unlock"} => step[p] = 1
         /\ pc[p] # "input"
         /\ pc[p] \in {"lockload", "read"} => state[Store(p)] # NONE

\* What a session has loaded is what is there.
Loaded(p) == base[p] = IF state[Store(p)] = NONE THEN {} ELSE state[Store(p)]

\* The sessions are in the state once they have saved; the one at work has it all.
Saved ==
  \A p \in Procs : IsPaper(p) =>
    /\ step[p] > 1 \/ pc[p] = "unlock" => state[Store(p)] # NONE /\ p \in state[Store(p)]
    /\ pc[p] \in {"dir", "write", "fill", "save", "replace"} => Loaded(p)

SessionInv == BundleInv /\ SessionTypes /\ Progress /\ (Serial => Saved)

LEMMA OneAtWork ==
  ASSUME Serial, Met, NEW p \in Procs, NEW q \in Procs, Alive(p), Alive(q)
  PROVE  p = q
  BY DEF Serial, Met, Alive

LEMMA SessionInit == Init => SessionInv
<1> SUFFICES ASSUME Init PROVE SessionInv
  OBVIOUS
<1>1. SessionTypes
  BY DEF Init, SessionTypes, Met
<1>2. Progress
  BY DEF Init, Progress, SessionPlaces
<1>3. Saved
  BY DEF Init, Saved
<1> QED
  BY <1>1, <1>2, <1>3, BundleInit DEF SessionInv

\* What every step of a process does with what belongs to the others; a step that
\* replaces the state writes what the session has loaded, and its own.
SessionMove(p) ==
  /\ pc[p] \notin Ended /\ UNCHANGED job
  /\ \E there \in Places \ {"waiting"} : Goto(p, there)
  /\ \A q \in Procs : q # p => step'[q] = step[q] /\ base'[q] = base[q]
  /\ base' \in [Procs -> SUBSET Procs]
  /\ \/ met' = met
     \/ pc[p] = "waiting" /\ \E S \in SUBSET {q \in Procs : pc[q] \in Ended} :
                               met' = [met EXCEPT ![p] = S]
  /\ \/ state' = state
     \/ pc[p] = "replace" /\ state' = [state EXCEPT ![Store(p)] = base[p] \union {p}]

LEMMA MoveKeeps ==
  ASSUME SessionInv, BundleInv', NEW p \in Procs, SessionMove(p),
         Progress!(p)', Serial /\ Saved => Saved!(p)'
  PROVE  SessionInv'
<1> USE DEF SessionMove
<1>1. /\ \A q \in Procs : q # p => pc'[q] = pc[q]
      /\ pc'[p] # "waiting" /\ \A q \in Procs : Store(q)' = Store(q) /\ Store(q) \in StateDirs
      /\ \A q \in Procs : IsPaper(q)' = IsPaper(q)
  BY StoreType DEF SessionInv, BundleInv, Typed, Goto, Store, IsPaper
<1>2. SessionTypes'
  <2>1. DOMAIN met' = Procs
    BY DEF SessionInv, SessionTypes
  <2>2. state' \in [StateDirs -> (SUBSET Procs) \union {NONE}]
    BY <1>1 DEF SessionInv, SessionTypes
  <2>3. Met'
    <3>1. \A q \in Procs : pc[q] \in Ended => pc'[q] \in Ended
      BY <1>1
    <3>2. ASSUME NEW r \in Procs, NEW q \in Procs, q \in met'[r]
          PROVE  pc[q] \in Ended
      <4>1. CASE met' = met
        BY <3>2, <4>1 DEF SessionInv, SessionTypes, Met
      <4>2. ASSUME NEW S \in SUBSET {x \in Procs : pc[x] \in Ended}, met' = [met EXCEPT ![p] = S]
            PROVE  pc[q] \in Ended
        BY <3>2, <4>2 DEF SessionInv, SessionTypes, Met
      <4> QED
        BY <4>1, <4>2
    <3> QED
      BY <3>1, <3>2 DEF Met
  <2> QED
    BY <2>1, <2>2, <2>3 DEF SessionTypes
<1>3. Progress'
  <2>1. ASSUME NEW q \in Procs, state[Store(q)] # NONE
        PROVE  state'[Store(q)] # NONE
    <3>1. CASE state' = [state EXCEPT ![Store(p)] = base[p] \union {p}]
      <4>1. base[p] \union {p} \in SUBSET Procs
        BY DEF SessionInv, SessionTypes
      <4> QED
        BY <1>1, <2>1, <3>1, <4>1, NoneAssumption DEF SessionInv, SessionTypes
    <3> QED
      BY <2>1, <3>1
  <2>2. ASSUME NEW q \in Procs, q # p
        PROVE  Progress!(q)'
    <3>1. Progress!(q)
      BY DEF SessionInv, Progress
    <3> QED
      BY <1>1, <2>1, <2>2, <3>1 DEF IsPaper
  <2> QED
    BY <2>2 DEF Progress
<1>4. ASSUME Serial'
      PROVE  Saved'
  <2>1. Serial
    <3>1. ASSUME NEW q \in Procs, NEW r \in Procs, q # r, "waiting" \notin {pc[q], pc[r]}
          PROVE  q \in met[r] \/ r \in met[q]
      <4>1. "waiting" \notin {pc'[q], pc'[r]}
        BY <1>1, <3>1
      <4>2. q \in met'[r] \/ r \in met'[q]
        BY <1>4, <3>1, <4>1 DEF Serial
      <4>3. met'[q] = met[q] /\ met'[r] = met[r]
        BY <3>1 DEF SessionInv, SessionTypes
      <4> QED
        BY <4>2, <4>3
    <3> QED
      BY <3>1 DEF Serial
  <2>2. Saved /\ Met
    BY <2>1 DEF SessionInv, SessionTypes
  <2>3. ASSUME NEW q \in Procs, q # p, IsPaper(q)
        PROVE  /\ step[q] > 1 \/ pc[q] = "unlock" =>
                    state'[Store(q)] # NONE /\ q \in state'[Store(q)]
               /\ pc[q] \in {"dir", "write", "fill", "save", "replace"} =>
                    base[q] = IF state'[Store(q)] = NONE THEN {} ELSE state'[Store(q)]
    <3>1. CASE state' = state
      BY <2>2, <2>3, <3>1 DEF Saved, Loaded
    <3>2. CASE pc[p] = "replace" /\ state' = [state EXCEPT ![Store(p)] = base[p] \union {p}]
      <4>1. ~Alive(q)
        BY <2>1, <2>2, <2>3, <3>2, OneAtWork DEF Alive, Ended
      <4>2. IsPaper(p) /\ Loaded(p)
        BY <2>2, <3>2 DEF Saved, SessionInv, Progress, SessionPlaces
      <4>3. ASSUME step[q] > 1
            PROVE  state'[Store(q)] # NONE /\ q \in state'[Store(q)]
        <5>1. state[Store(q)] # NONE /\ q \in state[Store(q)]
          BY <2>2, <2>3, <4>3 DEF Saved
        <5>2. CASE Store(q) = Store(p)
          <6>1. base[p] = state[Store(p)] /\ base[p] \in SUBSET Procs
            BY <4>2, <5>1, <5>2 DEF Loaded, SessionInv, SessionTypes
          <6>2. state'[Store(q)] = base[p] \union {p}
            BY <1>1, <3>2, <5>2 DEF SessionInv, SessionTypes
          <6>3. base[p] \union {p} \in SUBSET Procs
            BY <6>1
          <6> QED
            BY <5>1, <5>2, <6>1, <6>2, <6>3, NoneAssumption
        <5>3. CASE Store(q) # Store(p)
          BY <1>1, <3>2, <5>1, <5>3 DEF SessionInv, SessionTypes
        <5> QED
          BY <5>2, <5>3
      <4>4. pc[q] \in Ended \union {"waiting"}
        BY <4>1 DEF Alive
      <4> QED
        BY <4>3, <4>4 DEF Ended
    <3> QED
      BY <3>1, <3>2
  <2>4. ASSUME NEW q \in Procs, q # p
        PROVE  Saved!(q)'
    BY <1>1, <2>3, <2>4 DEF Loaded
  <2> QED
    BY <2>1, <2>2, <2>4 DEF Saved
<1> QED
  BY <1>2, <1>3, <1>4 DEF SessionInv

LEMMA OutputsOf ==
  ASSUME NEW k \in Kinds
  PROVE  /\ Len(Outputs[k]) \in {1, 2} /\ (k = "paper" => Len(Outputs[k]) = 2)
         /\ \A n \in 1 .. Len(Outputs[k]) : Outputs[k][n] = "state" <=> k = "paper" /\ n = 2
BY DEF Kinds, Outputs, ScannerOutputs, MonitoringOutputs, DecisionOutputs, PaperOutputs,
       LiveOutputs, StageOutputs

\* Where a process is after its next artifact.
LEMMA AfterNext ==
  ASSUME BundleInv, Progress, NEW p \in Procs, pc[p] \in {"write", "fill", "unlock"}
  PROVE  LET n == step[p] + 1 IN
         /\ AfterArtifact(p, n) \in {"manifest", "save", "write"}
         /\ AfterArtifact(p, n) = "write" => ~IsPaper(p) /\ n < Len(Outputs[job[p].kind])
         /\ AfterArtifact(p, n) = "save" => IsPaper(p) /\ n = 1
         /\ AfterArtifact(p, n) = "manifest" /\ IsPaper(p) => n = 2
<1>1. job[p].kind \in Kinds /\ step[p] \in Nat
  BY DEF BundleInv, Typed, Jobs
<1>2. step[p] < Len(Outputs[job[p].kind])
  <2>1. CASE pc[p] = "unlock"
    <3>1. IsPaper(p)
      BY <2>1 DEF Progress, SessionPlaces
    <3>2. step[p] = 1 /\ Len(Outputs[job[p].kind]) = 2
      BY <1>1, <2>1, <3>1, OutputsOf DEF Progress, IsPaper
    <3> QED
      BY <3>2
  <2> QED
    BY <2>1 DEF Progress
<1>3. DEFINE k == job[p].kind
             n == step[p] + 1
<1>4. /\ Len(Outputs[k]) \in {1, 2} /\ (k = "paper" => Len(Outputs[k]) = 2)
      /\ n \in 1 .. Len(Outputs[k])
  BY <1>1, <1>2, OutputsOf
<1>5. n # Len(Outputs[k]) => (Outputs[k][n + 1] = "state" <=> k = "paper" /\ n + 1 = 2)
  <2>1. n # Len(Outputs[k]) => n + 1 \in 1 .. Len(Outputs[k])
    BY <1>4
  <2> QED
    BY <1>1, <2>1, OutputsOf
<1>6. /\ AfterArtifact(p, n) = IF n = Len(Outputs[k]) THEN "manifest"
                               ELSE IF Outputs[k][n + 1] = "state" THEN "save" ELSE "write"
      /\ IsPaper(p) <=> k = "paper"
  BY DEF AfterArtifact, IsPaper
<1>7. /\ AfterArtifact(p, n) \in {"manifest", "save", "write"}
      /\ AfterArtifact(p, n) = "write" => ~IsPaper(p) /\ n < Len(Outputs[k])
      /\ AfterArtifact(p, n) = "save" => IsPaper(p) /\ n = 1
      /\ AfterArtifact(p, n) = "manifest" /\ IsPaper(p) => n = 2
  <2>1. n \in Nat /\ (n = Len(Outputs[k]) \/ (n = 1 /\ Len(Outputs[k]) = 2))
    <3>1. \A L \in {1, 2} : \A m \in 1 .. L : m \in Nat /\ (m = L \/ (m = 1 /\ L = 2))
      OBVIOUS
    <3> HIDE DEF k, n
    <3> QED
      BY <1>4, <3>1
  <2> HIDE DEF k, n
  <2>2. CASE n = Len(Outputs[k])
    <3>1. AfterArtifact(p, n) = "manifest"
      BY <1>6, <2>2
    <3>2. IsPaper(p) => n = 2
      BY <1>4, <1>6, <2>2
    <3> QED
      BY <3>1, <3>2
  <2>3. CASE n # Len(Outputs[k])
    <3>1. n = 1 /\ Len(Outputs[k]) = 2
      BY <2>1, <2>3
    <3>2. AfterArtifact(p, n) = IF IsPaper(p) THEN "save" ELSE "write"
      <4>1. Outputs[k][n + 1] = "state" <=> k = "paper"
        BY <1>5, <2>3, <3>1
      <4> QED
        BY <1>6, <2>3, <4>1
    <3> QED
      BY <3>1, <3>2
  <2> QED
    BY <2>2, <2>3
<1> QED
  BY <1>7

\* A process that comes to its end, or past its bundle, has saved or has nothing
\* to show.
LEMMA EndKeeps ==
  ASSUME SessionInv, BundleInv', NEW p \in Procs, pc[p] \notin Ended \union {"unlock"},
         UNCHANGED <<job, step, base, met, state>>,
         NEW there \in Ended \union {"manifest", "publish", "validate", "next"},
         Goto(p, there)
  PROVE  SessionInv'
<1>1. pc'[p] = there
  BY DEF SessionInv, BundleInv, Typed, Goto
<1>2. SessionMove(p)
  BY DEF SessionMove, Places, Ended, SessionInv, SessionTypes
<1>3. Progress!(p)'
  BY <1>1 DEF Ended, SessionPlaces
<1>4. ASSUME Saved
      PROVE  Saved!(p)'
  BY <1>1, <1>4 DEF Saved, Ended, IsPaper, Store
<1> QED
  BY <1>2, <1>3, <1>4, MoveKeeps

\* A session begins; whoever is not one meets nobody.
LEMMA StartKeeps ==
  ASSUME SessionInv, BundleInv', NEW p \in Procs, Start(p)
  PROVE  SessionInv'
<1>1. /\ pc[p] = "waiting" /\ UNCHANGED <<job, step, base, state>>
      /\ \E S \in SUBSET {q \in Procs : pc[q] \in Ended} : met' = [met EXCEPT ![p] = S]
      /\ \E there \in {"done", "input", "load", "dir"} :
           /\ Goto(p, there)
           /\ there = "input" => job[p].kind \in Chained
           /\ there = "load" => IsPaper(p)
           /\ there = "dir" => ~IsPaper(p)
  <2>1. /\ pc[p] = "waiting" /\ UNCHANGED <<job, step, base, state>>
        /\ \E S \in SUBSET {q \in Procs : pc[q] \in Ended} : met' = [met EXCEPT ![p] = S]
    BY DEF Start, disk
  <2>2. Goto(p, "done") \/ Goto(p, CASE job[p].kind \in Chained -> "input"
                                     [] job[p].kind = "paper" -> "load"
                                     [] OTHER -> "dir")
    BY DEF Start, Exit
  <2>3. "paper" \notin Chained
    BY DEF Chained, Before
  <2> QED
    BY <2>1, <2>2, <2>3 DEF IsPaper
<1>2. PICK there \in {"done", "input", "load", "dir"} :
        /\ Goto(p, there)
        /\ there = "input" => job[p].kind \in Chained
        /\ there = "load" => IsPaper(p)
        /\ there = "dir" => ~IsPaper(p)
  BY <1>1
<1>3. pc'[p] = there /\ step'[p] = step[p] /\ job'[p] = job[p] /\ base'[p] = base[p]
  BY <1>1, <1>2 DEF SessionInv, BundleInv, Typed, Goto
<1>4. SessionMove(p)
  BY <1>1, <1>2 DEF SessionMove, Places, Ended, SessionInv, SessionTypes
<1>5. Progress!(p)'
  <2>1. IsPaper(p) => step[p] = 0 /\ base[p] = {}
    BY <1>1 DEF SessionInv, Progress
  <2>2. there = "input" => ~IsPaper(p)
    BY <1>2 DEF Chained, Before, IsPaper
  <2> QED
    BY <1>2, <1>3, <2>1, <2>2 DEF IsPaper, SessionPlaces
<1>6. Saved!(p)'
  <2>1. IsPaper(p) => step[p] = 0
    BY <1>1 DEF SessionInv, Progress
  <2> QED
    BY <1>2, <1>3, <2>1 DEF IsPaper
<1> QED
  BY <1>4, <1>5, <1>6, MoveKeeps

\* The steps of anyone: input, directory, artifacts, bundle.
LEMMA RunnerKeeps ==
  ASSUME SessionInv, BundleInv', NEW p \in Procs,
         ResolveInput(p) \/ MakeDir(p) \/ Write(p) \/ Bundle(p)
  PROVE  SessionInv'
<1>1. CASE ResolveInput(p)
  <2>1. /\ pc[p] = "input" /\ UNCHANGED <<job, step, base, met, state>>
        /\ Goto(p, "done") \/ Goto(p, "dir")
    BY <1>1 DEF ResolveInput, Exit, disk
  <2>2. CASE Goto(p, "done")
    BY <2>1, <2>2, EndKeeps DEF Ended
  <2>3. CASE Goto(p, "dir")
    <3>1. pc'[p] = "dir" /\ ~IsPaper(p) /\ ~IsPaper(p)'
      BY <2>1, <2>3 DEF SessionInv, BundleInv, Typed, Goto, Progress, IsPaper
    <3>2. SessionMove(p)
      BY <2>1, <2>3 DEF SessionMove, Places, Ended, SessionInv, SessionTypes
    <3>3. Progress!(p)' /\ Saved!(p)'
      BY <3>1 DEF SessionPlaces
    <3> QED
      BY <3>2, <3>3, MoveKeeps
  <2> QED
    BY <2>1, <2>2, <2>3
<1>2. CASE MakeDir(p)
  <2>1. /\ pc[p] = "dir" /\ Goto(p, "write") /\ step' = [step EXCEPT ![p] = 0]
        /\ UNCHANGED <<job, base, met, state>>
    BY <1>2 DEF MakeDir
  <2>2. pc'[p] = "write" /\ step'[p] = 0 /\ job'[p] = job[p]
    BY <2>1 DEF SessionInv, BundleInv, Typed, Goto
  <2>3. SessionMove(p)
    BY <2>1 DEF SessionMove, Places, Ended, SessionInv, SessionTypes, BundleInv, Typed
  <2>4. Progress!(p)'
    <3>1. job[p].kind \in Kinds
      BY DEF SessionInv, BundleInv, Typed, Jobs
    <3>2. 0 < Len(Outputs[job[p].kind])
      BY <3>1, OutputsOf
    <3> QED
      BY <2>2, <3>2 DEF SessionPlaces
  <2>5. ASSUME Saved
        PROVE  Saved!(p)'
    BY <2>1, <2>2, <2>5 DEF Saved, IsPaper, Store, Loaded
  <2> QED
    BY <2>3, <2>4, <2>5, MoveKeeps
<1>3. CASE OpenArtifact(p)
  <2>1. /\ pc[p] = "write" /\ Goto(p, "fill")
        /\ UNCHANGED <<job, step, base, met, state>>
    BY <1>3 DEF OpenArtifact
  <2>2. pc'[p] = "fill" /\ step'[p] = step[p] /\ job'[p] = job[p]
    BY <2>1 DEF SessionInv, BundleInv, Typed, Goto
  <2>3. SessionMove(p)
    BY <2>1 DEF SessionMove, Places, Ended, SessionInv, SessionTypes
  <2>4. Progress!(p)'
    BY <2>1, <2>2 DEF SessionPlaces, SessionInv, Progress, IsPaper
  <2>5. ASSUME Saved
        PROVE  Saved!(p)'
    BY <2>1, <2>2, <2>5 DEF Saved, IsPaper, Store, Loaded
  <2> QED
    BY <2>3, <2>4, <2>5, MoveKeeps
<1>4. CASE WriteArtifact(p)
  <2> DEFINE there == AfterArtifact(p, step[p] + 1)
  <2>1. /\ pc[p] \in {"write", "fill"} /\ Goto(p, there)
        /\ step' = [step EXCEPT ![p] = @ + 1]
        /\ UNCHANGED <<job, base, met, state>>
    BY <1>4 DEF WriteArtifact
  <2>2. /\ there \in {"manifest", "save", "write"}
        /\ there = "write" => ~IsPaper(p) /\ step[p] + 1 < Len(Outputs[job[p].kind])
        /\ there = "save" => IsPaper(p) /\ step[p] + 1 = 1
    BY <2>1, AfterNext DEF SessionInv
  <2> HIDE DEF there
  <2>3. pc'[p] = there /\ step'[p] = step[p] + 1 /\ job'[p] = job[p] /\ step[p] \in Nat
    BY <2>1 DEF SessionInv, BundleInv, Typed, Goto
  <2>4. SessionMove(p)
    <3>1. \A q \in Procs : q # p => step'[q] = step[q]
      BY <2>1 DEF SessionInv, BundleInv, Typed
    <3> QED
      BY <2>1, <2>2, <3>1 DEF SessionMove, Places, Ended, SessionInv, SessionTypes
  <2>5. IsPaper(p) => step[p] = 0 /\ there # "write"
    BY <2>1, <2>2 DEF SessionInv, Progress
  <2>6. Progress!(p)'
    BY <2>2, <2>3, <2>5 DEF SessionPlaces, IsPaper
  <2>7. ASSUME Saved
        PROVE  Saved!(p)'
    <3>1. IsPaper(p) => Loaded(p) /\ step'[p] = 1
      BY <2>1, <2>3, <2>5, <2>7 DEF Saved
    <3> QED
      BY <2>1, <2>2, <2>3, <3>1 DEF IsPaper, Store, Loaded
  <2> QED
    BY <2>4, <2>6, <2>7, MoveKeeps
<1>5. CASE Fails(p) \/ NoExport(p) \/ OpenManifest(p) \/ Publish(p) \/ Validate(p)
  <2>1. /\ pc[p] \in {"write", "fill", "manifest", "publish", "validate"}
        /\ UNCHANGED <<job, step, base, met, state>>
        /\ \E there \in {"done", "next", "publish", "validate"} : Goto(p, there)
    BY <1>5 DEF Fails, NoExport, OpenManifest, Publish, Validate, Exit, disk
  <2> QED
    BY <2>1, EndKeeps DEF Ended
<1>6. CASE NextCycle(p)
  <2>1. /\ pc[p] = "next" /\ UNCHANGED <<job, step, base, met, state>>
        /\ Goto(p, "done") \/ (cycle[p] < job[p].cycles /\ Goto(p, "dir"))
    BY <1>6 DEF NextCycle, Exit, disk
  <2>2. CASE Goto(p, "done")
    BY <2>1, <2>2, EndKeeps DEF Ended
  <2>3. CASE cycle[p] < job[p].cycles /\ Goto(p, "dir")
    <3>1. job[p] \in Jobs /\ cycle[p] \in Nat \ {0}
      BY DEF SessionInv, BundleInv, Typed
    <3>2. ~IsPaper(p)
      BY <2>3, <3>1 DEF Jobs, IsPaper
    <3>3. pc'[p] = "dir" /\ ~IsPaper(p)'
      BY <2>1, <2>3, <3>2 DEF SessionInv, BundleInv, Typed, Goto, IsPaper
    <3>4. SessionMove(p)
      BY <2>1, <2>3 DEF SessionMove, Places, Ended, SessionInv, SessionTypes
    <3>5. Progress!(p)' /\ Saved!(p)'
      BY <3>3 DEF SessionPlaces
    <3> QED
      BY <3>4, <3>5, MoveKeeps
  <2> QED
    BY <2>1, <2>2, <2>3
<1> QED
  BY <1>1, <1>2, <1>3, <1>4, <1>5, <1>6 DEF Write, Bundle

\* The steps of a paper session about its state.
LEMMA SessionKeeps ==
  ASSUME SessionInv, BundleInv', NEW p \in Procs, Session(p) \/ AcquireFails(p)
  PROVE  SessionInv'
<1>1. pc \in [Procs -> Places] /\ step \in [Procs -> Nat] /\ IsPaper(p)
  BY DEF SessionInv, BundleInv, Typed, Session, Load, Acquire, TimeOut, ReadState, ReplaceState,
         SaveFails, Unlock, AcquireFails, Progress, SessionPlaces
<1>2. Store(p) \in StateDirs /\ state[Store(p)] \in (SUBSET Procs) \union {NONE}
  BY StoreType DEF SessionInv, SessionTypes, BundleInv, Typed
<1>3. CASE Load(p)
  <2>1. /\ pc[p] = "load" /\ UNCHANGED <<job, step, base, met, state>>
        /\ Goto(p, IF state[Store(p)] = NONE THEN "dir" ELSE "lockload")
    BY <1>3 DEF Load, disk
  <2>2. /\ pc'[p] = IF state[Store(p)] = NONE THEN "dir" ELSE "lockload"
        /\ step[p] = 0 /\ base[p] = {}
    BY <1>1, <2>1 DEF Goto, SessionInv, Progress
  <2>3. SessionMove(p)
    BY <2>1 DEF SessionMove, Places, Ended, SessionInv, SessionTypes
  <2>4. Progress!(p)'
    BY <1>1, <2>1, <2>2 DEF SessionPlaces, IsPaper, Store
  <2>5. Saved!(p)'
    BY <2>1, <2>2 DEF IsPaper, Store, Loaded
  <2> QED
    BY <2>3, <2>4, <2>5, MoveKeeps
<1>4. CASE Acquire(p)
  <2>1. /\ UNCHANGED <<job, step, base, met, state>>
        /\ \/ pc[p] = "save" /\ Goto(p, "replace")
           \/ pc[p] = "lockload" /\ Goto(p, "read")
    BY <1>4 DEF Acquire
  <2>2. \/ pc[p] = "save" /\ pc'[p] = "replace"
        \/ pc[p] = "lockload" /\ pc'[p] = "read"
    BY <1>1, <2>1 DEF Goto
  <2>3. SessionMove(p)
    BY <2>1 DEF SessionMove, Places, Ended, SessionInv, SessionTypes
  <2>4. Progress!(p)'
    BY <1>1, <2>1, <2>2 DEF SessionPlaces, IsPaper, Store, SessionInv, Progress
  <2>5. ASSUME Saved
        PROVE  Saved!(p)'
    BY <2>1, <2>2, <2>5 DEF Saved, IsPaper, Store, Loaded
  <2> QED
    BY <2>3, <2>4, <2>5, MoveKeeps
<1>5. CASE TimeOut(p) \/ AcquireFails(p) \/ SaveFails(p)
  <2>1. /\ pc[p] \in {"lockload", "save", "replace"} /\ Goto(p, "done")
        /\ UNCHANGED <<job, step, base, met, state>>
    BY <1>5 DEF TimeOut, AcquireFails, SaveFails, Exit, disk
  <2> QED
    BY <2>1, EndKeeps DEF Ended
<1>6. CASE ReadState(p)
  <2>1. /\ pc[p] = "read" /\ base' = [base EXCEPT ![p] = state[Store(p)]]
        /\ Goto(p, "dir") /\ UNCHANGED <<job, step, met, state>>
    BY <1>6 DEF ReadState
  <2>2. pc'[p] = "dir" /\ step[p] = 0 /\ state[Store(p)] # NONE
    BY <1>1, <2>1 DEF Goto, SessionInv, Progress
  <2>3. /\ base' \in [Procs -> SUBSET Procs] /\ base'[p] = state[Store(p)]
        /\ \A q \in Procs : q # p => base'[q] = base[q]
    BY <1>2, <2>1, <2>2 DEF SessionInv, SessionTypes
  <2>4. SessionMove(p)
    BY <2>1, <2>3 DEF SessionMove, Places, Ended
  <2>5. Progress!(p)' /\ Saved!(p)'
    BY <1>1, <2>1, <2>2, <2>3 DEF SessionPlaces, IsPaper, Store, Loaded
  <2> QED
    BY <2>4, <2>5, MoveKeeps
<1>7. CASE ReplaceState(p)
  <2>1. /\ pc[p] = "replace" /\ state' = [state EXCEPT ![Store(p)] = base[p] \union {p}]
        /\ Goto(p, "unlock") /\ UNCHANGED <<job, step, base, met>>
    BY <1>7 DEF ReplaceState
  <2>2. pc'[p] = "unlock" /\ step[p] = 1 /\ Store(p)' = Store(p)
    BY <1>1, <2>1 DEF Goto, SessionInv, Progress, Store
  <2>3. state'[Store(p)] = base[p] \union {p} /\ base[p] \union {p} \in SUBSET Procs
    BY <1>2, <2>1 DEF SessionInv, SessionTypes
  <2>4. SessionMove(p)
    BY <2>1 DEF SessionMove, Places, Ended, SessionInv, SessionTypes
  <2>5. Progress!(p)'
    BY <1>1, <2>1, <2>2 DEF SessionPlaces, IsPaper
  <2>6. Saved!(p)'
    BY <2>2, <2>3, NoneAssumption
  <2> QED
    BY <2>4, <2>5, <2>6, MoveKeeps
<1>8. CASE Unlock(p)
  <2> DEFINE there == AfterArtifact(p, step[p] + 1)
  <2>1. /\ pc[p] = "unlock" /\ Goto(p, there) /\ step' = [step EXCEPT ![p] = @ + 1]
        /\ UNCHANGED <<job, base, met, state>>
    BY <1>8 DEF Unlock
  <2>2. there = "manifest" /\ step[p] = 1
    <3>1. step[p] = 1
      BY <1>1, <2>1 DEF SessionInv, Progress
    <3>2. /\ there \in {"manifest", "save", "write"}
          /\ there = "write" => ~IsPaper(p)
          /\ there = "save" => step[p] + 1 = 1
      BY <2>1, AfterNext DEF SessionInv
    <3> QED
      BY <1>1, <3>1, <3>2
  <2> HIDE DEF there
  <2>3. pc'[p] = "manifest" /\ step'[p] = 2 /\ Store(p)' = Store(p)
    BY <1>1, <2>1, <2>2 DEF Goto, Store
  <2>4. SessionMove(p)
    <3>1. \A q \in Procs : q # p => step'[q] = step[q]
      BY <1>1, <2>1
    <3> QED
      BY <2>1, <2>2, <3>1 DEF SessionMove, Places, Ended, SessionInv, SessionTypes
  <2>5. Progress!(p)'
    BY <2>3 DEF SessionPlaces
  <2>6. ASSUME Saved
        PROVE  Saved!(p)'
    BY <1>1, <2>1, <2>3, <2>6 DEF Saved
  <2> QED
    BY <2>4, <2>5, <2>6, MoveKeeps
<1> QED
  BY <1>3, <1>4, <1>5, <1>6, <1>7, <1>8 DEF Session

LEMMA SessionNext == SessionInv /\ [Next]_vars => SessionInv'
<1> SUFFICES ASSUME SessionInv, [Next]_vars PROVE SessionInv'
  OBVIOUS
<1>1. BundleInv'
  BY BundleNext DEF SessionInv
<1>2. CASE Tick \/ UNCHANGED vars \/ \E p \in Procs : Judge(p)
  <2>1. UNCHANGED <<job, pc, step, base, met, state>>
    BY <1>2 DEF Tick, Judge, vars, local, disk
  <2> QED
    BY <1>1, <2>1 DEF SessionInv, SessionTypes, Met, Progress, Saved, Loaded, Store, IsPaper, Serial
<1>3. ASSUME NEW p \in Procs, Start(p) PROVE SessionInv'
  BY <1>1, <1>3, StartKeeps
<1>4. ASSUME NEW p \in Procs, Step(p) \/ AcquireFails(p) PROVE SessionInv'
  BY <1>1, <1>4, RunnerKeeps, SessionKeeps DEF Step
<1>5. ASSUME NEW p \in Procs, Crash(p) PROVE SessionInv'
  <2>1. /\ pc[p] \notin Ended /\ Goto(p, "dead") /\ UNCHANGED <<job, step, base, met, state>>
    BY <1>5 DEF Crash, Alive, disk
  <2>2. CASE pc[p] # "unlock"
    BY <1>1, <2>1, <2>2, EndKeeps DEF Ended
  <2>3. CASE pc[p] = "unlock"
    <3>1. SessionMove(p)
      BY <2>1 DEF SessionMove, Places, Ended, SessionInv, SessionTypes
    <3>2. pc'[p] = "dead" /\ Store(p)' = Store(p) /\ IsPaper(p)' = IsPaper(p)
      BY <2>1 DEF SessionInv, BundleInv, Typed, Goto, Store, IsPaper
    <3>3. Progress!(p)'
      BY <3>2 DEF SessionPlaces
    <3>4. ASSUME Saved
          PROVE  Saved!(p)'
      BY <2>1, <3>2, <3>4 DEF Saved
    <3> QED
      BY <1>1, <3>1, <3>3, <3>4, MoveKeeps
  <2> QED
    BY <2>2, <2>3
<1> QED
  BY <1>2, <1>3, <1>4, <1>5 DEF Next

\* Sessions that do not overlap lose nothing, however many there are, whatever else
\* runs, dies or fails to get the lock around them.
THEOREM SerialSafety == Spec => []SerialSessionsAccumulate
<1>1. SessionInv => SerialSessionsAccumulate
  BY DEF SessionInv, Saved, SerialSessionsAccumulate, IsPaper
<1> QED
  BY <1>1, SessionInit, SessionNext, PTL DEF Spec
=============================================================================
