-------------------------- MODULE Providers_proofs --------------------------
(* What the router answers from its cache, what the factory builds and what
   becomes of a stored credential, for any number of requests, credentials,
   restarts and expiries.  Then the cache file of the instruments and what
   processes read of it, for any number of processes, exchanges and lists.
   Last the data of a poll, for any range, size of its pieces, number of
   retries and list of symbols.                                             *)
EXTENDS Providers, InstrumentMaster, MarketData, FiniteSetTheorems, SequenceTheorems,
        WellFoundedInduction, TLAPS

Fields(q) ==
  [pc |-> q.pc, op |-> q.op, todo |-> q.todo, read |-> q.read, secrets |-> q.secrets,
   late |-> q.late, frozen |-> q.frozen, complete |-> q.complete, own |-> q.own,
   session |-> q.session, report |-> q.report, judged |-> q.judged, source |-> q.source]

Shape == /\ req = [r \in Requests |-> Fields(req[r])]
         /\ \A r \in Requests : req[r].late \in BOOLEAN

\* The secrets a request has sent to the broker are those of now, or it knows better.
AskedOfNow == \A r \in Requests : At(r, "broker") => req[r].late \/ req[r].secrets = env

\* The same of the cache, between updates.
Remembered ==
  cache # NONE => /\ cache = [session |-> cache.session, secrets |-> cache.secrets,
                              late |-> cache.late]
                  /\ cache.late \in BOOLEAN
                  /\ Settled => cache.late \/ cache.secrets = env

IInv == Shape /\ AskedOfNow /\ Remembered /\ SourceHasItsSecrets

LEMMA InitHolds == Init => IInv
<1> SUFFICES ASSUME Init
             PROVE  IInv
  OBVIOUS
<1>1. /\ req = [r \in Requests |-> NewRequest(setting.ops[r])]
      /\ cache = NONE
  BY DEF Init
<1>2. \A r \in Requests : /\ req[r] = Fields(req[r])
                          /\ req[r].late = FALSE /\ req[r].pc = "new" /\ req[r].source = NONE
  BY <1>1 DEF NewRequest, Fields
<1>3. Shape
  BY <1>1, <1>2 DEF Shape
<1> QED
  BY <1>1, <1>2, <1>3 DEF IInv, AskedOfNow, Remembered, SourceHasItsSecrets, At

\* A step of one request that neither asks the broker, nor ends an update, nor builds.
QuietAt(r, q) ==
  /\ req' = [req EXCEPT ![r] = q]
  /\ q = Fields(q) /\ q.late \in BOOLEAN
  /\ q.pc # "broker"
  /\ req[r].pc \notin {"read", "truncate", "write", "pop"} \/ q.pc \in {"truncate", "write", "pop"}
  /\ q.source = req[r].source
  /\ UNCHANGED <<setting, env, cache>>

LEMMA QuietStep ==
  ASSUME IInv, NEW r \in Requests, NEW q, QuietAt(r, q)
  PROVE  IInv'
<1> USE DEF IInv, QuietAt
<1>1. /\ \A o \in Requests \ {r} : req'[o] = req[o]
      /\ req'[r] = q
  BY DEF Shape
<1>2. Shape'
  <2>1. DOMAIN req' = Requests /\ req' = [o \in Requests |-> req'[o]]
    BY DEF Shape
  <2>2. \A o \in Requests : req[o] = Fields(req[o])
    BY DEF Shape
  <2>3. \A o \in Requests : req'[o] = Fields(req'[o])
    <3> HIDE DEF Fields
    <3> QED
      BY <1>1, <2>2
  <2>4. req' = [o \in Requests |-> Fields(req'[o])]
    <3> HIDE DEF Fields
    <3> QED
      BY <2>1, <2>3
  <2>5. \A o \in Requests : req'[o].late \in BOOLEAN
    BY <1>1 DEF Shape
  <2> QED
    BY <2>4, <2>5 DEF Shape
<1>3. AskedOfNow'
  BY <1>1 DEF AskedOfNow, At
<1>4. Settled' => Settled
  BY <1>1 DEF Settled, Storing, At
<1>5. Remembered'
  BY <1>4 DEF Remembered
<1>6. SourceHasItsSecrets'
  BY <1>1 DEF SourceHasItsSecrets, Present
<1> QED BY <1>2, <1>3, <1>5, <1>6

\* A step that disturbs no request it does not end, and may change the rest.
LEMMA StutterStep ==
  ASSUME IInv, UNCHANGED <<setting, env, cache, req>>
  PROVE  IInv'
BY DEF IInv, Shape, AskedOfNow, Remembered, SourceHasItsSecrets, Settled, Storing, At, Present, Fields

\* After a request moved to another point, with nothing else of it changed.
Moves(r, q) ==
  /\ req' = [req EXCEPT ![r] = q]
  /\ q = Fields(q) /\ q.late \in BOOLEAN /\ q.pc # "broker"
  /\ q.source = req[r].source

LEMMA MovesKeep ==
  ASSUME IInv, NEW r \in Requests, NEW q, Moves(r, q), UNCHANGED <<setting, env>>
  PROVE  Shape' /\ AskedOfNow' /\ SourceHasItsSecrets'
<1> USE DEF IInv, Moves
<1>1. /\ \A o \in Requests \ {r} : req'[o] = req[o]
      /\ req'[r] = q
  BY DEF Shape
<1>2. Shape'
  <2>1. DOMAIN req' = Requests /\ req' = [o \in Requests |-> req'[o]]
    BY DEF Shape
  <2>2. \A o \in Requests : req[o] = Fields(req[o])
    BY DEF Shape
  <2>3. \A o \in Requests : req'[o] = Fields(req'[o])
    <3> HIDE DEF Fields
    <3> QED
      BY <1>1, <2>2
  <2>4. req' = [o \in Requests |-> Fields(req'[o])]
    <3> HIDE DEF Fields
    <3> QED
      BY <2>1, <2>3
  <2>5. \A o \in Requests : req'[o].late \in BOOLEAN
    BY <1>1 DEF Shape
  <2> QED
    BY <2>4, <2>5 DEF Shape
<1>3. AskedOfNow'
  BY <1>1 DEF AskedOfNow, At
<1>4. SourceHasItsSecrets'
  BY <1>1 DEF SourceHasItsSecrets, Present
<1> QED BY <1>2, <1>3, <1>4

LEMMA StoreEnvHolds ==
  ASSUME IInv, NEW r \in Requests, StoreEnv(r)
  PROVE  IInv'
<1> DEFINE item == Head(req[r].todo)
           next == [o \in Requests |->
                     IF o = r THEN [req[r] EXCEPT !.pc = "read"]
                     ELSE [req[o] EXCEPT !.late = @ \/ req[o].pc = "broker"]]
           old == req[r]
<1>1. /\ req = [o \in Requests |-> Fields(req[o])]
      /\ \A o \in Requests : req[o].late \in BOOLEAN
      /\ req[r].pc = "store"
      /\ UNCHANGED <<setting, cache>>
  BY DEF IInv, Shape, StoreEnv, At
<1>a. old = Fields(old) /\ old.late \in BOOLEAN /\ old.pc = "store"
  BY <1>1
<1>2. CASE /\ req[r].todo = <<>>
           /\ Goto(r, AfterStores(r)) /\ UNCHANGED env
  <2> DEFINE q == [old EXCEPT !.pc = AfterStores(r)]
  <2>1. req' = [req EXCEPT ![r] = q]
    BY <1>2 DEF Goto
  <2>2. AfterStores(r) \in {"status", "check"}
    BY DEF AfterStores
  <2>3. q = Fields(q) /\ q.late \in BOOLEAN /\ q.pc \in {"status", "check"} /\ q.source = old.source
    <3> HIDE DEF old
    <3> QED BY <1>a, <2>2 DEF Fields
  <2>4. QuietAt(r, q)
    BY <1>1, <1>2, <2>1, <2>3 DEF QuietAt
  <2> QED BY <2>4, QuietStep
<1>3. CASE /\ req' = [req EXCEPT ![r].todo = Tail(@),
                                 ![r].pc = IF req[r].op.kind = "configure" THEN "done" ELSE @]
           /\ UNCHANGED env
  <2> DEFINE point == IF req[r].op.kind = "configure" THEN "done" ELSE old.pc
             q == [old EXCEPT !.pc = point, !.todo = Tail(old.todo)]
  <2>1. req' = [req EXCEPT ![r] = q]
    BY <1>3
  <2>2. point \in {"done", "store"}
    BY <1>a
  <2>3. q = Fields(q) /\ q.late \in BOOLEAN /\ q.pc \in {"done", "store"} /\ q.source = old.source
    <3> DEFINE rest == Tail(old.todo)
    <3>1. q = [old EXCEPT !.pc = point, !.todo = rest]
      OBVIOUS
    <3> HIDE DEF old, point, q, rest
    <3>2. q = Fields(q) /\ q.pc = point /\ q.late = old.late /\ q.source = old.source
      BY <1>a, <3>1 DEF Fields
    <3> QED BY <1>a, <2>2, <3>2
  <2>4. QuietAt(r, q)
    BY <1>1, <1>3, <2>1, <2>3 DEF QuietAt
  <2> QED BY <2>4, QuietStep
<1>4. CASE req' = next
  <2>1. ASSUME NEW o \in Requests
        PROVE  /\ req'[o] = Fields(req'[o]) /\ req'[o].late \in BOOLEAN
               /\ req'[o].source = req[o].source
               /\ At(o, "broker")' => req'[o].late
    <3> DEFINE was == req[o]
               is == req'[o]
               late == was.late \/ was.pc = "broker"
    <3>1. was = Fields(was) /\ was.late \in BOOLEAN
      BY <1>1
    <3>2. CASE o = r
      <4>1. is = [was EXCEPT !.pc = "read"]
        BY <1>4, <3>2
      <4> HIDE DEF was, is
      <4>2. is = Fields(is) /\ is.pc = "read" /\ is.late = was.late /\ is.source = was.source
        BY <3>1, <4>1 DEF Fields
      <4> QED BY <3>1, <4>2 DEF was, is, At
    <3>3. CASE o # r
      <4>1. is = [was EXCEPT !.late = late]
        BY <1>4, <3>3
      <4> HIDE DEF was, is, late
      <4>2. is = Fields(is) /\ is.pc = was.pc /\ is.late = late /\ is.source = was.source
        BY <3>1, <4>1 DEF Fields
      <4>3. late \in BOOLEAN /\ (was.pc = "broker" => late)
        BY <3>1 DEF late
      <4> QED BY <4>2, <4>3 DEF was, is, At
    <3> QED BY <3>2, <3>3
  <2>2. Shape' /\ AskedOfNow'
    BY <1>4, <2>1 DEF Shape, AskedOfNow
  <2>3. ~Settled'
    BY <1>1, <1>4 DEF Settled, Storing, At, Fields
  <2>4. Remembered'
    BY <1>1, <2>3 DEF IInv, Remembered
  <2>5. SourceHasItsSecrets'
    BY <1>1, <2>1 DEF IInv, SourceHasItsSecrets, Present
  <2> QED BY <2>2, <2>4, <2>5 DEF IInv
<1> QED BY <1>2, <1>3, <1>4 DEF StoreEnv

LEMMA FileFailsHolds ==
  ASSUME IInv, NEW r \in Requests, FileFails(r)
  PROVE  IInv'
<1> DEFINE old == req[r]
           q == [old EXCEPT !.pc = "done"]
<1>1. /\ old = Fields(old) /\ old.late \in BOOLEAN
      /\ req' = [req EXCEPT ![r] = q]
      /\ cache' = IF cache = NONE THEN NONE ELSE [cache EXCEPT !.late = TRUE]
      /\ UNCHANGED <<setting, env>>
  BY DEF IInv, Shape, FileFails, Goto
<1>2. q = Fields(q) /\ q.late \in BOOLEAN /\ q.pc = "done" /\ q.source = old.source
  <2> HIDE DEF old
  <2> QED BY <1>1 DEF Fields
<1>3. Shape' /\ AskedOfNow' /\ SourceHasItsSecrets'
  BY <1>1, <1>2, MovesKeep DEF Moves
<1>4. Remembered'
  BY <1>1 DEF Remembered, IInv
<1> QED BY <1>3, <1>4 DEF IInv

LEMMA PopCacheHolds ==
  ASSUME IInv, NEW r \in Requests, PopCache(r)
  PROVE  IInv'
<1> DEFINE old == req[r]
           q == [old EXCEPT !.pc = "store", !.todo = Tail(old.todo)]
<1>1. /\ old = Fields(old) /\ old.late \in BOOLEAN
      /\ req' = [req EXCEPT ![r] = q]
      /\ cache' = NONE
      /\ UNCHANGED <<setting, env>>
  BY DEF IInv, Shape, PopCache
<1>2. q = Fields(q) /\ q.late \in BOOLEAN /\ q.pc = "store" /\ q.source = old.source
  <2> DEFINE rest == Tail(old.todo)
  <2>1. q = [old EXCEPT !.pc = "store", !.todo = rest]
    OBVIOUS
  <2> HIDE DEF old, q, rest
  <2>2. q = Fields(q) /\ q.pc = "store" /\ q.late = old.late /\ q.source = old.source
    BY <1>1, <2>1 DEF Fields
  <2> QED BY <1>1, <2>2
<1>3. Shape' /\ AskedOfNow' /\ SourceHasItsSecrets'
  BY <1>1, <1>2, MovesKeep DEF Moves
<1>4. Remembered'
  BY <1>1 DEF Remembered
<1> QED BY <1>3, <1>4 DEF IInv

LEMMA ReadSecretsHolds ==
  ASSUME IInv, NEW r \in Requests, ReadSecrets(r)
  PROVE  IInv'
<1> DEFINE old == req[r]
           q == [old EXCEPT !.pc = "broker", !.secrets = env, !.late = FALSE]
<1>1. /\ old = Fields(old) /\ old.pc = "snapshot"
      /\ req' = [req EXCEPT ![r] = q]
      /\ req = [o \in Requests |-> Fields(req[o])]
      /\ \A o \in Requests : req[o].late \in BOOLEAN
      /\ old.source = req[r].source
      /\ UNCHANGED <<setting, env, cache>>
  BY DEF IInv, Shape, ReadSecrets, At
<1>2. q = Fields(q) /\ q.late = FALSE /\ q.pc = "broker" /\ q.source = old.source /\ q.secrets = env
  <2>1. q = [old EXCEPT !.pc = "broker", !.secrets = env, !.late = FALSE]
    OBVIOUS
  <2> HIDE DEF old, q
  <2> QED BY <1>1, <2>1 DEF Fields
<1>3. /\ \A o \in Requests \ {r} : req'[o] = req[o]
      /\ req'[r] = q
  BY <1>1
<1>4. Shape'
  <2> HIDE DEF old, q
  <2>1. \A o \in Requests : req'[o] = Fields(req'[o]) /\ req'[o].late \in BOOLEAN
    BY <1>1, <1>2, <1>3
  <2>2. req' = [o \in Requests |-> req'[o]]
    BY <1>1
  <2> QED BY <2>1, <2>2 DEF Shape
<1>5. AskedOfNow'
  BY <1>1, <1>2, <1>3 DEF AskedOfNow, At, IInv
<1>6. Settled' => Settled
  BY <1>1, <1>3 DEF Settled, Storing, At
<1>7. Remembered'
  BY <1>1, <1>6 DEF Remembered, IInv
<1>8. SourceHasItsSecrets'
  BY <1>1, <1>2, <1>3 DEF SourceHasItsSecrets, Present, IInv
<1> QED BY <1>4, <1>5, <1>7, <1>8 DEF IInv

\* The broker's answer goes to the cache with what the request knows of it.
LEMMA ValidatedHolds ==
  ASSUME IInv, NEW r \in Requests, Validated(r)
  PROVE  IInv'
<1> DEFINE old == req[r]
           q(session, entry) ==
             [old EXCEPT !.session = session, !.late = FALSE,
                         !.own = IF old.op.kind = "create" THEN entry ELSE NONE,
                         !.pc = IF Reports(r) THEN "report" ELSE "done"]
<1>1. /\ old = Fields(old) /\ old.late \in BOOLEAN /\ old.pc = "broker"
      /\ old.late \/ old.secrets = env
      /\ UNCHANGED <<setting, env>>
  BY DEF IInv, Shape, AskedOfNow, Validated, At
<1>2. PICK session :
        /\ cache' = IF old.op.kind = "create" THEN cache ELSE Cached(session, r)
        /\ req' = [req EXCEPT ![r] = q(session, Cached(session, r))]
  <2>1. PICK reached \in BOOLEAN :
          LET session == Answer(req[r].secrets, reached)
              entry == Cached(session, r) IN
          /\ cache' = IF req[r].op.kind = "create" THEN cache ELSE entry
          /\ req' = [req EXCEPT ![r].session = session, ![r].late = FALSE,
                       ![r].own = IF req[r].op.kind = "create" THEN entry ELSE NONE,
                       ![r].pc = IF Reports(r) THEN "report" ELSE "done"]
    BY DEF Validated
  <2> DEFINE session == Answer(req[r].secrets, reached)
             entry == Cached(session, r)
             own == IF req[r].op.kind = "create" THEN entry ELSE NONE
             point == IF Reports(r) THEN "report" ELSE "done"
  <2>2. /\ cache' = IF req[r].op.kind = "create" THEN cache ELSE entry
        /\ req' = [req EXCEPT ![r].session = session, ![r].late = FALSE,
                     ![r].own = own, ![r].pc = point]
    BY <2>1
  <2>3. q(session, entry) =
          [req[r] EXCEPT !.session = session, !.late = FALSE, !.own = own, !.pc = point]
    OBVIOUS
  <2>4. req' = [req EXCEPT ![r] = q(session, entry)]
    <3> DEFINE moved == q(session, entry)
    <3> HIDE DEF session, own, point, moved
    <3> QED BY <2>2, <2>3
  <2> QED BY <2>2, <2>4
<1> DEFINE new == q(session, Cached(session, r))
<1>3. new = Fields(new) /\ new.late = FALSE /\ new.pc \in {"report", "done"} /\ new.source = old.source
  <2> DEFINE own == IF old.op.kind = "create" THEN Cached(session, r) ELSE NONE
             point == IF Reports(r) THEN "report" ELSE "done"
  <2>1. point \in {"report", "done"}
    OBVIOUS
  <2>2. new = [old EXCEPT !.session = session, !.late = FALSE, !.own = own, !.pc = point]
    OBVIOUS
  <2> HIDE DEF old, own, point, new
  <2>3. new = Fields(new) /\ new.pc = point /\ new.late = FALSE /\ new.source = old.source
    BY <1>1, <2>2 DEF Fields
  <2> QED BY <2>1, <2>3
<1>4. Shape' /\ AskedOfNow' /\ SourceHasItsSecrets'
  <2>1. req' = [req EXCEPT ![r] = new] /\ old.source = req[r].source
    BY <1>2
  <2>2. Moves(r, new)
    <3> HIDE DEF new, old
    <3> QED BY <2>1, <1>3 DEF Moves
  <2> QED BY <1>1, <2>2, MovesKeep
<1>5. CASE old.op.kind = "create"
  <2>1. QuietAt(r, new)
    BY <1>1, <1>2, <1>3, <1>5 DEF QuietAt
  <2> QED BY <2>1, QuietStep
<1>6. CASE old.op.kind # "create"
  <2>1. cache' = [session |-> session, secrets |-> old.secrets, late |-> old.late]
    BY <1>2, <1>6 DEF Cached
  <2>2. Remembered'
    BY <1>1, <2>1 DEF Remembered
  <2> QED BY <1>4, <2>2 DEF IInv
<1> QED BY <1>5, <1>6

\* A field other than the ones the invariant speaks of changes with the point.
LEMMA PcHolds ==
  ASSUME IInv, NEW r \in Requests, NEW point, Goto(r, point),
         UNCHANGED <<setting, env, cache>>,
         point # "broker",
         req[r].pc \notin {"read", "truncate", "write", "pop"} \/ point \in {"truncate", "write", "pop"}
  PROVE  IInv'
<1> DEFINE old == req[r]
           q == [old EXCEPT !.pc = point]
<1>1. /\ old = Fields(old) /\ old.late \in BOOLEAN
      /\ old.source = req[r].source /\ old.pc = req[r].pc
      /\ req' = [req EXCEPT ![r] = q]
  BY DEF IInv, Shape, Goto
<1>2. q = Fields(q) /\ q.pc = point /\ q.late = old.late /\ q.source = old.source
  <2>1. q = [old EXCEPT !.pc = point]
    OBVIOUS
  <2> HIDE DEF old, q
  <2> QED BY <1>1, <2>1 DEF Fields
<1>3. QuietAt(r, q)
  <2> HIDE DEF old, q
  <2> QED BY <1>1, <1>2 DEF QuietAt
<1> QED BY <1>3, QuietStep

LEMMA ReadFileHolds ==
  ASSUME IInv, NEW r \in Requests, ReadFile(r)
  PROVE  IInv'
<1> DEFINE old == req[r]
           q == [old EXCEPT !.pc = "truncate", !.read = file]
<1>1. /\ old = Fields(old) /\ old.late \in BOOLEAN /\ old.pc = "read"
      /\ old.source = req[r].source /\ old.pc = req[r].pc
      /\ req' = [req EXCEPT ![r] = q]
      /\ UNCHANGED <<setting, env, cache>>
  BY DEF IInv, Shape, At, ReadFile
<1>2. q = Fields(q) /\ q.pc = "truncate" /\ q.late = old.late /\ q.source = old.source
  <2>1. q = [old EXCEPT !.pc = "truncate", !.read = file]
    OBVIOUS
  <2> HIDE DEF old, q
  <2> QED BY <1>1, <2>1 DEF Fields
<1>3. QuietAt(r, q)
  <2> HIDE DEF old, q
  <2> QED BY <1>1, <1>2 DEF QuietAt
<1> QED BY <1>3, QuietStep

LEMMA ResolveHolds ==
  ASSUME IInv, NEW r \in Requests, ResolveCredentials(r)
  PROVE  IInv'
<1> DEFINE old == req[r]
           full == FullyConfigured(req[r].frozen)
           q == [old EXCEPT !.pc = "status", !.complete = full]
<1>1. /\ old = Fields(old) /\ old.late \in BOOLEAN /\ old.pc = "resolve"
      /\ old.source = req[r].source /\ old.pc = req[r].pc
      /\ req' = [req EXCEPT ![r] = q]
      /\ UNCHANGED <<setting, env, cache>>
  BY DEF IInv, Shape, At, ResolveCredentials
<1>2. q = Fields(q) /\ q.pc = "status" /\ q.late = old.late /\ q.source = old.source
  <2>1. q = [old EXCEPT !.pc = "status", !.complete = full]
    OBVIOUS
  <2> HIDE DEF old, q, full
  <2> QED BY <1>1, <2>1 DEF Fields
<1>3. QuietAt(r, q)
  <2> HIDE DEF old, q
  <2> QED BY <1>1, <1>2 DEF QuietAt
<1> QED BY <1>3, QuietStep

LEMMA GetStatusHolds ==
  ASSUME IInv, NEW r \in Requests, GetStatus(r)
  PROVE  IInv'
<1> DEFINE old == req[r]
           status == StatusOf(r)
           point == IF ~Reports(r) THEN "done" ELSE IF req[r].judged THEN "report" ELSE "judge"
           q == [old EXCEPT !.session = status, !.pc = point]
<1>1. /\ old = Fields(old) /\ old.late \in BOOLEAN /\ old.pc = "status"
      /\ old.source = req[r].source /\ old.pc = req[r].pc
      /\ req' = [req EXCEPT ![r] = q]
      /\ UNCHANGED <<setting, env, cache>>
  BY DEF IInv, Shape, At, GetStatus
<1>2. q = Fields(q) /\ q.pc = point /\ q.late = old.late /\ q.source = old.source
  <2>1. q = [old EXCEPT !.session = status, !.pc = point]
    OBVIOUS
  <2> HIDE DEF old, q, status, point
  <2> QED BY <1>1, <2>1 DEF Fields
<1>a. point \in {"done", "report", "judge"}
  OBVIOUS
<1>3. QuietAt(r, q)
  <2> HIDE DEF old, q
  <2> QED BY <1>1, <1>2, <1>a DEF QuietAt
<1> QED BY <1>3, QuietStep

LEMMA DeliverHolds ==
  ASSUME IInv, NEW r \in Requests, NEW session, NEW state, Deliver(r, session, state),
         req[r].pc \in {"judge", "report"}, UNCHANGED <<setting, env, cache>>
  PROVE  IInv'
<1> DEFINE old == req[r]
           report == [state |-> state, session |-> session,
                      instantiate |-> Instantiable(state)]
           point == IF req[r].op.kind = "create" /\ Instantiable(state) THEN "build" ELSE "done"
           q == [old EXCEPT !.session = session, !.report = report, !.pc = point]
<1>1. /\ old = Fields(old) /\ old.late \in BOOLEAN /\ old.pc \in {"judge", "report"}
      /\ old.source = req[r].source /\ old.pc = req[r].pc
      /\ req' = [req EXCEPT ![r] = q]
      /\ UNCHANGED <<setting, env, cache>>
  BY DEF IInv, Shape, At, Deliver
<1>2. q = Fields(q) /\ q.pc = point /\ q.late = old.late /\ q.source = old.source
  <2>1. q = [old EXCEPT !.session = session, !.report = report, !.pc = point]
    OBVIOUS
  <2> HIDE DEF old, q, report, point
  <2> QED BY <1>1, <2>1 DEF Fields
<1>a. point \in {"done", "build"}
  OBVIOUS
<1>3. QuietAt(r, q)
  <2> HIDE DEF old, q
  <2> QED BY <1>1, <1>2, <1>a DEF QuietAt
<1> QED BY <1>3, QuietStep

LEMMA JudgeHolds ==
  ASSUME IInv, NEW r \in Requests, Judge(r)
  PROVE  IInv'
<1>1. req[r].pc = "judge" /\ UNCHANGED <<setting, env, cache>>
  BY DEF Judge, At
<1>2. CASE req' = [req EXCEPT ![r].pc = "check", ![r].judged = TRUE]
  <2> DEFINE old == req[r]
             q == [old EXCEPT !.pc = "check", !.judged = TRUE]
  <2>1. /\ old = Fields(old) /\ old.late \in BOOLEAN /\ old.pc = "judge"
        /\ old.source = req[r].source /\ old.pc = req[r].pc
        /\ req' = [req EXCEPT ![r] = q]
    BY <1>1, <1>2 DEF IInv, Shape
  <2>2. q = Fields(q) /\ q.pc = "check" /\ q.late = old.late /\ q.source = old.source
    <3>1. q = [old EXCEPT !.pc = "check", !.judged = TRUE]
      OBVIOUS
    <3> HIDE DEF old, q
    <3> QED BY <2>1, <3>1 DEF Fields
  <2>3. QuietAt(r, q)
    <3> HIDE DEF old, q
    <3> QED BY <1>1, <2>1, <2>2 DEF QuietAt
  <2> QED BY <2>3, QuietStep
<1>3. CASE \E session, state : Deliver(r, session, state)
  BY <1>1, <1>3, DeliverHolds
<1> QED BY <1>2, <1>3 DEF Judge

LEMMA BeginHolds ==
  ASSUME IInv, NEW r \in Requests, Begin(r)
  PROVE  IInv'
<1> DEFINE old == req[r]
<1>1. /\ old = Fields(old) /\ old.late \in BOOLEAN /\ old.pc = "new"
      /\ old.source = req[r].source /\ old.pc = req[r].pc
      /\ UNCHANGED <<setting, env, cache>>
  BY DEF IInv, Shape, At, Begin
<1>2. CASE req' = [req EXCEPT ![r].pc = "store", ![r].todo = req[r].op.values]
  <2> DEFINE values == req[r].op.values
             q == [old EXCEPT !.pc = "store", !.todo = values]
  <2>1. req' = [req EXCEPT ![r] = q]
    BY <1>2
  <2>2. q = Fields(q) /\ q.pc = "store" /\ q.late = old.late /\ q.source = old.source
    <3>1. q = [old EXCEPT !.pc = "store", !.todo = values]
      OBVIOUS
    <3> HIDE DEF old, q, values
    <3> QED BY <1>1, <3>1 DEF Fields
  <2>3. QuietAt(r, q)
    <3> HIDE DEF old, q
    <3> QED BY <1>1, <2>1, <2>2 DEF QuietAt
  <2> QED BY <2>3, QuietStep
<1>3. CASE req' = [req EXCEPT ![r].pc = "resolve", ![r].frozen = LoadConfig]
  <2> DEFINE config == LoadConfig
             q == [old EXCEPT !.pc = "resolve", !.frozen = config]
  <2>1. req' = [req EXCEPT ![r] = q]
    BY <1>3
  <2>2. q = Fields(q) /\ q.pc = "resolve" /\ q.late = old.late /\ q.source = old.source
    <3>1. q = [old EXCEPT !.pc = "resolve", !.frozen = config]
      OBVIOUS
    <3> HIDE DEF old, q, config
    <3> QED BY <1>1, <3>1 DEF Fields
  <2>3. QuietAt(r, q)
    <3> HIDE DEF old, q
    <3> QED BY <1>1, <2>1, <2>2 DEF QuietAt
  <2> QED BY <2>3, QuietStep
<1>4. CASE \E point \in {"check", "status", "done"} : Goto(r, point)
  BY <1>1, <1>4, PcHolds
<1> QED BY <1>2, <1>3, <1>4 DEF Begin

\* The one step that makes a source looks at the secrets it gives it.
LEMMA BuildHolds ==
  ASSUME IInv, NEW r \in Requests, Build(r)
  PROVE  IInv'
<1> DEFINE values == [c \in Credentials |-> Resolve(c, req[r].frozen)]
           refused == setting.kind = "zerodha" /\ \E c \in Credentials : ~Present(values[c])
           source == IF refused THEN NONE ELSE values
           old == req[r]
           q == [old EXCEPT !.pc = "done", !.source = source]
<1>1. /\ old = Fields(old) /\ old.late \in BOOLEAN /\ old.pc = "build" /\ old.pc = req[r].pc
      /\ req' = [req EXCEPT ![r] = q]
      /\ req = [o \in Requests |-> Fields(req[o])]
      /\ \A o \in Requests : req[o].late \in BOOLEAN
      /\ UNCHANGED <<setting, env, cache>>
  BY DEF IInv, Shape, At, Build
<1>2. q = Fields(q) /\ q.pc = "done" /\ q.late = old.late /\ q.source = source
  <2>1. q = [old EXCEPT !.pc = "done", !.source = source]
    OBVIOUS
  <2> HIDE DEF old, q, source
  <2> QED BY <1>1, <2>1 DEF Fields
<1>3. source # NONE /\ setting.kind = "zerodha" => \A c \in Credentials : Present(source[c])
  OBVIOUS
<1> HIDE DEF old, q, source
<1>4. /\ \A o \in Requests \ {r} : req'[o] = req[o]
      /\ req'[r] = q
  BY <1>1
<1>5. Shape'
  <2>1. \A o \in Requests : req'[o] = Fields(req'[o]) /\ req'[o].late \in BOOLEAN
    BY <1>1, <1>2, <1>4
  <2>2. req' = [o \in Requests |-> req'[o]]
    BY <1>1
  <2> QED BY <2>1, <2>2 DEF Shape
<1>6. AskedOfNow'
  BY <1>1, <1>2, <1>4 DEF AskedOfNow, At, IInv
<1>7. Settled' => Settled
  BY <1>1, <1>4 DEF Settled, Storing, At
<1>8. Remembered'
  BY <1>1, <1>7 DEF Remembered, IInv
<1>9. SourceHasItsSecrets'
  BY <1>1, <1>2, <1>3, <1>4 DEF SourceHasItsSecrets, Present, IInv
<1> QED BY <1>5, <1>6, <1>8, <1>9 DEF IInv

\* A new process has no request in progress and an empty cache.
LEMMA RestartHolds ==
  ASSUME IInv, Restart
  PROVE  IInv'
<1>1. /\ cache' = NONE /\ setting' = setting
      /\ req' = [r \in Requests |-> IF At(r, "new") THEN req[r] ELSE [req[r] EXCEPT !.pc = "done"]]
      /\ req = [o \in Requests |-> Fields(req[o])]
      /\ \A o \in Requests : req[o].late \in BOOLEAN
  BY DEF IInv, Shape, Restart
<1>2. ASSUME NEW r \in Requests
      PROVE  /\ req'[r] = Fields(req'[r]) /\ req'[r].late \in BOOLEAN
             /\ req'[r].pc # "broker" /\ req'[r].source = req[r].source
  <2> DEFINE old == req[r]
             is == req'[r]
  <2>1. old = Fields(old) /\ old.late \in BOOLEAN
    BY <1>1
  <2>2. CASE At(r, "new")
    <3>1. is = old /\ old.pc = "new"
      BY <1>1, <2>2 DEF At
    <3> QED BY <2>1, <3>1
  <2>3. CASE ~At(r, "new")
    <3>1. is = [old EXCEPT !.pc = "done"]
      BY <1>1, <2>3
    <3> HIDE DEF old, is
    <3>2. is = Fields(is) /\ is.pc = "done" /\ is.late = old.late /\ is.source = old.source
      BY <2>1, <3>1 DEF Fields
    <3> QED BY <2>1, <3>2 DEF is, old
  <2> QED BY <2>2, <2>3
<1>3. Shape'
  <2>1. req' = [o \in Requests |-> req'[o]]
    BY <1>1
  <2> QED BY <1>2, <2>1 DEF Shape
<1>4. AskedOfNow' /\ Remembered'
  BY <1>1, <1>2 DEF AskedOfNow, Remembered, At
<1>5. SourceHasItsSecrets'
  BY <1>1, <1>2 DEF SourceHasItsSecrets, Present, IInv
<1> QED BY <1>3, <1>4, <1>5 DEF IInv

LEMMA StepHolds ==
  ASSUME IInv, [Next]_vars
  PROVE  IInv'
<1>1. ASSUME NEW r \in Requests, Begin(r) PROVE IInv'
  BY <1>1, BeginHolds
<1>2. ASSUME NEW r \in Requests, StoreEnv(r) PROVE IInv'
  BY <1>2, StoreEnvHolds
<1>3. ASSUME NEW r \in Requests, ReadFile(r) PROVE IInv'
  BY <1>3, ReadFileHolds
<1>4. ASSUME NEW r \in Requests, TruncateFile(r) PROVE IInv'
  BY <1>4, PcHolds DEF TruncateFile, At
<1>5. ASSUME NEW r \in Requests, WriteFile(r) PROVE IInv'
  BY <1>5, PcHolds DEF WriteFile, At
<1>6. ASSUME NEW r \in Requests, FileFails(r) PROVE IInv'
  BY <1>6, FileFailsHolds
<1>7. ASSUME NEW r \in Requests, PopCache(r) PROVE IInv'
  BY <1>7, PopCacheHolds
<1>8. ASSUME NEW r \in Requests, GetStatus(r) PROVE IInv'
  BY <1>8, GetStatusHolds
<1>9. ASSUME NEW r \in Requests, CheckCredentials(r) PROVE IInv'
  <2>1. /\ \E point \in {"snapshot", "status"} : Goto(r, point)
        /\ req[r].pc = "check" /\ UNCHANGED <<setting, env, cache>>
    BY <1>9 DEF CheckCredentials, At
  <2> QED BY <2>1, PcHolds
<1>10. ASSUME NEW r \in Requests, ReadSecrets(r) PROVE IInv'
  BY <1>10, ReadSecretsHolds
<1>11. ASSUME NEW r \in Requests, Validated(r) PROVE IInv'
  BY <1>11, ValidatedHolds
<1>12. ASSUME NEW r \in Requests, ResolveCredentials(r) PROVE IInv'
  BY <1>12, ResolveHolds
<1>13. ASSUME NEW r \in Requests, Judge(r) PROVE IInv'
  BY <1>13, JudgeHolds
<1>14. ASSUME NEW r \in Requests, Conclude(r) PROVE IInv'
  BY <1>14, DeliverHolds DEF Conclude, At
<1>15. ASSUME NEW r \in Requests, Build(r) PROVE IInv'
  BY <1>15, BuildHolds
<1>16. CASE Restart
  BY <1>16, RestartHolds
<1>17. CASE TokenExpires \/ UNCHANGED vars
  BY <1>17, StutterStep DEF TokenExpires, vars
<1> QED
  BY <1>1, <1>2, <1>3, <1>4, <1>5, <1>6, <1>7, <1>8, <1>9, <1>10, <1>11, <1>12, <1>13, <1>14,
     <1>15, <1>16, <1>17 DEF Next

\* The router's cache speaks of the credentials of now and a Zerodha source
\* has its secrets, for any number of requests and whatever they ask.
THEOREM SessionSafety == Spec => []SecretsStayCurrent
<1>1. IInv => SecretsStayCurrent
  BY DEF IInv, Remembered, CacheSpeaksOfCurrentSecrets, SecretsStayCurrent
<1> QED BY InitHolds, StepHolds, <1>1, PTL DEF Spec

-----------------------------------------------------------------------------
(* The stored credentials *)

\* What a request between os.environ and .env is about to write.
ItemOf(r) == Head(req[r].todo)

\* The environment, the file and what was written speak of the same credentials.
Tables ==
  /\ env = [c \in Credentials |-> env[c]]
  /\ file = [c \in Credentials |-> file[c]]
  /\ stored = [c \in Credentials |-> stored[c]]
  /\ \A r \in Requests :
       /\ Storing(r) => ItemOf(r).name \in Credentials
       /\ req[r].pc \in {"truncate", "write"}
            => req[r].read = [c \in Credentials |-> req[r].read[c]]

\* Two updates at a time leave no credential out of the account of clashes.
Alone ==
  \A r, o \in Requests : Storing(r) /\ Storing(o) /\ r # o => Credentials \subseteq clash

\* Of a credential without clashes the file has what was last written to it, or the
\* request that has emptied the file does.
OnFile(c) ==
  /\ (\A r \in Requests : ~At(r, "write")) => file[c] = stored[c]
  /\ \A r \in Requests : At(r, "truncate") => req[r].read[c] = stored[c]
  /\ \A r \in Requests : At(r, "write") => file[c] = NONE /\ req[r].read[c] = stored[c]

\* And the environment has it, or what is about to be written.
InForce(c) ==
  /\ stored[c] # NONE /\ setting.shell[c] = NONE =>
       \/ env[c] = stored[c]
       \/ \E r \in Requests : Storing(r) /\ ItemOf(r).name = c
  /\ \A r \in Requests : Storing(r) /\ ItemOf(r).name = c => env[c] = ItemOf(r).value

DurableInv ==
  /\ Shape /\ Tables /\ Alone
  /\ \A c \in Credentials \ clash : OnFile(c) /\ InForce(c)

\* A step that no update takes part in.
Aside ==
  /\ \A o \in Requests : (Storing(o) \/ Storing(o)') =>
       req'[o].pc = req[o].pc /\ req'[o].todo = req[o].todo /\ req'[o].read = req[o].read
  /\ UNCHANGED <<setting, env, file, stored, clash>>

\* Such a step leaves what an update has done so far as it was.
LEMMA AsideKeeps ==
  ASSUME DurableInv, Shape', Aside
  PROVE  DurableInv'
<1>1. \A o \in Requests : Storing(o)' <=> Storing(o)
  BY DEF Aside, Storing
<1>2. \A o \in Requests : Storing(o) => /\ req'[o].pc = req[o].pc
                                        /\ req'[o].read = req[o].read
                                        /\ ItemOf(o)' = ItemOf(o)
  BY DEF Aside, ItemOf
<1>3. \A o \in Requests : req'[o].pc \in {"read", "truncate", "write"} <=> Storing(o)
  BY <1>1 DEF Storing
<1>4. UNCHANGED <<setting, env, file, stored, clash>>
  BY DEF Aside
<1>5. \A o \in Requests : /\ At(o, "truncate")' <=> At(o, "truncate")
                          /\ At(o, "write")' <=> At(o, "write")
                          /\ At(o, "truncate") \/ At(o, "write") => Storing(o)
  BY <1>2, <1>3 DEF At, Storing
<1>6. Tables'
  BY <1>1, <1>2, <1>3, <1>4, <1>5 DEF DurableInv, Tables, At
<1>7. Alone'
  BY <1>1, <1>4 DEF DurableInv, Alone
<1>8. ASSUME NEW c \in Credentials \ clash PROVE OnFile(c)' /\ InForce(c)'
  <2>1. OnFile(c) /\ InForce(c)
    BY <1>8 DEF DurableInv
  <2>2. OnFile(c)'
    BY <2>1, <1>2, <1>4, <1>5 DEF OnFile
  <2>3. InForce(c)'
    BY <2>1, <1>1, <1>2, <1>4 DEF InForce
  <2> QED BY <2>2, <2>3
<1> QED BY <1>4, <1>6, <1>7, <1>8 DEF DurableInv

LEMMA ElsewhereIsAside ==
  ASSUME NEW r \in Requests, \A o \in Requests \ {r} : req'[o] = req[o],
         ~Storing(r), req'[r].pc \notin {"read", "truncate", "write"},
         UNCHANGED <<setting, env, file, stored, clash>>
  PROVE  Aside
BY DEF Aside, Storing

LEMMA InitDurable == Init => DurableInv
<1> SUFFICES ASSUME Init PROVE DurableInv
  OBVIOUS
<1>1. Shape
  BY InitHolds DEF IInv
<1>2. /\ setting \in Settings /\ env = setting.shell /\ file = Unset /\ stored = Unset
      /\ \A r \in Requests : req[r].pc = "new"
  BY DEF Init, NewRequest
<1>3. Tables
  BY <1>2, SettingAssumption DEF Tables, Unset, Storing
<1>4. Alone
  BY <1>2 DEF Alone, Storing
<1>5. \A c \in Credentials : OnFile(c) /\ InForce(c)
  BY <1>2 DEF OnFile, InForce, Storing, At, Unset
<1> QED BY <1>1, <1>3, <1>4, <1>5 DEF DurableInv

\* When a request is storing and a credential has no clash, no other is storing.
LEMMA OneStores ==
  ASSUME DurableInv, NEW r \in Requests, Storing(r), NEW c \in Credentials \ clash
  PROVE  \A o \in Requests \ {r} : ~Storing(o)
BY DEF DurableInv, Alone

LEMMA StoreEnvDurable ==
  ASSUME DurableInv, Shape', NEW r \in Requests, StoreEnv(r)
  PROVE  DurableInv'
<1> DEFINE item == Head(req[r].todo)
<1>1. /\ At(r, "store") /\ ~Storing(r) /\ UNCHANGED <<setting, file, stored>>
      /\ req = [o \in Requests |-> Fields(req[o])]
  BY DEF StoreEnv, At, Storing, DurableInv, Shape
<1>2. CASE req[r].todo = <<>> /\ Goto(r, AfterStores(r)) /\ UNCHANGED <<env, clash>>
  <2>1. AfterStores(r) \in {"status", "check"}
    BY DEF AfterStores
  <2>2. req' = [req EXCEPT ![r] = [req[r] EXCEPT !.pc = AfterStores(r)]]
    BY <1>2 DEF Goto
  <2>3. req'[r] = [req[r] EXCEPT !.pc = AfterStores(r)] /\ req[r] = Fields(req[r])
    BY <1>1, <2>2
  <2>4. req'[r].pc = AfterStores(r)
    BY <2>3 DEF Fields
  <2>5. \A o \in Requests \ {r} : req'[o] = req[o]
    BY <2>2
  <2> QED BY <1>1, <1>2, <2>1, <2>4, <2>5, ElsewhereIsAside, AsideKeeps
<1>3. CASE /\ req' = [req EXCEPT ![r].todo = Tail(@),
                                 ![r].pc = IF req[r].op.kind = "configure" THEN "done" ELSE @]
           /\ UNCHANGED <<env, clash>>
  <2> DEFINE point == IF req[r].op.kind = "configure" THEN "done" ELSE req[r].pc
             q == [req[r] EXCEPT !.todo = Tail(req[r].todo), !.pc = point]
  <2>1. req' = [req EXCEPT ![r] = q]
    BY <1>3
  <2>2. req'[r] = q /\ req[r] = Fields(req[r])
    BY <1>1, <2>1
  <2>3. q.pc = point
    BY <2>2 DEF Fields
  <2>4. point \in {"done", "store"}
    BY <1>1 DEF At
  <2>5. \A o \in Requests \ {r} : req'[o] = req[o]
    BY <2>1
  <2>6. req'[r].pc \notin {"read", "truncate", "write"}
    BY <2>2, <2>3, <2>4
  <2> QED BY <1>1, <1>3, <2>5, <2>6, ElsewhereIsAside, AsideKeeps
<1>4. CASE /\ item.name \in Credentials
           /\ env' = [env EXCEPT ![item.name] = item.value]
           /\ req' = [o \in Requests |->
                        IF o = r THEN [req[r] EXCEPT !.pc = "read"]
                        ELSE [req[o] EXCEPT !.late = @ \/ req[o].pc = "broker"]]
           /\ clash' = IF \E o \in Requests \ {r} : Storing(o)
                       THEN clash \cup Credentials ELSE clash
  <2>1. ASSUME NEW o \in Requests
        PROVE  /\ req'[o].todo = req[o].todo /\ req'[o].read = req[o].read
               /\ req'[o].pc = IF o = r THEN "read" ELSE req[o].pc
    <3> DEFINE was == req[o]
               is == req'[o]
               late == was.late \/ was.pc = "broker"
    <3>1. was = Fields(was)
      BY <1>1
    <3>2. is = IF o = r THEN [was EXCEPT !.pc = "read"] ELSE [was EXCEPT !.late = late]
      BY <1>4
    <3> HIDE DEF was, is, late
    <3>3. is.todo = was.todo /\ is.read = was.read /\ is.pc = IF o = r THEN "read" ELSE was.pc
      BY <3>1, <3>2 DEF Fields
    <3> QED BY <3>3 DEF was, is
  <2>2. \A o \in Requests : /\ ItemOf(o)' = ItemOf(o)
                            /\ Storing(o)' <=> (o = r \/ Storing(o))
                            /\ At(o, "truncate")' <=> At(o, "truncate")
                            /\ At(o, "write")' <=> At(o, "write")
    BY <1>1, <2>1 DEF ItemOf, Storing, At
  <2>3. ItemOf(r) = item
    BY DEF ItemOf
  <2>4. /\ env' = [c \in Credentials |-> env'[c]]
        /\ \A c \in Credentials : env'[c] = IF c = item.name THEN item.value ELSE env[c]
    BY <1>4 DEF DurableInv, Tables
  <2> HIDE DEF item
  <2>5. Tables'
    <3>1. /\ file' = [c \in Credentials |-> file'[c]]
          /\ stored' = [c \in Credentials |-> stored'[c]]
      BY <1>1 DEF DurableInv, Tables
    <3>2. ASSUME NEW o \in Requests PROVE Storing(o)' => ItemOf(o)'.name \in Credentials
      BY <1>4, <2>2, <2>3 DEF DurableInv, Tables
    <3>3. ASSUME NEW o \in Requests, req'[o].pc \in {"truncate", "write"}
          PROVE  req'[o].read = [c \in Credentials |-> req'[o].read[c]]
      BY <2>1, <3>3 DEF DurableInv, Tables
    <3> QED BY <2>4, <3>1, <3>2, <3>3 DEF Tables
  <2>6. Alone'
    <3> SUFFICES ASSUME NEW a \in Requests, NEW b \in Requests,
                        Storing(a)', Storing(b)', a # b
                 PROVE  Credentials \subseteq clash'
      BY DEF Alone
    <3>1. CASE \E o \in Requests \ {r} : Storing(o)
      BY <1>4, <3>1
    <3>2. CASE \A o \in Requests \ {r} : ~Storing(o)
      BY <2>2, <3>2
    <3> QED BY <3>1, <3>2
  <2>7. ASSUME NEW c \in Credentials \ clash' PROVE OnFile(c)' /\ InForce(c)'
    <3>1. (\A o \in Requests \ {r} : ~Storing(o)) /\ c \notin clash
      BY <1>4
    <3>2. OnFile(c) /\ InForce(c)
      BY <3>1 DEF DurableInv
    <3>3. OnFile(c)'
      BY <1>1, <2>1, <2>2, <3>2 DEF OnFile
    <3>4. \A o \in Requests : Storing(o)' => o = r
      BY <2>2, <3>1
    <3>5. Storing(r)' /\ ~Storing(r)
      BY <1>1, <2>2
    <3>6. CASE c = item.name
      <4>1. env'[c] = item.value
        BY <2>4, <3>6
      <4>2. Storing(r)' /\ ItemOf(r)' = item
        BY <2>2, <2>3, <3>5
      <4>3. \A o \in Requests : Storing(o)' /\ ItemOf(o)'.name = c => env'[c] = ItemOf(o)'.value
        BY <3>4, <4>1, <4>2
      <4> QED BY <3>3, <3>6, <4>2, <4>3 DEF InForce
    <3>7. CASE c # item.name
      <4>1. env'[c] = env[c] /\ setting' = setting /\ stored' = stored
        BY <1>1, <2>4, <3>7
      <4>2. stored[c] # NONE /\ setting.shell[c] = NONE => env[c] = stored[c]
        BY <3>1, <3>2, <3>5 DEF InForce
      <4>3. \A o \in Requests : Storing(o)' => ItemOf(o)'.name # c
        BY <2>2, <2>3, <3>4, <3>7
      <4> QED BY <3>3, <4>1, <4>2, <4>3 DEF InForce
    <3> QED BY <3>3, <3>6, <3>7
  <2> QED BY <2>5, <2>6, <2>7 DEF DurableInv
<1> QED BY <1>2, <1>3, <1>4 DEF StoreEnv

LEMMA ReadFileDurable ==
  ASSUME DurableInv, Shape', NEW r \in Requests, ReadFile(r)
  PROVE  DurableInv'
<1>1. /\ At(r, "read") /\ Storing(r) /\ UNCHANGED <<setting, env, file, stored, clash>>
      /\ req[r] = Fields(req[r])
      /\ req' = [req EXCEPT ![r] = [req[r] EXCEPT !.pc = "truncate", !.read = file]]
  BY DEF ReadFile, At, Storing, DurableInv, Shape
<1>2. \A o \in Requests \ {r} : req'[o] = req[o]
  BY <1>1
<1>3. req'[r].pc = "truncate" /\ req'[r].read = file /\ req'[r].todo = req[r].todo
  <2> DEFINE old == req[r]
             new == req'[r]
  <2>1. new = [old EXCEPT !.pc = "truncate", !.read = file] /\ old = Fields(old)
    BY <1>1 DEF DurableInv, Shape
  <2> HIDE DEF old, new
  <2>2. new.pc = "truncate" /\ new.read = file /\ new.todo = old.todo
    BY <2>1 DEF Fields
  <2> QED BY <2>2 DEF old, new
<1>4. \A o \in Requests : (Storing(o)' <=> Storing(o)) /\ ItemOf(o)' = ItemOf(o)
  BY <1>1, <1>2, <1>3 DEF Storing, ItemOf
<1>5. Tables'
  <2>1. /\ env' = [c \in Credentials |-> env'[c]]
        /\ file' = [c \in Credentials |-> file'[c]]
        /\ stored' = [c \in Credentials |-> stored'[c]]
        /\ \A o \in Requests : Storing(o)' => ItemOf(o)'.name \in Credentials
    BY <1>1, <1>4 DEF DurableInv, Tables
  <2>2. \A o \in Requests : req'[o].pc \in {"truncate", "write"}
          => req'[o].read = [c \in Credentials |-> req'[o].read[c]]
    BY <1>2, <1>3 DEF DurableInv, Tables
  <2> QED BY <2>1, <2>2 DEF Tables
<1>6. Alone'
  BY <1>1, <1>4 DEF DurableInv, Alone
<1>7. ASSUME NEW c \in Credentials \ clash PROVE OnFile(c)' /\ InForce(c)'
  <2>1. OnFile(c) /\ InForce(c) /\ \A o \in Requests \ {r} : ~Storing(o)
    BY <1>1, OneStores DEF DurableInv
  <2>2. InForce(c)'
    BY <1>1, <1>4, <2>1 DEF InForce
  <2>3. file[c] = stored[c]
    BY <1>1, <2>1 DEF OnFile, At, Storing
  <2>4. \A o \in Requests : o # r => ~At(o, "truncate")' /\ ~At(o, "write")'
    BY <1>2, <2>1 DEF At, Storing
  <2>5. OnFile(c)'
    BY <1>1, <1>3, <2>3, <2>4 DEF OnFile, At
  <2> QED BY <2>2, <2>5
<1> QED BY <1>1, <1>5, <1>6, <1>7 DEF DurableInv

LEMMA TruncateFileDurable ==
  ASSUME DurableInv, Shape', NEW r \in Requests, TruncateFile(r)
  PROVE  DurableInv'
<1>1. /\ At(r, "truncate") /\ Storing(r) /\ UNCHANGED <<setting, env, stored, clash>>
      /\ file' = Unset /\ req[r] = Fields(req[r])
      /\ req' = [req EXCEPT ![r] = [req[r] EXCEPT !.pc = "write"]]
  BY DEF TruncateFile, Goto, At, Storing, DurableInv, Shape
<1>2. \A o \in Requests \ {r} : req'[o] = req[o]
  BY <1>1
<1>3. req'[r].pc = "write" /\ req'[r].read = req[r].read /\ req'[r].todo = req[r].todo
  <2>1. req'[r] = [req[r] EXCEPT !.pc = "write"]
    BY <1>1 DEF DurableInv, Shape
  <2> QED BY <1>1, <2>1 DEF Fields
<1>4. \A o \in Requests : (Storing(o)' <=> Storing(o)) /\ ItemOf(o)' = ItemOf(o)
  BY <1>1, <1>2, <1>3 DEF Storing, ItemOf
<1>5. Tables'
  BY <1>1, <1>2, <1>3, <1>4 DEF DurableInv, Tables, Unset, At
<1>6. Alone'
  BY <1>1, <1>4 DEF DurableInv, Alone
<1>7. ASSUME NEW c \in Credentials \ clash PROVE OnFile(c)' /\ InForce(c)'
  <2>1. OnFile(c) /\ InForce(c) /\ \A o \in Requests \ {r} : ~Storing(o)
    BY <1>1, OneStores DEF DurableInv
  <2>2. InForce(c)'
    BY <1>1, <1>4, <2>1 DEF InForce
  <2>3. req[r].read[c] = stored[c]
    BY <1>1, <2>1 DEF OnFile
  <2>4. \A o \in Requests : o # r => ~At(o, "truncate")' /\ ~At(o, "write")'
    BY <1>2, <2>1 DEF At, Storing
  <2>5. OnFile(c)'
    BY <1>1, <1>3, <2>3, <2>4 DEF OnFile, At, Unset
  <2> QED BY <2>2, <2>5
<1> QED BY <1>1, <1>5, <1>6, <1>7 DEF DurableInv

LEMMA WriteFileDurable ==
  ASSUME DurableInv, Shape', NEW r \in Requests, WriteFile(r)
  PROVE  DurableInv'
<1> DEFINE item == ItemOf(r)
           text == [req[r].read EXCEPT ![item.name] = item.value]
<1>1. /\ At(r, "write") /\ Storing(r) /\ UNCHANGED <<setting, env, clash>>
      /\ req[r] = Fields(req[r])
      /\ stored' = [stored EXCEPT ![item.name] = item.value]
      /\ req' = [req EXCEPT ![r] = [req[r] EXCEPT !.pc = "pop"]]
  BY DEF WriteFile, Goto, At, Storing, DurableInv, Shape, ItemOf
<1>2. PICK behind \in SUBSET {c \in Credentials : text[c] = NONE} :
        file' = [c \in Credentials |-> IF c \in behind THEN file[c] ELSE text[c]]
  BY DEF WriteFile, ItemOf
<1>3. \A o \in Requests \ {r} : req'[o] = req[o]
  BY <1>1
<1>4. req'[r].pc = "pop"
  <2>1. req'[r] = [req[r] EXCEPT !.pc = "pop"]
    BY <1>1 DEF DurableInv, Shape
  <2> QED BY <1>1, <2>1 DEF Fields
<1>5. \A o \in Requests : /\ Storing(o)' <=> (Storing(o) /\ o # r)
                          /\ o # r => ItemOf(o)' = ItemOf(o)
  BY <1>3, <1>4 DEF Storing, ItemOf
<1>6. /\ stored' = [c \in Credentials |-> stored'[c]]
      /\ \A c \in Credentials : stored'[c] = IF c = item.name THEN item.value ELSE stored[c]
      /\ \A c \in Credentials : text[c] = IF c = item.name THEN item.value ELSE req[r].read[c]
  BY <1>1 DEF DurableInv, Tables, At
<1> HIDE DEF item, text
<1>7. Tables'
  BY <1>1, <1>2, <1>3, <1>4, <1>5, <1>6 DEF DurableInv, Tables
<1>8. Alone'
  BY <1>1, <1>5 DEF DurableInv, Alone
<1>9. ASSUME NEW c \in Credentials \ clash PROVE OnFile(c)' /\ InForce(c)'
  <2>1. OnFile(c) /\ InForce(c) /\ \A o \in Requests \ {r} : ~Storing(o)
    BY <1>1, OneStores DEF DurableInv
  <2>2. file[c] = NONE /\ req[r].read[c] = stored[c]
    BY <1>1, <2>1 DEF OnFile
  <2>3. file'[c] = stored'[c]
    BY <1>2, <1>6, <2>2
  <2>4. \A o \in Requests : ~Storing(o)'
    BY <1>5, <2>1
  <2>5. \A o \in Requests : ~At(o, "truncate")' /\ ~At(o, "write")'
    BY <2>4 DEF At, Storing
  <2>6. OnFile(c)'
    BY <2>3, <2>5 DEF OnFile
  <2>7. CASE c = item.name
    <3>1. env[c] = item.value
      BY <1>1, <2>1, <2>7 DEF InForce, item
    <3> QED BY <1>1, <1>6, <2>4, <2>6, <2>7, <3>1 DEF InForce
  <2>8. CASE c # item.name
    <3>1. stored[c] # NONE /\ setting.shell[c] = NONE => env[c] = stored[c]
      BY <2>1, <2>8 DEF InForce, item
    <3> QED BY <1>1, <1>6, <2>4, <2>6, <2>8, <3>1 DEF InForce
  <2> QED BY <2>7, <2>8
<1> QED BY <1>1, <1>7, <1>8, <1>9 DEF DurableInv

LEMMA FileFailsDurable ==
  ASSUME DurableInv, Shape', NEW r \in Requests, FileFails(r)
  PROVE  DurableInv'
<1>1. /\ Storing(r) /\ UNCHANGED <<setting, env, file, stored>>
      /\ req[r] = Fields(req[r])
      /\ clash' = clash \cup (IF At(r, "write") THEN Credentials ELSE {ItemOf(r).name})
      /\ req' = [req EXCEPT ![r] = [req[r] EXCEPT !.pc = "done"]]
  BY DEF FileFails, Goto, DurableInv, Shape, ItemOf
<1>2. \A o \in Requests \ {r} : req'[o] = req[o]
  BY <1>1
<1>3. req'[r].pc = "done"
  <2>1. req'[r] = [req[r] EXCEPT !.pc = "done"]
    BY <1>1 DEF DurableInv, Shape
  <2> QED BY <1>1, <2>1 DEF Fields
<1>4. \A o \in Requests : /\ Storing(o)' <=> (Storing(o) /\ o # r)
                          /\ o # r => ItemOf(o)' = ItemOf(o)
  BY <1>2, <1>3 DEF Storing, ItemOf
<1>5. Tables'
  BY <1>1, <1>2, <1>3, <1>4 DEF DurableInv, Tables
<1>6. Alone'
  BY <1>1, <1>4 DEF DurableInv, Alone
<1>7. ASSUME NEW c \in Credentials \ clash' PROVE OnFile(c)' /\ InForce(c)'
  <2>1. c \notin clash /\ ~At(r, "write") /\ c # ItemOf(r).name
    BY <1>1
  <2>2. OnFile(c) /\ InForce(c) /\ \A o \in Requests \ {r} : ~Storing(o)
    BY <1>1, <2>1, OneStores DEF DurableInv
  <2>3. \A o \in Requests : ~Storing(o)'
    BY <1>4, <2>2
  <2>4. \A o \in Requests : ~At(o, "write")
    BY <2>1, <2>2 DEF At, Storing
  <2>5. \A o \in Requests : ~At(o, "truncate")' /\ ~At(o, "write")'
    BY <2>3 DEF At, Storing
  <2>6. OnFile(c)'
    BY <1>1, <2>2, <2>4, <2>5 DEF OnFile
  <2>7. InForce(c)'
    BY <1>1, <2>1, <2>2, <2>3 DEF InForce
  <2> QED BY <2>6, <2>7
<1> QED BY <1>1, <1>5, <1>6, <1>7 DEF DurableInv

LEMMA RestartDurable ==
  ASSUME DurableInv, Shape', Restart
  PROVE  DurableInv'
<1>1. /\ UNCHANGED <<setting, file, stored>>
      /\ req' = [r \in Requests |-> IF At(r, "new") THEN req[r] ELSE [req[r] EXCEPT !.pc = "done"]]
      /\ env' = [c \in Credentials |-> IF setting.shell[c] # NONE THEN setting.shell[c] ELSE file[c]]
      /\ clash' = IF \E r \in Requests : At(r, "write") THEN Credentials ELSE clash
  BY DEF Restart
<1>2. \A o \in Requests : req'[o].pc \in {"new", "done"}
  <2> SUFFICES ASSUME NEW o \in Requests PROVE req'[o].pc \in {"new", "done"}
    OBVIOUS
  <2>1. req[o] = Fields(req[o])
    BY DEF DurableInv, Shape
  <2>2. CASE At(o, "new")
    BY <1>1, <2>2 DEF At
  <2>3. CASE ~At(o, "new")
    <3>1. req'[o] = [req[o] EXCEPT !.pc = "done"]
      BY <1>1, <2>3
    <3> QED BY <2>1, <3>1 DEF Fields
  <2> QED BY <2>2, <2>3
<1>3. \A o \in Requests : ~Storing(o)' /\ ~At(o, "truncate")' /\ ~At(o, "write")'
  BY <1>2 DEF Storing, At
<1>4. Tables'
  BY <1>1, <1>2, <1>3 DEF DurableInv, Tables
<1>5. Alone'
  BY <1>3 DEF Alone
<1>6. ASSUME NEW c \in Credentials \ clash' PROVE OnFile(c)' /\ InForce(c)'
  <2>1. c \notin clash /\ \A r \in Requests : ~At(r, "write")
    BY <1>1
  <2>2. file[c] = stored[c]
    BY <2>1 DEF DurableInv, OnFile
  <2> QED BY <1>1, <1>3, <2>2 DEF OnFile, InForce
<1> QED BY <1>4, <1>5, <1>6 DEF DurableInv

\* The steps of a request that stores nothing.
OtherSteps(r) ==
  \/ Begin(r) \/ PopCache(r) \/ GetStatus(r) \/ CheckCredentials(r) \/ ReadSecrets(r)
  \/ Validated(r) \/ ResolveCredentials(r) \/ Judge(r) \/ Conclude(r) \/ Build(r)

LEMMA OtherIsAside ==
  ASSUME Shape, NEW r \in Requests, OtherSteps(r)
  PROVE  Aside
<1> DEFINE old == req[r]
           new == req'[r]
           Away == ~Storing(r) /\ new.pc \notin {"read", "truncate", "write"}
<1>1. req = [o \in Requests |-> Fields(req[o])] /\ old = Fields(old)
  BY DEF Shape
<1>2. /\ UNCHANGED <<setting, env, file, stored, clash>>
      /\ \A o \in Requests \ {r} : req'[o] = req[o]
  BY <1>1 DEF OtherSteps, Begin, PopCache, GetStatus, CheckCredentials, ReadSecrets, Validated,
              ResolveCredentials, Judge, Conclude, Build, Deliver, Goto
<1>3. CASE Begin(r)
  <2>1. old.pc = "new" /\ ~Storing(r)
    BY <1>3 DEF Begin, At, Storing
  <2>2. CASE \E todo : new = [old EXCEPT !.pc = "store", !.todo = todo]
    <3> HIDE DEF old, new
    <3>1. new.pc = "store"
      BY <1>1, <2>2 DEF Fields
    <3> QED BY <2>1, <3>1, <1>2, ElsewhereIsAside DEF new
  <2>3. CASE \E config : new = [old EXCEPT !.pc = "resolve", !.frozen = config]
    <3> HIDE DEF old, new
    <3>1. new.pc = "resolve"
      BY <1>1, <2>3 DEF Fields
    <3> QED BY <2>1, <3>1, <1>2, ElsewhereIsAside DEF new
  <2>4. CASE \E point \in {"check", "status", "done"} : new = [old EXCEPT !.pc = point]
    <3> HIDE DEF old, new
    <3>1. new.pc \in {"check", "status", "done"}
      BY <1>1, <2>4 DEF Fields
    <3> QED BY <2>1, <3>1, <1>2, ElsewhereIsAside DEF new
  <2> QED BY <1>1, <1>3, <2>2, <2>3, <2>4 DEF Begin, Goto
<1>4. CASE PopCache(r)
  BY <1>1, <1>2, <1>4, ElsewhereIsAside DEF PopCache, At, Storing, Fields
<1>5. CASE GetStatus(r)
  <2> DEFINE point == IF ~Reports(r) THEN "done" ELSE IF req[r].judged THEN "report" ELSE "judge"
             session == StatusOf(r)
  <2>1. /\ ~Storing(r) /\ point \in {"done", "report", "judge"}
        /\ new = [old EXCEPT !.session = session, !.pc = point]
    BY <1>1, <1>5 DEF GetStatus, At, Storing
  <2>2. new.pc = point
    <3> HIDE DEF old, new, point, session
    <3> QED BY <1>1, <2>1 DEF Fields
  <2> QED BY <1>2, <2>1, <2>2, ElsewhereIsAside
<1>6. CASE CheckCredentials(r)
  BY <1>1, <1>2, <1>6, ElsewhereIsAside DEF CheckCredentials, Goto, At, Storing, Fields
<1>7. CASE ReadSecrets(r)
  BY <1>1, <1>2, <1>7, ElsewhereIsAside DEF ReadSecrets, At, Storing, Fields
<1>8. CASE Validated(r)
  <2> DEFINE point == IF Reports(r) THEN "report" ELSE "done"
  <2>1. PICK session, own : new = [old EXCEPT !.session = session, !.late = FALSE,
                                               !.own = own, !.pc = point]
    <3>1. PICK reached \in BOOLEAN :
            LET session == Answer(req[r].secrets, reached)
                entry == Cached(session, r) IN
            req' = [req EXCEPT ![r].session = session, ![r].late = FALSE,
                      ![r].own = IF req[r].op.kind = "create" THEN entry ELSE NONE,
                      ![r].pc = IF Reports(r) THEN "report" ELSE "done"]
      BY <1>8 DEF Validated
    <3> DEFINE session == Answer(req[r].secrets, reached)
               own == IF req[r].op.kind = "create" THEN Cached(session, r) ELSE NONE
    <3>2. req' = [req EXCEPT ![r].session = session, ![r].late = FALSE,
                    ![r].own = own, ![r].pc = point]
      BY <3>1
    <3> HIDE DEF session, own, point
    <3>3. new = [old EXCEPT !.session = session, !.late = FALSE, !.own = own, !.pc = point]
      BY <1>1, <3>2
    <3> QED BY <3>3
  <2>2. ~Storing(r) /\ point \in {"report", "done"}
    BY <1>8 DEF Validated, At, Storing
  <2>3. new.pc = point
    <3> HIDE DEF old, new, point
    <3> QED BY <1>1, <2>1 DEF Fields
  <2> QED BY <1>2, <2>2, <2>3, ElsewhereIsAside
<1>9. CASE ResolveCredentials(r)
  BY <1>1, <1>2, <1>9, ElsewhereIsAside DEF ResolveCredentials, At, Storing, Fields
<1>10. ASSUME NEW session, NEW state, Deliver(r, session, state), ~Storing(r)
       PROVE  Aside
  <2> DEFINE point == IF req[r].op.kind = "create" /\ Instantiable(state) THEN "build" ELSE "done"
             report == [state |-> state, session |-> session, instantiate |-> Instantiable(state)]
  <2>1. /\ point \in {"build", "done"}
        /\ new = [old EXCEPT !.session = session, !.report = report, !.pc = point]
    BY <1>1, <1>10 DEF Deliver
  <2>2. new.pc = point
    <3> HIDE DEF old, new, point, report
    <3> QED BY <1>1, <2>1 DEF Fields
  <2> QED BY <1>2, <1>10, <2>1, <2>2, ElsewhereIsAside
<1>11. CASE Judge(r)
  <2>1. ~Storing(r)
    BY <1>11 DEF Judge, At, Storing
  <2>2. CASE req' = [req EXCEPT ![r].pc = "check", ![r].judged = TRUE]
    BY <1>1, <1>2, <2>1, <2>2, ElsewhereIsAside DEF Fields
  <2> QED BY <1>10, <1>11, <2>1, <2>2 DEF Judge
<1>12. CASE Conclude(r)
  BY <1>10, <1>12 DEF Conclude, At, Storing
<1>13. CASE Build(r)
  <2>1. ~Storing(r) /\ \E source : new = [old EXCEPT !.pc = "done", !.source = source]
    BY <1>1, <1>13 DEF Build, At, Storing
  <2>2. new.pc = "done"
    <3> HIDE DEF old, new
    <3> QED BY <1>1, <2>1 DEF Fields
  <2> QED BY <1>2, <2>1, <2>2, ElsewhereIsAside
<1> QED BY <1>3, <1>4, <1>5, <1>6, <1>7, <1>8, <1>9, <1>11, <1>12, <1>13 DEF OtherSteps

LEMMA StepDurable ==
  ASSUME IInv, DurableInv, [Next]_vars
  PROVE  DurableInv'
<1>1. Shape' /\ Shape
  BY StepHolds DEF IInv
<1>2. ASSUME NEW r \in Requests, StoreEnv(r) PROVE DurableInv'
  BY <1>1, <1>2, StoreEnvDurable
<1>3. ASSUME NEW r \in Requests, ReadFile(r) PROVE DurableInv'
  BY <1>1, <1>3, ReadFileDurable
<1>4. ASSUME NEW r \in Requests, TruncateFile(r) PROVE DurableInv'
  BY <1>1, <1>4, TruncateFileDurable
<1>5. ASSUME NEW r \in Requests, WriteFile(r) PROVE DurableInv'
  BY <1>1, <1>5, WriteFileDurable
<1>6. ASSUME NEW r \in Requests, FileFails(r) PROVE DurableInv'
  BY <1>1, <1>6, FileFailsDurable
<1>7. ASSUME NEW r \in Requests, OtherSteps(r) PROVE DurableInv'
  BY <1>1, <1>7, OtherIsAside, AsideKeeps
<1>8. CASE Restart
  BY <1>1, <1>8, RestartDurable
<1>9. CASE TokenExpires \/ UNCHANGED vars
  <2>1. Aside
    BY <1>9 DEF TokenExpires, vars, Aside
  <2> QED BY <1>1, <2>1, AsideKeeps
<1> QED
  BY <1>2, <1>3, <1>4, <1>5, <1>6, <1>7, <1>8, <1>9 DEF Next, OtherSteps

\* What was stored alone is in .env and in force once nothing is being
\* stored, for any number of requests, credentials and restarts.
THEOREM DurableSafety == Spec => []StoredCredentialsAreDurable
<1>1. DurableInv => StoredCredentialsAreDurable
  <2> SUFFICES ASSUME DurableInv, Settled, NEW c \in Credentials \ clash, stored[c] # NONE
               PROVE  file[c] = stored[c] /\ (setting.shell[c] = NONE => env[c] = stored[c])
    BY DEF StoredCredentialsAreDurable
  <2>1. OnFile(c) /\ InForce(c)
    BY DEF DurableInv
  <2>2. \A r \in Requests : ~Storing(r) /\ ~At(r, "write")
    BY DEF Settled, Storing, At
  <2> QED BY <2>1, <2>2 DEF OnFile, InForce
<1> QED BY InitHolds, StepHolds, InitDurable, StepDurable, <1>1, PTL DEF Spec

-----------------------------------------------------------------------------
(* Instruments                                                             *)

\* The types of what a process keeps and of what lies on the disk.
Lists == [Exchanges -> Nat]
Copies == [frame : Lists, whole : BOOLEAN, writers : SUBSET Mappers, mixed : BOOLEAN]
Ops == [pc : {"idle", "open", "write", "replace"}, frame : Lists, wanted : {{}}]
Instruments ==
  [symbol : {c.symbol : c \in Contracts} \union {c.name : c \in Contracts} \union {NanName},
   ex : Exchanges, kind : {c.kind : c \in Contracts}, expiry : Nat,
   strike : {c.strike : c \in Contracts}, id : Nat, version : Nat]

\* What the variables hold.
ImTypeOK ==
  /\ im \in [kite : Lists, mem : [Mappers -> Lists \union {NoFrame}], csv : [Mappers -> BOOLEAN],
             registry : [Mappers -> SUBSET Instruments], op : [Mappers -> Ops],
             refreshes : Nat, crashes : Nat, overlapped : BOOLEAN]
  /\ imDisk \in [file : Copies \union {NoFrame}, tmp : Copies \union {NoFrame}]

\* One list is as new as another.
AsNew(new, old) == \A ex \in Exchanges : old[ex] <= new[ex]

\* Nobody has a list Kite has not published; a download replaces what its process
\* reads by lists that are as new, or by none.
ListsAreOfToday ==
  /\ \A p \in Mappers : im.mem[p] # NoFrame => AsNew(im.kite, im.mem[p])
  /\ \A p \in Mappers : AsNew(im.kite, im.op[p].frame)
  /\ imDisk.file # NoFrame => AsNew(im.kite, imDisk.file.frame)
  /\ imDisk.tmp # NoFrame => AsNew(im.kite, imDisk.tmp.frame)
  /\ \A p \in Mappers : im.op[p].pc # "idle" /\ im.mem[p] # NoFrame =>
       \A ex \in Exchanges : im.op[p].frame[ex] = 0 \/ im.mem[p][ex] <= im.op[p].frame[ex]

\* While refreshes have not overlapped, the temporary file is the one writer's and
\* is whole when it is moved.
OneWriter ==
  /\ \A p, q \in Mappers : im.op[p].pc # "idle" /\ im.op[q].pc # "idle" => p = q
  /\ imDisk.file # NoFrame => imDisk.file.whole /\ imDisk.file.writers = {}
  /\ imDisk.tmp # NoFrame => \A q \in imDisk.tmp.writers : im.op[q].pc = "write"
  /\ \A p \in Mappers : im.op[p].pc = "write" =>
       imDisk.tmp # NoFrame /\ imDisk.tmp.writers = {p} /\ ~imDisk.tmp.mixed
  /\ \A p \in Mappers : im.op[p].pc = "replace" =>
       imDisk.tmp # NoFrame /\ imDisk.tmp.writers = {} /\ imDisk.tmp.whole

\* A registry holds one instrument per key, and no future without an expiry.
OneEach(registry) ==
  /\ \A i, j \in registry : Canonical(i) = Canonical(j) => i = j
  /\ \A i \in registry : i.kind = "future" => i.expiry >= 1

\* The inductive invariant.
ImInv ==
  /\ ImTypeOK
  /\ ListsAreOfToday
  /\ im.overlapped \/ OneWriter
  /\ \A p \in Mappers : OneEach(im.registry[p])

-----------------------------------------------------------------------------

\* Being as new is a preorder, with the empty lists below all.
LEMMA AsNewFacts ==
  /\ \A l \in Lists : AsNew(l, l)
  /\ \A l \in Lists : AsNew(l, Unlisted)
  /\ Unlisted \in Lists
  /\ \A l, m, n \in Lists : AsNew(l, m) /\ AsNew(m, n) => AsNew(l, n)
BY DEF AsNew, Lists, Unlisted

\* The invariant is enough for what the runs check.
LEMMA ImInvOK ==
  ASSUME ImInv
  PROVE  CacheFileIsWhole /\ RegistryHasOneEach
<1>1. CacheFileIsWhole
  BY DEF ImInv, OneWriter, CacheFileIsWhole
<1>2. ASSUME NEW p \in Mappers, NEW i \in im.registry[p],
             NEW j \in ResolveActiveContract(im.registry[p], i.symbol, i.ex, 1), i.kind = "future"
      PROVE  j.expiry <= i.expiry
  <2>1. i.expiry >= 1
    BY <1>2 DEF ImInv, OneEach
  <2>2. i \in ActiveFutures(im.registry[p], i.symbol, i.ex, 1)
    BY <1>2, <2>1 DEF ActiveFutures
  <2> QED BY <2>2 DEF ResolveActiveContract
<1> QED BY <1>1, <1>2 DEF RegistryHasOneEach, ImInv, OneEach

\* At first there is no file, and nobody has read or filled anything.
LEMMA ImInitInv == ImInit => ImInv
<1> SUFFICES ASSUME ImInit PROVE ImInv OBVIOUS
<1>1. Unlisted \in Lists
  BY AsNewFacts
<1>2. [ex \in Exchanges |-> 1] \in Lists /\ \A ex \in Exchanges : [e \in Exchanges |-> 1][ex] = 1
  BY DEF Lists
<1>3. Idle \in Ops /\ Idle.pc = "idle" /\ Idle.frame = Unlisted
  BY <1>1 DEF Idle, Ops
<1>4. ImTypeOK
  BY <1>1, <1>2, <1>3 DEF ImInit, ImTypeOK
<1>5. AsNew([ex \in Exchanges |-> 1], Unlisted)
  BY <1>2, AsNewFacts
<1>6. ListsAreOfToday
  BY <1>3, <1>5 DEF ImInit, ListsAreOfToday
<1>7. OneWriter
  BY <1>3 DEF ImInit, OneWriter
<1>8. \A p \in Mappers : im.registry[p] = {}
  BY DEF ImInit
<1> QED BY <1>4, <1>6, <1>7, <1>8 DEF ImInv, OneEach

-----------------------------------------------------------------------------

\* A download begins with lists that are those of now, or none.
LEMMA DownloadKeeps ==
  ASSUME ImInv, NEW p \in Mappers, NEW frame \in Lists, im.op[p].pc = "idle",
         \A ex \in Exchanges : frame[ex] \in {0, im.kite[ex]}, Download(p, frame)
  PROVE  ImInv' /\ im'.mem = im.mem
<1> DEFINE o == [pc |-> "open", frame |-> frame, wanted |-> {}]
           met == im.overlapped \/ \E q \in Mappers \ {p} : im.op[q].pc # "idle"
<1>0. ImTypeOK /\ ListsAreOfToday
  BY DEF ImInv
<1>1. o \in Ops /\ o.pc = "open" /\ o.frame = frame
  BY DEF Ops
<1>2. im' = [im EXCEPT !.op[p] = o, !.refreshes = @ + 1, !.overlapped = met]
      /\ imDisk' = imDisk
  <2>1. im' = [im EXCEPT !.op[p] = o, !.refreshes = @ + 1,
                       !.overlapped = @ \/ \E q \in Mappers \ {p} : im.op[q].pc # "idle"]
        /\ imDisk' = imDisk
    BY DEF Download
  <2> QED BY <1>0, <2>1 DEF ImTypeOK
<1>m. met \in BOOLEAN /\ (~met => ~im.overlapped /\ \A q \in Mappers : q # p => im.op[q].pc = "idle")
  OBVIOUS
<1> HIDE DEF o, met
<1>3. /\ im'.kite = im.kite /\ im'.mem = im.mem /\ im'.registry = im.registry
      /\ im'.op = [im.op EXCEPT ![p] = o]
      /\ im'.overlapped = met
  BY <1>0, <1>2 DEF ImTypeOK
<1>4. ImTypeOK'
  <2> DEFINE a == [im.op EXCEPT ![p] = o]
             n == im.refreshes + 1
  <2>1. a \in [Mappers -> Ops] /\ n \in Nat
    BY <1>0, <1>1 DEF ImTypeOK
  <2>2. im' = [im EXCEPT !.op = a, !.refreshes = n, !.overlapped = met]
    BY <1>0, <1>2 DEF ImTypeOK
  <2> HIDE DEF a, n
  <2> QED BY <1>0, <1>2, <1>m, <2>1, <2>2 DEF ImTypeOK
<1>5. /\ im'.op[p] = o
      /\ \A q \in Mappers : q # p => im'.op[q] = im.op[q]
  BY <1>0, <1>3 DEF ImTypeOK
<1>k. im.kite \in Lists
  BY <1>0 DEF ImTypeOK
<1>6. AsNew(im.kite, frame)
  BY <1>k DEF AsNew, Lists
<1>7. im.mem[p] # NoFrame => \A ex \in Exchanges : frame[ex] = 0 \/ im.mem[p][ex] <= frame[ex]
  BY <1>0 DEF ListsAreOfToday, AsNew
<1>8. ListsAreOfToday'
  BY <1>0, <1>1, <1>2, <1>3, <1>5, <1>6, <1>7 DEF ListsAreOfToday
<1>9. im'.overlapped \/ OneWriter'
  <2> SUFFICES ASSUME ~im'.overlapped PROVE OneWriter'
    OBVIOUS
  <2>1. OneWriter /\ \A q \in Mappers : q # p => im.op[q].pc = "idle"
    BY <1>3, <1>m DEF ImInv
  <2>2. imDisk.tmp # NoFrame => imDisk.tmp.writers = {}
    BY <2>1, <1>0 DEF OneWriter, ImTypeOK, Copies
  <2> QED BY <1>1, <1>2, <1>5, <2>1, <2>2 DEF OneWriter
<1> QED BY <1>3, <1>4, <1>8, <1>9 DEF ImInv

\* One exchange is downloaded.
LEMMA RefreshCacheKeeps ==
  ASSUME ImInv, NEW p \in Mappers, RefreshCache(p) PROVE ImInv' /\ im'.mem = im.mem
<1>1. PICK ex \in Exchanges : Download(p, [Unlisted EXCEPT ![ex] = im.kite[ex]])
  BY DEF RefreshCache
<1>2. im.kite \in Lists
  BY DEF ImInv, ImTypeOK
<1>3. /\ [Unlisted EXCEPT ![ex] = im.kite[ex]] \in Lists
      /\ \A e \in Exchanges : [Unlisted EXCEPT ![ex] = im.kite[ex]][e] \in {0, im.kite[e]}
  BY <1>2 DEF Unlisted, Lists
<1> QED BY <1>1, <1>3, DownloadKeeps DEF RefreshCache

\* Every exchange that answers is downloaded.
LEMMA RefreshAllKeeps ==
  ASSUME ImInv, NEW p \in Mappers, RefreshAllSegments(p) PROVE ImInv' /\ im'.mem = im.mem
<1>1. PICK answered \in SUBSET Exchanges \ {{}} :
        Download(p, [ex \in Exchanges |-> IF ex \in answered THEN im.kite[ex] ELSE 0])
  BY DEF RefreshAllSegments
<1> DEFINE frame == [ex \in Exchanges |-> IF ex \in answered THEN im.kite[ex] ELSE 0]
<1>2. im.kite \in Lists
  BY DEF ImInv, ImTypeOK
<1>3. frame \in Lists /\ \A e \in Exchanges : frame[e] \in {0, im.kite[e]}
  BY <1>2 DEF Lists
<1> QED BY <1>1, <1>3, DownloadKeeps DEF RefreshAllSegments

\* Opened by the one writer, the file is that writer's alone.
LEMMA OpenKeeps ==
  ASSUME ImInv, NEW p \in Mappers, OpenTemporary(p) PROVE ImInv' /\ im'.mem = im.mem
<1> DEFINE others == IF imDisk.tmp = NoFrame THEN {} ELSE imDisk.tmp.writers
           t == [frame |-> im.op[p].frame, whole |-> FALSE,
                 writers |-> {p} \cup others, mixed |-> others # {}]
           o == [im.op[p] EXCEPT !.pc = "write"]
<1>0. ImTypeOK /\ ListsAreOfToday /\ im.op[p].pc = "open" /\ im.op[p] \in Ops
  BY DEF ImInv, OpenTemporary, ImTypeOK
<1>1. t \in Copies /\ t.frame = im.op[p].frame /\ t.writers = {p} \cup others /\ t.mixed = (others # {})
  BY <1>0 DEF Copies, ImTypeOK, Ops
<1>2. o \in Ops /\ o.pc = "write" /\ o.frame = im.op[p].frame
  BY <1>0 DEF Ops
<1>3. im' = [im EXCEPT !.op[p] = o] /\ imDisk' = [imDisk EXCEPT !.tmp = t]
  BY <1>0 DEF OpenTemporary, ImTypeOK
<1>n. t # NoFrame
  BY <1>1, InstrumentsAssumption DEF Copies, Lists
<1>o. imDisk.tmp # NoFrame => others = imDisk.tmp.writers
  OBVIOUS
<1>p. imDisk.tmp = NoFrame => others = {}
  OBVIOUS
<1> HIDE DEF o, t, others
<1>4. /\ im'.kite = im.kite /\ im'.mem = im.mem /\ im'.registry = im.registry
      /\ im'.overlapped = im.overlapped /\ im'.op = [im.op EXCEPT ![p] = o]
      /\ imDisk'.file = imDisk.file /\ imDisk'.tmp = t
  BY <1>0, <1>3 DEF ImTypeOK
<1>5. ImTypeOK'
  BY <1>0, <1>1, <1>2, <1>3 DEF ImTypeOK
<1>6. /\ im'.op[p] = o
      /\ \A q \in Mappers : q # p => im'.op[q] = im.op[q]
  BY <1>0, <1>4 DEF ImTypeOK
<1>7. ListsAreOfToday'
  BY <1>0, <1>1, <1>2, <1>4, <1>6 DEF ListsAreOfToday
<1>8. im'.overlapped \/ OneWriter'
  <2> SUFFICES ASSUME ~im'.overlapped PROVE OneWriter'
    OBVIOUS
  <2>1. OneWriter
    BY <1>4 DEF ImInv
  <2>2. \A q \in Mappers : q # p => im.op[q].pc = "idle"
    BY <1>0, <2>1 DEF OneWriter
  <2>3. imDisk.tmp # NoFrame => imDisk.tmp.writers \subseteq Mappers
    BY <1>0 DEF ImTypeOK, Copies
  <2>4. imDisk.tmp # NoFrame => imDisk.tmp.writers = {}
    BY <1>0, <2>1, <2>2, <2>3 DEF OneWriter
  <2>5. others = {}
    BY <2>4, <1>o, <1>p
  <2>6. t.writers = {p} /\ ~t.mixed
    BY <2>5, <1>1
  <2> QED BY <1>2, <1>4, <1>6, <1>n, <2>1, <2>2, <2>6 DEF OneWriter
<1> QED BY <1>4, <1>5, <1>7, <1>8 DEF ImInv

\* What writing leaves of a copy.
LEMMA WrittenFacts ==
  ASSUME NEW p \in Mappers, NEW copy \in Copies \union {NoFrame}, NEW whole \in BOOLEAN
  PROVE  /\ Written(p, copy, whole) \in Copies \union {NoFrame}
         /\ Written(p, copy, whole) = NoFrame <=> copy = NoFrame
         /\ copy # NoFrame => /\ Written(p, copy, whole).frame = copy.frame
                              /\ Written(p, copy, whole).writers = copy.writers \ {p}
                              /\ ~copy.mixed /\ p \in copy.writers => Written(p, copy, whole).whole
                              /\ p \notin copy.writers => Written(p, copy, whole) = copy
<1> DEFINE w == [copy EXCEPT !.whole = whole \/ ~copy.mixed, !.writers = @ \ {p}]
<1>1. CASE copy = NoFrame \/ p \notin copy.writers
  <2>1. Written(p, copy, whole) = copy
    BY <1>1 DEF Written
  <2> QED BY <1>1, <2>1
<1>2. CASE copy # NoFrame /\ p \in copy.writers
  <2>1. copy \in Copies
    BY <1>2
  <2>2. w \in Copies /\ w.frame = copy.frame /\ w.writers = copy.writers \ {p} /\ w.whole = (whole \/ ~copy.mixed)
    BY <2>1 DEF Copies
  <2>3. Written(p, copy, whole) = w
    BY <1>2 DEF Written
  <2>4. NoFrame \notin Copies
    BY InstrumentsAssumption DEF Copies, Lists
  <2> HIDE DEF w
  <2> QED BY <1>2, <2>2, <2>3, <2>4
<1> QED BY <1>1, <1>2

\* What the one writer leaves is whole.
LEMMA WriteKeeps ==
  ASSUME ImInv, NEW p \in Mappers, WriteTemporary(p) PROVE ImInv' /\ im'.mem = im.mem
<1> DEFINE o == [im.op[p] EXCEPT !.pc = "replace"]
<1>0. ImTypeOK /\ ListsAreOfToday /\ im.op[p].pc = "write" /\ im.op[p] \in Ops
  BY DEF ImInv, WriteTemporary, ImTypeOK
<1>1. PICK whole \in BOOLEAN :
       imDisk' = [file |-> Written(p, imDisk.file, whole), tmp |-> Written(p, imDisk.tmp, whole)]
  BY DEF WriteTemporary
<1> DEFINE f == Written(p, imDisk.file, whole)
           t == Written(p, imDisk.tmp, whole)
<1>2. o \in Ops /\ o.pc = "replace" /\ o.frame = im.op[p].frame
  BY <1>0 DEF Ops
<1>3. im' = [im EXCEPT !.op[p] = o]
  BY <1>0 DEF WriteTemporary, ImTypeOK
<1>c. imDisk.file \in Copies \union {NoFrame} /\ imDisk.tmp \in Copies \union {NoFrame}
  BY <1>0 DEF ImTypeOK
<1>f. /\ f \in Copies \union {NoFrame}
      /\ f = NoFrame <=> imDisk.file = NoFrame
      /\ imDisk.file # NoFrame => /\ f.frame = imDisk.file.frame
                                  /\ p \notin imDisk.file.writers => f = imDisk.file
  BY <1>c, WrittenFacts
<1>t. /\ t \in Copies \union {NoFrame}
      /\ t = NoFrame <=> imDisk.tmp = NoFrame
      /\ imDisk.tmp # NoFrame => /\ t.frame = imDisk.tmp.frame
                                 /\ t.writers = imDisk.tmp.writers \ {p}
                                 /\ ~imDisk.tmp.mixed /\ p \in imDisk.tmp.writers => t.whole
  BY <1>c, WrittenFacts
<1>d. imDisk' = [file |-> f, tmp |-> t]
  BY <1>1
<1> HIDE DEF o, f, t
<1>4. /\ im'.kite = im.kite /\ im'.mem = im.mem /\ im'.registry = im.registry
      /\ im'.overlapped = im.overlapped /\ im'.op = [im.op EXCEPT ![p] = o]
      /\ imDisk'.file = f /\ imDisk'.tmp = t
  BY <1>0, <1>3, <1>d DEF ImTypeOK
<1>5. ImTypeOK'
  BY <1>0, <1>2, <1>3, <1>d, <1>f, <1>t DEF ImTypeOK
<1>6. /\ im'.op[p] = o
      /\ \A q \in Mappers : q # p => im'.op[q] = im.op[q]
  BY <1>0, <1>4 DEF ImTypeOK
<1>7. ListsAreOfToday'
  BY <1>0, <1>f, <1>t, <1>2, <1>4, <1>6 DEF ListsAreOfToday
<1>8. im'.overlapped \/ OneWriter'
  <2> SUFFICES ASSUME ~im'.overlapped PROVE OneWriter'
    OBVIOUS
  <2>1. OneWriter
    BY <1>4 DEF ImInv
  <2>2. \A q \in Mappers : q # p => im.op[q].pc = "idle"
    BY <1>0, <2>1 DEF OneWriter
  <2>3. imDisk.tmp # NoFrame /\ imDisk.tmp.writers = {p} /\ ~imDisk.tmp.mixed
    BY <1>0, <2>1 DEF OneWriter
  <2>4. t # NoFrame /\ t.writers = {} /\ t.whole
    BY <2>3, <1>t
  <2>5. f # NoFrame => f.whole /\ f.writers = {}
    BY <2>1, <1>f DEF OneWriter
  <2> QED BY <1>2, <1>4, <1>6, <2>1, <2>2, <2>4, <2>5 DEF OneWriter
<1> QED BY <1>4, <1>5, <1>7, <1>8 DEF ImInv

\* A process that does nothing has downloaded nothing.
LEMMA IdleOp == Idle \in Ops /\ Idle.pc = "idle" /\ Idle.frame = Unlisted
  BY AsNewFacts DEF Idle, Ops

\* The move puts a whole file in place, and the download in the memory of its process.
LEMMA ReplaceKeeps ==
  ASSUME ImInv, NEW p \in Mappers, ReplaceCache(p)
  PROVE  /\ ImInv'
         /\ im'.mem = im.mem \/ (im'.mem = [im.mem EXCEPT ![p] = im.op[p].frame] /\ im.op[p].pc = "replace")
<1>0. ImTypeOK /\ ListsAreOfToday /\ im.op[p].pc = "replace" /\ im.op[p] \in Ops
  BY DEF ImInv, ReplaceCache, ImTypeOK
<1>k. im.kite \in Lists /\ AsNew(im.kite, Unlisted)
  BY <1>0, AsNewFacts DEF ImTypeOK
<1>1. CASE imDisk.tmp = NoFrame
  <2>1. im' = [im EXCEPT !.op[p] = Idle] /\ imDisk' = imDisk
    BY <1>1 DEF ReplaceCache
  <2>2. /\ im'.kite = im.kite /\ im'.mem = im.mem /\ im'.registry = im.registry
        /\ im'.overlapped = im.overlapped /\ im'.op = [im.op EXCEPT ![p] = Idle]
    BY <1>0, <2>1 DEF ImTypeOK
  <2>3. ImTypeOK'
    BY <1>0, <2>1, IdleOp DEF ImTypeOK
  <2>4. im'.op[p] = Idle /\ \A q \in Mappers : q # p => im'.op[q] = im.op[q]
    BY <1>0, <2>2 DEF ImTypeOK
  <2>5. ListsAreOfToday'
    BY <1>0, <1>k, <2>1, <2>2, <2>4, IdleOp DEF ListsAreOfToday
  <2>6. im.overlapped
    BY <1>0, <1>1 DEF ImInv, OneWriter
  <2> QED BY <2>2, <2>3, <2>5, <2>6 DEF ImInv
<1>2. CASE imDisk.tmp # NoFrame
  <2>1. /\ imDisk' = [file |-> imDisk.tmp, tmp |-> NoFrame]
        /\ im' = [im EXCEPT !.op[p] = Idle, !.mem[p] = im.op[p].frame, !.csv[p] = FALSE]
    BY <1>2 DEF ReplaceCache
  <2>2. /\ im'.kite = im.kite /\ im'.mem = [im.mem EXCEPT ![p] = im.op[p].frame]
        /\ im'.registry = im.registry
        /\ im'.overlapped = im.overlapped /\ im'.op = [im.op EXCEPT ![p] = Idle]
        /\ imDisk'.file = imDisk.tmp /\ imDisk'.tmp = NoFrame
    BY <1>0, <2>1 DEF ImTypeOK
  <2>f. im.op[p].frame \in Lists
    BY <1>0 DEF Ops
  <2>3. ImTypeOK'
    BY <1>0, <2>1, <2>f, IdleOp DEF ImTypeOK
  <2>4. /\ im'.op[p] = Idle /\ \A q \in Mappers : q # p => im'.op[q] = im.op[q]
        /\ im'.mem[p] = im.op[p].frame /\ \A q \in Mappers : q # p => im'.mem[q] = im.mem[q]
    BY <1>0, <2>2 DEF ImTypeOK
  <2>5. ListsAreOfToday'
    BY <1>0, <1>k, <1>2, <2>2, <2>4, IdleOp DEF ListsAreOfToday
  <2>6. im'.overlapped \/ OneWriter'
    <3> SUFFICES ASSUME ~im'.overlapped PROVE OneWriter'
      OBVIOUS
    <3>1. OneWriter
      BY <2>2 DEF ImInv
    <3>2. \A q \in Mappers : q # p => im.op[q].pc = "idle"
      BY <1>0, <3>1 DEF OneWriter
    <3>3. imDisk.tmp.writers = {} /\ imDisk.tmp.whole
      BY <1>0, <3>1 DEF OneWriter
    <3> QED BY <2>2, <2>4, <3>2, <3>3, IdleOp DEF OneWriter
  <2> QED BY <1>0, <2>2, <2>3, <2>5, <2>6 DEF ImInv
<1> QED BY <1>1, <1>2

\* What a process reads of the file is as old as the file at least.
LEMMA LoadKeeps ==
  ASSUME ImInv, NEW p \in Mappers, LoadCache(p)
  PROVE  /\ ImInv'
         /\ \A q \in Mappers : im'.mem[q] = im.mem[q] \/ im.mem[q] = NoFrame
<1>0. ImTypeOK /\ ListsAreOfToday /\ im.op[p].pc = "idle" /\ im.mem[p] = NoFrame
  BY DEF ImInv, LoadCache, NotLoaded
<1>k. im.kite \in Lists
  BY <1>0 DEF ImTypeOK
<1>1. CASE imDisk.file = NoFrame
  <2> DEFINE frame == [Unlisted EXCEPT ![DefaultExchange] = im.kite[DefaultExchange]]
  <2>1. Download(p, frame)
    BY <1>1 DEF LoadCache
  <2>2. frame \in Lists /\ \A e \in Exchanges : frame[e] \in {0, im.kite[e]}
    BY <1>k, InstrumentsAssumption DEF Unlisted, Lists
  <2> HIDE DEF frame
  <2> QED BY <1>0, <2>1, <2>2, DownloadKeeps
<1>2. CASE imDisk.file # NoFrame
  <2>1. PICK left \in SUBSET Exchanges :
          im' = [im EXCEPT !.csv[p] = TRUE, !.mem[p] =
                   [ex \in Exchanges |-> IF ex \in left THEN imDisk.file.frame[ex] ELSE 0]]
    <3>1. PICK left \in IF imDisk.file.whole THEN {Exchanges} ELSE SUBSET Exchanges :
          im' = [im EXCEPT !.csv[p] = TRUE, !.mem[p] =
                   [ex \in Exchanges |-> IF ex \in left THEN imDisk.file.frame[ex] ELSE 0]]
      BY <1>2 DEF LoadCache
    <3>2. left \in SUBSET Exchanges
      BY <3>1
    <3> QED BY <3>1, <3>2
  <2> DEFINE f == [ex \in Exchanges |-> IF ex \in left THEN imDisk.file.frame[ex] ELSE 0]
  <2>d. imDisk' = imDisk
    <3>1. LoadCache(p) /\ imDisk.file # NoFrame
      BY <1>2
    <3> QED BY <3>1 DEF LoadCache
  <2>2. imDisk.file.frame \in Lists /\ AsNew(im.kite, imDisk.file.frame)
    BY <1>0, <1>2 DEF ImTypeOK, Copies, ListsAreOfToday
  <2>3. f \in Lists /\ AsNew(im.kite, f)
    BY <2>2, <1>k DEF Lists, AsNew
  <2>4. im' = [im EXCEPT !.csv[p] = TRUE, !.mem[p] = f]
    BY <2>1
  <2> HIDE DEF f
  <2>5. /\ im'.kite = im.kite /\ im'.mem = [im.mem EXCEPT ![p] = f]
        /\ im'.registry = im.registry
        /\ im'.overlapped = im.overlapped /\ im'.op = im.op
    BY <1>0, <2>4 DEF ImTypeOK
  <2>6. ImTypeOK'
    BY <1>0, <2>3, <2>4, <2>d DEF ImTypeOK
  <2>7. im'.mem[p] = f /\ \A q \in Mappers : q # p => im'.mem[q] = im.mem[q]
    BY <1>0, <2>5 DEF ImTypeOK
  <2>8. ListsAreOfToday'
    BY <1>0, <2>3, <2>5, <2>7, <2>d DEF ListsAreOfToday
  <2>9. im'.overlapped \/ OneWriter'
    BY <2>5, <2>d DEF ImInv, OneWriter
  <2> QED BY <1>0, <2>5, <2>6, <2>7, <2>8, <2>9 DEF ImInv
<1> QED BY <1>1, <1>2

-----------------------------------------------------------------------------

\* The instrument made of a row.
LEMMA HydratedFacts ==
  ASSUME ImInv, NEW p \in Mappers, im.mem[p] # NoFrame, NEW c \in Contracts
  PROVE  /\ Hydrated(p, c) \in Instruments
         /\ Hydrated(p, c).id = c.id
         /\ Hydratable(c) /\ Hydrated(p, c).kind = "future" => Hydrated(p, c).expiry >= 1
<1>1. /\ c.ex \in Exchanges /\ c.id \in Nat /\ c.expiry \in Nat
  BY InstrumentsAssumption
<1>2. im.mem[p][c.ex] \in Nat
  BY <1>1 DEF ImInv, ImTypeOK, Lists
<1>3. NameOf(p, c) \in {c.name, NanName}
  BY DEF NameOf
<1>4. (IF c.kind \in {"future", "option"} /\ NameOf(p, c) # NoName THEN NameOf(p, c) ELSE c.symbol)
         \in {d.symbol : d \in Contracts} \union {d.name : d \in Contracts} \union {NanName}
  BY <1>3
<1>5. c.kind \in {d.kind : d \in Contracts} /\ c.strike \in {d.strike : d \in Contracts}
  OBVIOUS
<1>6. Hydrated(p, c) \in Instruments
  BY <1>1, <1>2, <1>4, <1>5 DEF Hydrated, Instruments
<1>7. Hydrated(p, c).id = c.id /\ Hydrated(p, c).kind = c.kind /\ Hydrated(p, c).expiry = c.expiry
  BY DEF Hydrated
<1> QED BY <1>1, <1>6, <1>7 DEF Hydratable

\* Rows told apart by their ids leave one instrument per key.
LEMMA AddAllKeepsOneEach ==
  ASSUME NEW registry \in SUBSET Instruments, NEW rows \in SUBSET Instruments, NEW replace \in BOOLEAN,
         OneEach(registry),
         \A i, j \in rows : i.id = j.id => i = j,
         \A i \in rows : i.kind = "future" => i.expiry >= 1
  PROVE  /\ AddAll(registry, rows, replace) \in SUBSET Instruments
         /\ OneEach(AddAll(registry, rows, replace))
<1>0. \A i \in rows : i.id \in Nat
  BY DEF Instruments
<1>a. \A a, b \in Nat : a <= b /\ b <= a => a = b
  OBVIOUS
<1>1. ASSUME NEW last \in BOOLEAN, NEW i \in Kept(rows, last), NEW j \in Kept(rows, last),
             Canonical(i) = Canonical(j)
      PROVE  i = j
  <2>1. i \in rows /\ j \in rows
    BY DEF Kept
  <2>2. i.id <= j.id /\ j.id <= i.id
    BY <1>1, <2>1 DEF Kept
  <2> QED BY <1>0, <1>a, <2>1, <2>2
<1>2. \A last \in BOOLEAN : Kept(rows, last) \subseteq rows
  BY DEF Kept
<1>3. CASE replace
  <2>1. AddAll(registry, rows, replace)
          = Kept(rows, TRUE) \cup {i \in registry : Canonical(i) \notin Keys(rows)}
    BY <1>3 DEF AddAll
  <2>2. \A i \in Kept(rows, TRUE) : Canonical(i) \in Keys(rows)
    BY <1>2 DEF Keys
  <2> QED BY <1>1, <1>2, <2>1, <2>2 DEF OneEach
<1>4. CASE ~replace
  <2>1. AddAll(registry, rows, replace)
          = registry \cup {i \in Kept(rows, FALSE) : Canonical(i) \notin Keys(registry)}
    BY <1>4 DEF AddAll
  <2>2. \A i \in registry : Canonical(i) \in Keys(registry)
    BY DEF Keys
  <2> QED BY <1>1, <1>2, <2>1, <2>2 DEF OneEach
<1> QED BY <1>3, <1>4

\* Filling a registry keeps it one instrument per key.
LEMMA HydrateKeeps ==
  ASSUME ImInv, NEW p \in Mappers, HydrateRegistry(p) PROVE ImInv' /\ im'.mem = im.mem
<1>0. ImTypeOK /\ ListsAreOfToday /\ im.mem[p] # NoFrame /\ imDisk' = imDisk
  BY DEF ImInv, HydrateRegistry
<1>1. PICK wanted \in SUBSET Exchanges \ {{}}, replace \in BOOLEAN :
       LET rows == UNION {RowsOf(p, ex) : ex \in wanted}
       IN  im' = [im EXCEPT !.registry[p] =
                    AddAll(@, {Hydrated(p, c) : c \in {d \in rows : Hydratable(d)}}, replace)]
  BY DEF HydrateRegistry
<1> DEFINE contracts == {d \in UNION {RowsOf(p, ex) : ex \in wanted} : Hydratable(d)}
           rows == {Hydrated(p, c) : c \in contracts}
           r == AddAll(im.registry[p], rows, replace)
<1>2. contracts \subseteq Contracts /\ \A c \in contracts : Hydratable(c)
  BY DEF RowsOf
<1>3. im' = [im EXCEPT !.registry[p] = r]
  BY <1>0, <1>1 DEF ImTypeOK
<1> HIDE DEF contracts
<1>4. rows \subseteq Instruments /\ \A i \in rows : i.kind = "future" => i.expiry >= 1
  BY <1>0, <1>2, HydratedFacts
<1>5. ASSUME NEW i \in rows, NEW j \in rows, i.id = j.id PROVE i = j
  <2>1. PICK c \in contracts : i = Hydrated(p, c)
    OBVIOUS
  <2>2. PICK d \in contracts : j = Hydrated(p, d)
    OBVIOUS
  <2>3. i.id = c.id /\ j.id = d.id
    BY <1>0, <1>2, <2>1, <2>2, HydratedFacts
  <2>4. c = d
    BY <1>2, <1>5, <2>3, InstrumentsAssumption
  <2> QED BY <2>1, <2>2, <2>4
<1>6. im.registry[p] \in SUBSET Instruments /\ OneEach(im.registry[p])
  BY DEF ImInv, ImTypeOK
<1> HIDE DEF rows
<1>7. r \in SUBSET Instruments /\ OneEach(r)
  <2>1. rows \in SUBSET Instruments
    BY <1>4
  <2> QED BY <2>1, <1>4, <1>5, <1>6, AddAllKeepsOneEach
<1> HIDE DEF r
<1>8. /\ im'.kite = im.kite /\ im'.mem = im.mem /\ im'.op = im.op
      /\ im'.overlapped = im.overlapped /\ im'.registry = [im.registry EXCEPT ![p] = r]
  BY <1>0, <1>3 DEF ImTypeOK
<1>9. ImTypeOK'
  BY <1>0, <1>3, <1>7 DEF ImTypeOK
<1>10. \A q \in Mappers : im'.registry[q] = IF q = p THEN r ELSE im.registry[q]
  BY <1>0, <1>8 DEF ImTypeOK
<1>11. \A q \in Mappers : OneEach(im'.registry[q])
  BY <1>7, <1>10 DEF ImInv
<1>12. ListsAreOfToday'
  BY <1>0, <1>8 DEF ListsAreOfToday
<1>13. im'.overlapped \/ OneWriter'
  BY <1>0, <1>8 DEF ImInv, OneWriter
<1> QED BY <1>8, <1>9, <1>11, <1>12, <1>13 DEF ImInv

-----------------------------------------------------------------------------

\* A process that dies leaves its files, and takes its lists and registry with it.
LEMMA CrashKeeps ==
  ASSUME ImInv, NEW p \in Mappers, ImCrash(p)
  PROVE  ImInv' /\ \A q \in Mappers : im'.mem[q] = im.mem[q] \/ im'.mem[q] = NoFrame
<1> DEFINE left(copy) == IF copy = NoFrame THEN NoFrame ELSE [copy EXCEPT !.writers = @ \ {p}]
<1>0. ImTypeOK /\ ListsAreOfToday
  BY DEF ImInv
<1>1. /\ imDisk' = [place \in DOMAIN imDisk |-> left(imDisk[place])]
      /\ im' = [im EXCEPT !.op[p] = Idle, !.mem[p] = NoFrame, !.csv[p] = FALSE,
                          !.registry[p] = {}, !.crashes = @ + 1]
  BY DEF ImCrash
<1>n. NoFrame \notin Copies
  BY InstrumentsAssumption DEF Copies, Lists
<1>l. ASSUME NEW copy \in Copies \union {NoFrame}
      PROVE  /\ left(copy) \in Copies \union {NoFrame}
             /\ left(copy) = NoFrame <=> copy = NoFrame
             /\ copy # NoFrame => /\ left(copy).frame = copy.frame
                                  /\ left(copy).whole = copy.whole
                                  /\ left(copy).mixed = copy.mixed
                                  /\ left(copy).writers = copy.writers \ {p}
  <2>1. CASE copy = NoFrame
    BY <2>1
  <2>2. CASE copy \in Copies
    <3> DEFINE w == [copy EXCEPT !.writers = @ \ {p}]
    <3>1. w \in Copies /\ w.frame = copy.frame /\ w.whole = copy.whole /\ w.mixed = copy.mixed
          /\ w.writers = copy.writers \ {p}
      BY <2>2 DEF Copies
    <3>2. left(copy) = w
      BY <2>2, <1>n
    <3> HIDE DEF w, left
    <3> QED BY <2>2, <3>1, <3>2, <1>n
  <2> QED BY <2>1, <2>2
<1>d. DOMAIN imDisk = {"file", "tmp"} /\ imDisk.file \in Copies \union {NoFrame}
      /\ imDisk.tmp \in Copies \union {NoFrame}
  BY <1>0 DEF ImTypeOK
<1>2. imDisk'.file = left(imDisk.file) /\ imDisk'.tmp = left(imDisk.tmp)
      /\ imDisk' = [place \in {"file", "tmp"} |-> imDisk'[place]]
  BY <1>1, <1>d
<1> HIDE DEF left
<1>3. imDisk' \in [file : Copies \union {NoFrame}, tmp : Copies \union {NoFrame}]
  BY <1>2, <1>d, <1>l
<1>4. /\ im'.kite = im.kite /\ im'.mem = [im.mem EXCEPT ![p] = NoFrame]
      /\ im'.registry = [im.registry EXCEPT ![p] = {}]
      /\ im'.overlapped = im.overlapped /\ im'.op = [im.op EXCEPT ![p] = Idle]
  BY <1>0, <1>1 DEF ImTypeOK
<1>5. ImTypeOK'
  <2>1. /\ [im.op EXCEPT ![p] = Idle] \in [Mappers -> Ops]
        /\ [im.mem EXCEPT ![p] = NoFrame] \in [Mappers -> Lists \union {NoFrame}]
        /\ [im.csv EXCEPT ![p] = FALSE] \in [Mappers -> BOOLEAN]
        /\ [im.registry EXCEPT ![p] = {}] \in [Mappers -> SUBSET Instruments]
    BY <1>0, IdleOp DEF ImTypeOK
  <2>2. im' = [im EXCEPT !.op = [im.op EXCEPT ![p] = Idle], !.mem = [im.mem EXCEPT ![p] = NoFrame],
                         !.csv = [im.csv EXCEPT ![p] = FALSE], !.registry = [im.registry EXCEPT ![p] = {}],
                         !.crashes = im.crashes + 1]
    BY <1>0, <1>1 DEF ImTypeOK
  <2> DEFINE a == [im.op EXCEPT ![p] = Idle]
             b == [im.mem EXCEPT ![p] = NoFrame]
             c == [im.csv EXCEPT ![p] = FALSE]
             d == [im.registry EXCEPT ![p] = {}]
             n == im.crashes + 1
  <2>n. n \in Nat
    BY <1>0 DEF ImTypeOK
  <2> HIDE DEF a, b, c, d, n
  <2>3. /\ a \in [Mappers -> Ops] /\ b \in [Mappers -> Lists \union {NoFrame}]
        /\ c \in [Mappers -> BOOLEAN] /\ d \in [Mappers -> SUBSET Instruments]
    BY <2>1 DEF a, b, c, d
  <2>4. im' = [im EXCEPT !.op = a, !.mem = b, !.csv = c, !.registry = d, !.crashes = n]
    BY <2>2 DEF a, b, c, d, n
  <2> QED BY <1>0, <1>3, <2>3, <2>4, <2>n DEF ImTypeOK
<1>6. /\ im'.op[p] = Idle /\ \A q \in Mappers : q # p => im'.op[q] = im.op[q]
      /\ im'.mem[p] = NoFrame /\ \A q \in Mappers : q # p => im'.mem[q] = im.mem[q]
      /\ im'.registry[p] = {} /\ \A q \in Mappers : q # p => im'.registry[q] = im.registry[q]
  BY <1>0, <1>4 DEF ImTypeOK
<1>k. im.kite \in Lists /\ AsNew(im.kite, Unlisted)
  BY <1>0, AsNewFacts DEF ImTypeOK
<1>7. ListsAreOfToday'
  BY <1>0, <1>k, <1>d, <1>l, <1>2, <1>4, <1>6, IdleOp DEF ListsAreOfToday
<1>8. im'.overlapped \/ OneWriter'
  <2> SUFFICES ASSUME ~im'.overlapped PROVE OneWriter'
    OBVIOUS
  <2>1. OneWriter
    BY <1>4 DEF ImInv
  <2>2. \A q, s \in Mappers : im'.op[q].pc # "idle" /\ im'.op[s].pc # "idle" => q = s
    BY <2>1, <1>6, IdleOp DEF OneWriter
  <2>3. imDisk'.file # NoFrame => imDisk'.file.whole /\ imDisk'.file.writers = {}
    BY <2>1, <1>2, <1>d, <1>l DEF OneWriter
  <2>4. imDisk'.tmp # NoFrame => \A q \in imDisk'.tmp.writers : im'.op[q].pc = "write"
    <3>1. imDisk.tmp # NoFrame => imDisk.tmp.writers \subseteq Mappers
      BY <1>d DEF Copies
    <3> QED BY <2>1, <1>2, <1>d, <1>l, <1>6, <3>1 DEF OneWriter
  <2>5. \A q \in Mappers : im'.op[q].pc = "write" =>
          imDisk'.tmp # NoFrame /\ imDisk'.tmp.writers = {q} /\ ~imDisk'.tmp.mixed
    BY <2>1, <1>2, <1>d, <1>l, <1>6, IdleOp DEF OneWriter
  <2>6. \A q \in Mappers : im'.op[q].pc = "replace" =>
          imDisk'.tmp # NoFrame /\ imDisk'.tmp.writers = {} /\ imDisk'.tmp.whole
    BY <2>1, <1>2, <1>d, <1>l, <1>6, IdleOp DEF OneWriter
  <2> QED BY <2>2, <2>3, <2>4, <2>5, <2>6 DEF OneWriter
<1>9. \A q \in Mappers : OneEach(im'.registry[q])
  BY <1>6 DEF ImInv, OneEach
<1> QED BY <1>5, <1>6, <1>7, <1>8, <1>9 DEF ImInv

\* Newer lists at Kite make none of the others newer.
LEMMA NewListKeeps ==
  ASSUME ImInv, NEW ex \in Exchanges, NewList(ex) PROVE ImInv' /\ im'.mem = im.mem
<1>0. ImTypeOK /\ ListsAreOfToday
  BY DEF ImInv
<1> DEFINE k == [im.kite EXCEPT ![ex] = @ + 1]
<1>1. im.kite \in Lists /\ k \in Lists /\ AsNew(k, im.kite)
  BY <1>0 DEF ImTypeOK, Lists, AsNew
<1>2. im' = [im EXCEPT !.kite = k] /\ imDisk' = imDisk
  BY <1>0 DEF NewList, ImTypeOK
<1> HIDE DEF k
<1>3. /\ im'.kite = k /\ im'.mem = im.mem /\ im'.op = im.op
      /\ im'.overlapped = im.overlapped /\ im'.registry = im.registry
  BY <1>0, <1>2 DEF ImTypeOK
<1>4. ImTypeOK'
  BY <1>0, <1>1, <1>2 DEF ImTypeOK
<1>t. \A l \in Lists : AsNew(im.kite, l) => AsNew(k, l)
  BY <1>1, AsNewFacts
<1>5. /\ \A p \in Mappers : im.mem[p] # NoFrame => im.mem[p] \in Lists
      /\ \A p \in Mappers : im.op[p].frame \in Lists
      /\ imDisk.file # NoFrame => imDisk.file.frame \in Lists
      /\ imDisk.tmp # NoFrame => imDisk.tmp.frame \in Lists
  BY <1>0 DEF ImTypeOK, Copies, Ops
<1>6. ListsAreOfToday'
  BY <1>0, <1>t, <1>2, <1>3, <1>5 DEF ListsAreOfToday
<1>7. im'.overlapped \/ OneWriter'
  BY <1>2, <1>3 DEF ImInv, OneWriter
<1> QED BY <1>3, <1>4, <1>6, <1>7 DEF ImInv

\* Neither does a stutter.
LEMMA ImSame == ASSUME ImInv, UNCHANGED imVars PROVE ImInv'
  BY DEF ImInv, ImTypeOK, ListsAreOfToday, OneWriter, imVars

\* Every step keeps the invariant.
LEMMA ImNextInv == ASSUME ImInv, [ImNext]_imVars PROVE ImInv'
<1>1. ASSUME NEW p \in Mappers, RefreshCache(p) PROVE ImInv'
  BY <1>1, RefreshCacheKeeps
<1>2. ASSUME NEW p \in Mappers, RefreshAllSegments(p) PROVE ImInv'
  BY <1>2, RefreshAllKeeps
<1>3. ASSUME NEW p \in Mappers, OpenTemporary(p) PROVE ImInv'
  BY <1>3, OpenKeeps
<1>4. ASSUME NEW p \in Mappers, WriteTemporary(p) PROVE ImInv'
  BY <1>4, WriteKeeps
<1>5. ASSUME NEW p \in Mappers, ReplaceCache(p) PROVE ImInv'
  BY <1>5, ReplaceKeeps
<1>6. ASSUME NEW p \in Mappers, LoadCache(p) PROVE ImInv'
  BY <1>6, LoadKeeps
<1>7. ASSUME NEW p \in Mappers, HydrateRegistry(p) PROVE ImInv'
  BY <1>7, HydrateKeeps
<1>8. ASSUME NEW p \in Mappers, ImCrash(p) PROVE ImInv'
  BY <1>8, CrashKeeps
<1>9. ASSUME NEW ex \in Exchanges, NewList(ex) PROVE ImInv'
  BY <1>9, NewListKeeps
<1>10. CASE UNCHANGED imVars
  BY <1>10, ImSame
<1> QED BY <1>1, <1>2, <1>3, <1>4, <1>5, <1>6, <1>7, <1>8, <1>9, <1>10 DEF ImNext

\* Of a frame, a step keeps it, forgets it, reads it for the first time, or puts
\* the download of its process in its place.
LEMMA FramesChange ==
  ASSUME ImInv, [ImNext]_imVars, NEW q \in Mappers, im.mem[q] # im'.mem[q],
         im.mem[q] # NoFrame, im'.mem[q] # NoFrame
  PROVE  im'.mem[q] = im.op[q].frame /\ im.op[q].pc # "idle"
<1> DEFINE Goal == im'.mem[q] = im.op[q].frame /\ im.op[q].pc # "idle"
<1>0. im.mem \in [Mappers -> Lists \union {NoFrame}]
  BY DEF ImInv, ImTypeOK
<1>1. ASSUME NEW p \in Mappers, RefreshCache(p) PROVE Goal
  BY <1>1, RefreshCacheKeeps
<1>2. ASSUME NEW p \in Mappers, RefreshAllSegments(p) PROVE Goal
  BY <1>2, RefreshAllKeeps
<1>3. ASSUME NEW p \in Mappers, OpenTemporary(p) PROVE Goal
  BY <1>3, OpenKeeps
<1>4. ASSUME NEW p \in Mappers, WriteTemporary(p) PROVE Goal
  BY <1>4, WriteKeeps
<1>5. ASSUME NEW p \in Mappers, ReplaceCache(p) PROVE Goal
  <2>1. im'.mem = [im.mem EXCEPT ![p] = im.op[p].frame] /\ im.op[p].pc = "replace"
    BY <1>5, ReplaceKeeps
  <2>2. p = q
    BY <1>0, <2>1
  <2> QED BY <1>0, <2>1, <2>2
<1>6. ASSUME NEW p \in Mappers, LoadCache(p) PROVE Goal
  BY <1>6, LoadKeeps
<1>7. ASSUME NEW p \in Mappers, HydrateRegistry(p) PROVE Goal
  BY <1>7, HydrateKeeps
<1>8. ASSUME NEW p \in Mappers, ImCrash(p) PROVE Goal
  BY <1>8, CrashKeeps
<1>9. ASSUME NEW ex \in Exchanges, NewList(ex) PROVE Goal
  BY <1>9, NewListKeeps
<1>10. CASE UNCHANGED imVars
  BY <1>10 DEF imVars
<1>11. Goal
  <2>1. ImNext \/ UNCHANGED imVars
    OBVIOUS
  <2> QED BY <2>1, <1>1, <1>2, <1>3, <1>4, <1>5, <1>6, <1>7, <1>8, <1>9, <1>10 DEF ImNext
<1> QED BY <1>11 DEF Goal

\* No step puts an older list in the place of a newer one.
LEMMA TokensStep == ASSUME ImInv, [ImNext]_imVars PROVE TokensNeverGoBack
<1> SUFFICES ASSUME NEW q \in Mappers, im.mem[q] # im'.mem[q], im.mem[q] # NoFrame, im'.mem[q] # NoFrame,
                    NEW c \in Contracts, NEW old \in TokenOf(q, c.symbol, c.ex),
                    NEW new \in TokenOf(q, c.symbol, c.ex)'
             PROVE  old.version <= new.version
  BY DEF TokensNeverGoBack
<1>1. im'.mem[q] = im.op[q].frame /\ im.op[q].pc # "idle"
  BY FramesChange
<1>2. c.ex \in Exchanges
  BY InstrumentsAssumption
<1>3. im.op[q].frame[c.ex] = 0 \/ im.mem[q][c.ex] <= im.op[q].frame[c.ex]
  BY <1>1, <1>2 DEF ImInv, ListsAreOfToday
<1>4. old.version = im.mem[q][c.ex]
  BY DEF TokenOf
<1>5. PICK d \in Contracts : d.from <= im'.mem[q][c.ex] /\ new = [id |-> d.id, version |-> im'.mem[q][c.ex]]
  BY DEF TokenOf, RowsOf
<1>6. new.version = im'.mem[q][c.ex]
  BY <1>5
<1>7. im'.mem[q][c.ex] # 0
  <2>1. d.from \in Nat \ {0}
    BY InstrumentsAssumption
  <2> QED BY <1>5, <2>1
<1> QED BY <1>1, <1>3, <1>4, <1>6, <1>7

\* Whatever the processes refresh, load, hydrate and lose, and however often Kite
\* lists anew: the cache file is whole unless refreshes have overlapped, registries
\* hold one instrument per key, and no process goes back to older tokens.
THEOREM InstrumentsSound == ImSpec => InstrumentsStaySound
<1>1. ImInit => ImInv
  BY ImInitInv
<1>2. ImInv /\ [ImNext]_imVars => ImInv'
  BY ImNextInv
<1>3. ImInv /\ [ImNext]_imVars => [TokensNeverGoBack]_imVars
  BY TokensStep
<1>4. ImInv => CacheFileIsWhole /\ RegistryHasOneEach
  BY ImInvOK
<1> QED BY <1>1, <1>2, <1>3, <1>4, PTL DEF ImSpec, InstrumentsStaySound

-----------------------------------------------------------------------------
(* Sorted times                                                            *)

\* The times of a set with n before them: one, or none.
Nth(times, n) == {t \in times : Cardinality({u \in times : u < t}) = n}
Chosen(S) == CHOOSE t \in S : TRUE

\* A sorted set is a sequence, of the times that have as many before them.
LEMMA SortedIs ==
  ASSUME NEW T, IsFiniteSet(T)
  PROVE  /\ \E S : Sorted(T) \in Seq(S)
         /\ Len(Sorted(T)) = Cardinality(T) /\ DOMAIN Sorted(T) = 1 .. Cardinality(T)
         /\ \A i \in 1 .. Cardinality(T) : Sorted(T)[i] = Chosen(Nth(T, i - 1))
<1>1. Cardinality(T) \in Nat
  BY FS_CardinalityType
<1>2. \A i \in 1 .. Cardinality(T) : Sorted(T)[i] = Chosen(Nth(T, i - 1))
  <2> SUFFICES ASSUME NEW i \in 1 .. Cardinality(T)
               PROVE  Sorted(T)[i] = Chosen(Nth(T, i - 1))
    OBVIOUS
  <2>1. Sorted(T)[i] = CHOOSE t \in T : Cardinality({u \in T : u < t}) = i - 1
    BY DEF Sorted
  <2>2. \A t : t \in Nth(T, i - 1) <=> t \in T /\ Cardinality({u \in T : u < t}) = i - 1
    BY DEF Nth
  <2>3. (CHOOSE t : t \in T /\ Cardinality({u \in T : u < t}) = i - 1)
          = CHOOSE t : t \in Nth(T, i - 1)
    BY <2>2, Zenon
  <2> QED
    BY <2>1, <2>3 DEF Chosen
<1>3. DOMAIN Sorted(T) = 1 .. Cardinality(T)
  BY DEF Sorted
<1>4. Sorted(T) \in [1 .. Cardinality(T) -> Range(Sorted(T))]
  BY <1>3 DEF Sorted, Range
<1>5. Sorted(T) \in Seq(Range(Sorted(T)))
  BY <1>1, <1>4
<1> QED
  BY <1>1, <1>2, <1>3, <1>5, LenProperties

\* Sets of times one after the other, sorted, are sorted together.
LEMMA SortedJoin ==
  ASSUME NEW A \in SUBSET Int, IsFiniteSet(A), NEW B \in SUBSET Int, IsFiniteSet(B),
         \A a \in A, b \in B : a < b
  PROVE  Sorted(A \cup B) = Sorted(A) \o Sorted(B)
<1> DEFINE U == A \cup B
           ca == Cardinality(A)
           cb == Cardinality(B)
<1>0. \A x, y \in Int : x < y => ~(y < x) /\ ~(y = x)
  OBVIOUS
<1>1. A \cap B = {}
  <2> SUFFICES ASSUME NEW x \in A, x \in B PROVE FALSE
    OBVIOUS
  <2>1. x < x
    OBVIOUS
  <2> QED
    BY <1>0, <2>1
<1>2. /\ IsFiniteSet(U) /\ Cardinality(U) = ca + cb /\ ca \in Nat /\ cb \in Nat
  <2>1. ca \in Nat /\ cb \in Nat /\ Cardinality({}) = 0
    BY FS_CardinalityType, FS_EmptySet
  <2>2. IsFiniteSet(U) /\ Cardinality(U) = ca + cb - Cardinality(A \cap B)
    BY FS_Union
  <2> HIDE DEF U, ca, cb
  <2>3. Cardinality(U) = ca + cb - 0
    BY <1>1, <2>1, <2>2
  <2> QED
    BY <2>1, <2>2, <2>3
<1>3. ASSUME NEW t \in A
      PROVE  /\ {u \in U : u < t} = {u \in A : u < t}
             /\ Cardinality({u \in U : u < t}) \in Nat
             /\ Cardinality({u \in U : u < t}) < ca
  <2> DEFINE low == {u \in A : u < t}
  <2>1. {u \in U : u < t} = low
    <3>1. \A u \in B : ~(u < t)
      BY <1>0
    <3> QED
      BY <3>1
  <2>2. low \in SUBSET A /\ t \notin low
    <3>1. ~(t < t)
      OBVIOUS
    <3> QED
      BY <3>1
  <2> HIDE DEF low
  <2>3. IsFiniteSet(low) /\ Cardinality(low) <= ca /\ Cardinality(low) # ca
    BY <2>2, FS_Subset
  <2>4. Cardinality(low) \in Nat
    BY <2>3, FS_CardinalityType
  <2>5. Cardinality(low) < ca
    BY <1>2, <2>3, <2>4
  <2> QED
    BY <2>1, <2>4, <2>5 DEF low
<1>4. ASSUME NEW t \in B
      PROVE  /\ Cardinality({u \in B : u < t}) \in Nat
             /\ Cardinality({u \in U : u < t}) = ca + Cardinality({u \in B : u < t})
  <2> DEFINE low == {u \in B : u < t}
  <2>1. {u \in U : u < t} = A \cup low
    OBVIOUS
  <2>2. low \in SUBSET B /\ A \cap low = {}
    BY <1>1
  <2> HIDE DEF low
  <2>3. IsFiniteSet(low)
    BY <2>2, FS_Subset
  <2>4. Cardinality(low) \in Nat /\ Cardinality(A \cup low) = ca + Cardinality(low)
    <3>1. Cardinality(low) \in Nat /\ Cardinality({}) = 0
      BY <2>3, FS_CardinalityType, FS_EmptySet
    <3>2. Cardinality(A \cup low) = ca + Cardinality(low) - Cardinality(A \cap low)
      BY <2>3, FS_Union
    <3> HIDE DEF ca
    <3>3. Cardinality(A \cup low) = ca + Cardinality(low) - 0
      BY <2>2, <3>1, <3>2
    <3> QED
      BY <1>2, <3>1, <3>3
  <2> QED
    BY <2>1, <2>4 DEF low
<1>5. ASSUME NEW i \in 1 .. ca PROVE Nth(U, i - 1) = Nth(A, i - 1)
  <2>1. \A t \in B : Cardinality({u \in U : u < t}) # i - 1
    <3>1. \A n \in Nat : ca + n # i - 1
      BY <1>2
    <3> QED
      BY <1>4, <3>1
  <2> QED
    BY <1>3, <2>1 DEF Nth
<1>6. ASSUME NEW i \in 1 .. cb PROVE Nth(U, ca + i - 1) = Nth(B, i - 1)
  <2>1. \A t \in A : Cardinality({u \in U : u < t}) # ca + i - 1
    <3>1. \A n \in Nat : n < ca => n # ca + i - 1
      BY <1>2
    <3> QED
      BY <1>3, <3>1
  <2>2. \A n \in Nat : ca + n = ca + i - 1 <=> n = i - 1
    BY <1>2
  <2>3. \A t \in B : Cardinality({u \in U : u < t}) = ca + i - 1
                       <=> Cardinality({u \in B : u < t}) = i - 1
    BY <1>4, <2>2
  <2> QED
    BY <2>1, <2>3 DEF Nth
<1> HIDE DEF U
<1>7. PICK SA : Sorted(A) \in Seq(SA)
  BY SortedIs
<1>8. PICK SB : Sorted(B) \in Seq(SB)
  BY SortedIs
<1>9. PICK SU : Sorted(U) \in Seq(SU)
  BY <1>2, SortedIs
<1> DEFINE S == SA \cup SB \cup SU
<1>10. Sorted(A) \in Seq(S) /\ Sorted(B) \in Seq(S) /\ Sorted(U) \in Seq(S)
  BY <1>7, <1>8, <1>9
<1> HIDE DEF S
<1>11. /\ Len(Sorted(A)) = ca /\ Len(Sorted(B)) = cb /\ Len(Sorted(U)) = ca + cb
       /\ \A i \in 1 .. ca : Sorted(A)[i] = Chosen(Nth(A, i - 1))
       /\ \A i \in 1 .. cb : Sorted(B)[i] = Chosen(Nth(B, i - 1))
       /\ \A i \in 1 .. ca + cb : Sorted(U)[i] = Chosen(Nth(U, i - 1))
  BY <1>2, SortedIs
<1>12. /\ Sorted(A) \o Sorted(B) \in Seq(S)
       /\ Len(Sorted(A) \o Sorted(B)) = ca + cb
       /\ \A i \in 1 .. ca + cb : (Sorted(A) \o Sorted(B))[i] =
            IF i <= ca THEN Sorted(A)[i] ELSE Sorted(B)[i - ca]
  <2> DEFINE J == Sorted(A) \o Sorted(B)
  <2>1. /\ J \in Seq(S) /\ Len(J) = Len(Sorted(A)) + Len(Sorted(B))
        /\ \A i \in 1 .. Len(Sorted(A)) + Len(Sorted(B)) : J[i] =
             IF i <= Len(Sorted(A)) THEN Sorted(A)[i] ELSE Sorted(B)[i - Len(Sorted(A))]
    BY <1>10, ConcatProperties
  <2> HIDE DEF J, ca, cb
  <2>2. /\ Len(J) = ca + cb
        /\ \A i \in 1 .. ca + cb : J[i] = IF i <= ca THEN Sorted(A)[i] ELSE Sorted(B)[i - ca]
    BY <1>11, <2>1
  <2> QED
    BY <2>1, <2>2 DEF J
<1>13. ASSUME NEW i \in 1 .. ca + cb
       PROVE  Sorted(U)[i] = (Sorted(A) \o Sorted(B))[i]
  <2>1. CASE i <= ca
    <3>1. i \in 1 .. ca
      BY <1>2, <2>1
    <3> QED
      BY <1>5, <1>11, <1>12, <2>1, <3>1
  <2>2. CASE ~(i <= ca)
    <3>1. i - ca \in 1 .. cb /\ ca + (i - ca) - 1 = i - 1
      BY <1>2, <2>2
    <3>2. Nth(U, i - 1) = Nth(B, i - ca - 1)
      BY <1>6, <3>1
    <3> QED
      BY <1>11, <1>12, <2>2, <3>1, <3>2
  <2> QED
    BY <2>1, <2>2
<1>14. Sorted(U) = Sorted(A) \o Sorted(B)
  BY <1>10, <1>11, <1>12, <1>13, SeqEqual
<1> QED
  BY <1>14 DEF U

\* One time sorted, and a later one at the end.
LEMMA SortedAppend ==
  ASSUME NEW A \in SUBSET Int, IsFiniteSet(A), NEW x \in Int, \A a \in A : a < x
  PROVE  Sorted(A \cup {x}) = Append(Sorted(A), x)
<1>1. IsFiniteSet({x}) /\ Cardinality({x}) = 1
  BY FS_Singleton
<1>2. Sorted(A \cup {x}) = Sorted(A) \o Sorted({x})
  BY <1>1, SortedJoin
<1>3. {u \in {x} : u < x} = {}
  OBVIOUS
<1>4. Nth({x}, 0) = {x}
  BY <1>3, FS_EmptySet DEF Nth
<1>5. PICK S : Sorted({x}) \in Seq(S)
  BY <1>1, SortedIs
<1>6. Len(Sorted({x})) = 1 /\ Sorted({x})[1] = Chosen(Nth({x}, 0))
  <2>1. \A i \in 1 .. 1 : Sorted({x})[i] = Chosen(Nth({x}, i - 1))
    BY <1>1, SortedIs
  <2>2. 1 \in 1 .. 1 /\ 1 - 1 = 0
    OBVIOUS
  <2>3. Sorted({x})[1] = Chosen(Nth({x}, 1 - 1))
    BY <2>1, <2>2
  <2> QED
    BY <1>1, <2>2, <2>3, SortedIs
<1>7. Sorted({x}) = <<x>>
  <2>1. Chosen({x}) = x
    BY DEF Chosen
  <2>2. Len(Sorted({x})) = 1 /\ Sorted({x})[1] = x
    BY <1>4, <1>6, <2>1
  <2>3. Sorted({x}) \in Seq(S \cup {x}) /\ <<x>> \in Seq(S \cup {x})
    BY <1>5
  <2>4. Len(<<x>>) = 1 /\ <<x>>[1] = x
    OBVIOUS
  <2>5. \A i \in 1 .. Len(Sorted({x})) : Sorted({x})[i] = <<x>>[i]
    BY <2>2, <2>4
  <2> QED
    BY <2>2, <2>3, <2>4, <2>5, SeqEqual
<1>8. PICK R : Sorted(A) \in Seq(R)
  BY SortedIs
<1>9. Sorted(A) \in Seq(R \cup {x})
  BY <1>8
<1>10. x \in R \cup {x}
  OBVIOUS
<1>11. Append(Sorted(A), x) = Sorted(A) \o <<x>>
  BY <1>9, <1>10, AppendIsConcat
<1> QED
  BY <1>2, <1>7, <1>11

-----------------------------------------------------------------------------
(* The pieces of a range                                                   *)

\* Rounding a division up: the multiple reaches what was divided, and meets it
\* only where nothing is left over.
LEMMA RoundedUp ==
  ASSUME NEW d \in Nat, NEW m \in Nat \ {0}
  PROVE  LET n == (d + m - 1) \div m
         IN  /\ n \in Nat /\ d <= n * m
             /\ n * m = d <=> d % m = 0
<1> DEFINE n == (d + m - 1) \div m
           q == d \div m
           e == d % m
<1>1. /\ n \in Int /\ n * m <= d + m - 1 /\ d + m - 1 < n * m + m
  <2> DEFINE a == d + m - 1
             b == a % m
  <2>1. a \in Int /\ n \in Int /\ b \in Int /\ 0 <= b /\ b < m
    OBVIOUS
  <2>2. a = m * n + b
    OBVIOUS
  <2> HIDE DEF n, b
  <2>3. m * n = n * m /\ n * m \in Int
    BY <2>1
  <2> QED
    BY <2>1, <2>2, <2>3
<1>2. q \in Int /\ e \in Int /\ 0 <= e /\ e < m /\ d = m * q + e
  OBVIOUS
<1> HIDE DEF n, q, e
<1>3. \A a, b \in Int : a < b => a * m + m <= b * m
  <2> SUFFICES ASSUME NEW a \in Int, NEW b \in Int, a < b PROVE a * m + m <= b * m
    OBVIOUS
  <2>1. b - a - 1 \in Nat
    OBVIOUS
  <2>2. \A x, y \in Nat : x * y \in Nat
    OBVIOUS
  <2>3. (b - a - 1) * m \in Nat
    BY <2>1, <2>2
  <2>4. (b - a - 1) * m = b * m - a * m - m
    OBVIOUS
  <2>5. a * m \in Int /\ b * m \in Int
    OBVIOUS
  <2> QED
    BY <2>3, <2>4, <2>5
<1>4. n * m \in Int /\ q * m \in Int /\ m * q = q * m
  BY <1>1, <1>2
<1>5. d <= n * m
  BY <1>1, <1>4
<1>6. n \in Nat
  <2>1. n < 0 => n * m + m <= 0 * m
    BY <1>1, <1>3
  <2> QED
    BY <1>1, <1>4, <2>1
<1>7. n * m = d => e = 0
  <2> SUFFICES ASSUME n * m = d PROVE e = 0
    OBVIOUS
  <2>1. n * m = q * m + e
    BY <1>2, <1>4
  <2>2. n < q => n * m + m <= q * m
    BY <1>1, <1>2, <1>3
  <2>3. q < n => q * m + m <= n * m
    BY <1>1, <1>2, <1>3
  <2>4. n = q
    BY <1>1, <1>2, <1>4, <2>1, <2>2, <2>3
  <2> QED
    BY <1>2, <1>4, <2>1, <2>4
<1>8. e = 0 => n * m = d
  <2> SUFFICES ASSUME e = 0 PROVE n * m = d
    OBVIOUS
  <2>1. d = q * m
    BY <1>2, <1>4
  <2>2. q < n => q * m + m <= n * m
    BY <1>1, <1>2, <1>3
  <2>3. n < q => n * m + m <= q * m
    BY <1>1, <1>2, <1>3
  <2>4. n = q
    BY <1>1, <1>2, <1>4, <2>1, <2>2, <2>3
  <2> QED
    BY <2>1, <2>4
<1> QED
  BY <1>5, <1>6, <1>7, <1>8 DEF n, e

\* The pieces of a range: where they begin and end, and how many there are.
LEMMA ChunksAre ==
  ASSUME NEW from \in Int, NEW to \in Int, NEW maxDays \in Nat
  PROVE  LET c == DateChunks(from, to, maxDays)
             m == maxDays + 1
         IN  /\ Len(c) \in Nat
             /\ \A i \in 1 .. Len(c) :
                  c[i] = [from |-> from + (i - 1) * m,
                          to |-> IF from + (i - 1) * m + maxDays < to
                                 THEN from + (i - 1) * m + maxDays ELSE to]
             /\ from >= to => Len(c) = 0
             /\ from < to => /\ to - from <= Len(c) * m
                             /\ Len(c) * m = to - from <=> (to - from) % m = 0
<1> DEFINE m == maxDays + 1
           n == IF from >= to THEN 0 ELSE (to - from + m - 1) \div m
           piece(i) == [from |-> from + (i - 1) * m,
                        to |-> IF from + (i - 1) * m + maxDays < to
                               THEN from + (i - 1) * m + maxDays ELSE to]
           c == DateChunks(from, to, maxDays)
<1>1. c = [i \in 1 .. n |-> piece(i)]
  BY DEF DateChunks, Stride
<1>2. /\ n \in Nat
      /\ from < to => /\ to - from <= n * m
                      /\ n * m = to - from <=> (to - from) % m = 0
  <2>1. CASE from >= to
    <3>1. ~(from < to)
      BY <2>1
    <3> QED
      BY <2>1, <3>1
  <2>2. CASE ~(from >= to)
    <3>1. to - from \in Nat /\ m \in Nat \ {0}
      BY <2>2
    <3> QED
      BY <2>2, <3>1, RoundedUp
  <2> QED
    BY <2>1, <2>2
<1>3. from >= to => n = 0
  OBVIOUS
<1> HIDE DEF n
<1> DEFINE S == {piece(j) : j \in 1 .. n}
<1>4. \A i \in 1 .. n : piece(i) \in S
  OBVIOUS
<1> HIDE DEF piece, S, c
<1>5. c \in [1 .. n -> S]
  BY <1>1, <1>4
<1>51. c \in Seq(S) /\ DOMAIN c = 1 .. n
  BY <1>2, <1>5
<1>6. Len(c) = n
  BY <1>2, <1>51, LenProperties
<1>7. \A i \in 1 .. n : c[i] = piece(i)
  BY <1>1
<1> QED
  <2>1. \A i \in 1 .. Len(c) : c[i] = piece(i)
    BY <1>6, <1>7
  <2>2. /\ Len(c) \in Nat
        /\ from >= to => Len(c) = 0
        /\ from < to => /\ to - from <= Len(c) * m
                        /\ Len(c) * m = to - from <=> (to - from) % m = 0
    BY <1>2, <1>3, <1>6
  <2> QED
    BY <2>1, <2>2 DEF piece, c

\* The bars of the first k pieces.
Covered(s, k) ==
  {t \in s.listed : s.from <= t /\ t <= s.to /\ t < s.from + k * (s.maxDays + 1)}

PiecesOf(s) == DateChunks(s.from, s.to, s.maxDays)

\* Nothing is covered by no piece.
LEMMA NoneCovered == ASSUME NEW s \in MdSettings PROVE Sorted(Covered(s, 0)) = <<>>
<1>1. s.from \in Int /\ s.maxDays \in Nat /\ s.listed \subseteq Int
  BY MarketDataAssumption
<1>2. 0 * (s.maxDays + 1) = 0
  BY <1>1
<1>3. \A t \in Int : ~(s.from <= t /\ t < s.from + 0)
  BY <1>1
<1>4. Covered(s, 0) = {}
  BY <1>1, <1>2, <1>3 DEF Covered
<1>5. IsFiniteSet({}) /\ Cardinality({}) = 0
  BY FS_EmptySet
<1>6. Len(Sorted({})) = 0 /\ \E S : Sorted({}) \in Seq(S)
  BY <1>5, SortedIs
<1>7. Sorted({}) = <<>>
  BY <1>6, EmptySeq
<1> QED
  BY <1>4, <1>7

\* A piece brings the bars that come after those of the pieces before it.
LEMMA MoreCovered ==
  ASSUME NEW s \in MdSettings, NEW k \in 1 .. Len(PiecesOf(s))
  PROVE  Sorted(Covered(s, k)) =
           Sorted(Covered(s, k - 1))
             \o Sorted(Within(s.listed, PiecesOf(s)[k].from, PiecesOf(s)[k].to))
<1> DEFINE m == s.maxDays + 1
           A == Covered(s, k - 1)
           B == Within(s.listed, PiecesOf(s)[k].from, PiecesOf(s)[k].to)
           low == s.from + (k - 1) * m
           high == s.from + k * m
<1>1. /\ s.from \in Int /\ s.to \in Int /\ s.maxDays \in Nat
      /\ s.listed \subseteq Int /\ IsFiniteSet(s.listed)
  BY MarketDataAssumption
<1>2. /\ PiecesOf(s)[k].from = low
      /\ PiecesOf(s)[k].to = IF low + s.maxDays < s.to THEN low + s.maxDays ELSE s.to
      /\ k \in Int /\ 1 <= k
  <2>1. \A i \in 1 .. Len(PiecesOf(s)) : PiecesOf(s)[i] =
          [from |-> s.from + (i - 1) * m,
           to |-> IF s.from + (i - 1) * m + s.maxDays < s.to
                  THEN s.from + (i - 1) * m + s.maxDays ELSE s.to]
    BY <1>1, ChunksAre DEF PiecesOf
  <2>2. k \in Int /\ 1 <= k
    OBVIOUS
  <2>3. PiecesOf(s)[k] = [from |-> low, to |-> IF low + s.maxDays < s.to
                                              THEN low + s.maxDays ELSE s.to]
    BY <2>1
  <2> HIDE DEF low
  <2> QED
    BY <2>2, <2>3
<1>3. low \in Int /\ high \in Int /\ m \in Int /\ s.from <= low
  <2>1. \A x, y \in Nat : x * y \in Nat
    OBVIOUS
  <2>2. k - 1 \in Nat /\ k \in Nat /\ m \in Nat
    <3>1. \A x \in Int : 1 <= x => x - 1 \in Nat /\ x \in Nat
      OBVIOUS
    <3>2. k \in Int /\ 1 <= k
      BY <1>2
    <3>3. m \in Nat
      BY <1>1
    <3> QED
      BY <3>1, <3>2, <3>3
  <2>3. (k - 1) * m \in Nat /\ k * m \in Nat
    BY <2>1, <2>2
  <2> DEFINE x == (k - 1) * m
             y == k * m
  <2>4. low = s.from + x /\ high = s.from + y /\ x \in Nat /\ y \in Nat
    BY <2>3
  <2> HIDE DEF x, y, low, high
  <2> QED
    BY <1>1, <2>2, <2>4
<1>4. high = low + m
  <2>1. \A x, y \in Int : x * y = (x - 1) * y + y /\ (x - 1) * y \in Int
    OBVIOUS
  <2>2. k * m = (k - 1) * m + m /\ (k - 1) * m \in Int
    BY <1>2, <1>3, <2>1
  <2> DEFINE x == (k - 1) * m
             y == k * m
  <2>3. low = s.from + x /\ high = s.from + y /\ x \in Int /\ y = x + m
    BY <2>2
  <2> HIDE DEF x, y, low, high, m
  <2> QED
    BY <1>1, <1>3, <2>3
<1>5. /\ A = {t \in s.listed : s.from <= t /\ t <= s.to /\ t < low}
      /\ Covered(s, k) = {t \in s.listed : s.from <= t /\ t <= s.to /\ t < high}
  BY DEF Covered
<1> HIDE DEF A, low, high
<1>6. B = {t \in s.listed : low <= t /\ t <= s.to /\ t < high}
  <2>1. B = {t \in s.listed : PiecesOf(s)[k].from <= t /\ t <= PiecesOf(s)[k].to}
    BY DEF Within
  <2> HIDE DEF B
  <2>2. \A t \in Int : low <= t /\ t <= PiecesOf(s)[k].to <=> low <= t /\ t <= s.to /\ t < high
    BY <1>1, <1>2, <1>3, <1>4
  <2> QED
    BY <1>1, <1>2, <2>1, <2>2
<1> HIDE DEF B
<1>7. /\ A \in SUBSET Int /\ B \in SUBSET Int /\ IsFiniteSet(A) /\ IsFiniteSet(B)
      /\ \A a \in A, b \in B : a < b
  <2>1. A \in SUBSET s.listed /\ B \in SUBSET s.listed
    BY <1>5, <1>6
  <2>2. \A a, b \in Int : a < low /\ low <= b => a < b
    BY <1>3
  <2> QED
    BY <1>1, <1>5, <1>6, <2>1, <2>2, FS_Subset
<1>8. Covered(s, k) = A \cup B
  <2>1. \A t \in Int :
          s.from <= t /\ t <= s.to /\ t < high
            <=> \/ s.from <= t /\ t <= s.to /\ t < low
                \/ low <= t /\ t <= s.to /\ t < high
    <3>1. low <= high
      BY <1>1, <1>3, <1>4
    <3> QED
      BY <1>1, <1>3, <3>1
  <2> QED
    BY <1>1, <1>5, <1>6, <2>1
<1>9. Sorted(A \cup B) = Sorted(A) \o Sorted(B)
  BY <1>7, SortedJoin
<1> QED
  BY <1>8, <1>9 DEF A, B

\* All pieces together cover what was promised.
LEMMA AllCovered ==
  ASSUME md.setting \in MdSettings
  PROVE  Covered(md.setting, Len(PiecesOf(md.setting))) = Promised
<1> DEFINE s == md.setting
           n == Len(PiecesOf(s))
           m == s.maxDays + 1
<1>1. /\ s.from \in Int /\ s.to \in Int /\ s.maxDays \in Nat
      /\ s.listed \subseteq Int
  BY MarketDataAssumption
<1>2. /\ n \in Nat
      /\ s.from >= s.to => n = 0
      /\ s.from < s.to => /\ s.to - s.from <= n * m
                          /\ n * m = s.to - s.from <=> (s.to - s.from) % m = 0
  BY <1>1, ChunksAre DEF PiecesOf
<1>3. Promised = {t \in s.listed : /\ s.from <= t /\ t <= s.to
                                   /\ t < s.to \/ (s.to - s.from) % m # 0}
  BY DEF Promised, Within
<1>4. Covered(s, n) = {t \in s.listed : s.from <= t /\ t <= s.to /\ t < s.from + n * m}
  BY DEF Covered
<1> HIDE DEF s, n
<1>5. n * m \in Int
  BY <1>1, <1>2
<1>6. ASSUME NEW t \in Int, s.from <= t, t <= s.to
      PROVE  t < s.from + n * m <=> (t < s.to \/ (s.to - s.from) % m # 0)
  <2>1. CASE s.from < s.to
    <3> DEFINE e == (s.to - s.from) % m
               p == n * m
    <3>1. /\ s.to - s.from <= p
          /\ p = s.to - s.from <=> e = 0
          /\ p \in Int
      BY <1>2, <1>5, <2>1
    <3> HIDE DEF e, p
    <3>2. t < s.from + p <=> (t < s.to \/ e # 0)
      <4>1. CASE e = 0
        BY <1>1, <1>6, <3>1, <4>1
      <4>2. CASE e # 0
        BY <1>1, <1>6, <3>1, <4>2
      <4> QED
        BY <4>1, <4>2
    <3> QED
      BY <3>2 DEF e, p
  <2>2. CASE ~(s.from < s.to)
    <3>1. s.from = t /\ s.to = t /\ n = 0
      BY <1>1, <1>2, <1>6, <2>2
    <3>2. n * m = 0 /\ (s.to - s.from) % m = 0
      <4>1. s.to - s.from = 0
        BY <1>1, <3>1
      <4>2. \A x \in Nat \ {0} : 0 % x = 0 /\ 0 * x = 0
        OBVIOUS
      <4>3. m \in Nat \ {0}
        BY <1>1
      <4> QED
        BY <3>1, <4>1, <4>2, <4>3
    <3>3. ~(t < s.to) /\ ~(t < s.from + 0)
      BY <3>1
    <3> QED
      BY <3>2, <3>3
  <2> QED
    BY <2>1, <2>2
<1>7. Covered(s, n) = Promised
  BY <1>1, <1>3, <1>4, <1>6
<1> QED
  BY <1>7 DEF s, n

-----------------------------------------------------------------------------
(* The invariant of a poll                                                 *)

Symbols == Range(PollSymbols)
FailedOnes == {i \in DOMAIN md.records : ~md.records[i].success}

MdType ==
  /\ DOMAIN md = {"setting", "todo", "records", "errors", "ask"}
  /\ DOMAIN md.ask = {"pc", "calls", "attempt", "tries", "chunk", "bars"}
  /\ md.setting \in MdSettings
  /\ md.todo \in Seq(Symbols) /\ md.errors \in Seq(Symbols)
  /\ \E S : md.records \in Seq(S)

\* The records are of the symbols before those still to do, in their order; the
\* errors are the symbols of the records without success, which have an order.
InTurn ==
  /\ Len(md.records) + Len(md.todo) = Len(PollSymbols)
  /\ \A i \in 1 .. Len(md.records) : md.records[i].symbol = PollSymbols[i]
  /\ \A i \in 1 .. Len(md.todo) : md.todo[i] = PollSymbols[Len(md.records) + i]
  /\ \A j \in 1 .. Cardinality(FailedOnes) : Sorted(FailedOnes)[j] \in FailedOnes
  /\ Len(md.errors) = Cardinality(FailedOnes)
  /\ \A j \in 1 .. Cardinality(FailedOnes) :
       md.errors[j] = md.records[Sorted(FailedOnes)[j]].symbol

RecordOK(r) ==
  /\ r.success /\ r.source = "history" /\ Zerodha => r.bars = Sorted(Promised)
  /\ r.source = "live" => SupportsWorkflow(md.setting.provider, TRUE)

\* How far the question about the first symbol has come: the bars of the pieces
\* so far, and no more calls than the attempts so far.
Asking ==
  /\ Ask.pc \in {"next", "live", "history", "quote", "csv", "chunks", "upstox", "dhan"}
  /\ Ask.pc # "next" => md.todo # <<>>
  /\ Ask.pc \notin {"quote", "chunks"} => md.ask = [Asked EXCEPT !.pc = Ask.pc]
  /\ Ask.pc \in {"csv", "upstox", "dhan"} => ~Zerodha
  /\ Ask.attempt \in 1 .. md.setting.retries + 1 /\ Ask.calls \in Nat
  /\ Ask.pc = "quote" =>
       /\ SupportsWorkflow(md.setting.provider, TRUE)
       /\ Ask.tries \in 1 .. 5
       /\ Ask.calls <= (md.setting.retries + 1) * (Ask.tries - 1) + Ask.attempt - 1
  /\ Ask.pc = "chunks" =>
       /\ Zerodha
       /\ Ask.chunk \in 1 .. Len(Chunks) + 1
       /\ Ask.chunk > Len(Chunks) => Ask.attempt = 1
       /\ Ask.calls <= (md.setting.retries + 1) * (Ask.chunk - 1) + Ask.attempt - 1
       /\ Ask.bars = Sorted(Covered(md.setting, Ask.chunk - 1))

MdInv ==
  /\ MdType /\ InTurn /\ Asking
  /\ \A i \in 1 .. Len(md.records) : RecordOK(md.records[i])

\* Nobody has asked for the first symbol.
LEMMA MdInitInv == MdInit => MdInv
<1> SUFFICES ASSUME MdInit PROVE MdInv
  OBVIOUS
<1>1. PICK s \in MdSettings :
        md = [setting |-> s, todo |-> PollSymbols, records |-> <<>>, errors |-> <<>>,
              ask |-> Asked]
  BY DEF MdInit
<1>2. /\ DOMAIN md = {"setting", "todo", "records", "errors", "ask"}
      /\ md.setting = s /\ md.todo = PollSymbols /\ md.records = <<>> /\ md.errors = <<>>
      /\ md.ask = Asked
  BY <1>1
<1>3. /\ DOMAIN Asked = {"pc", "calls", "attempt", "tries", "chunk", "bars"}
      /\ Asked.pc = "next" /\ Asked.attempt = 1 /\ Asked.calls = 0
      /\ Asked = [Asked EXCEPT !.pc = "next"]
  BY DEF Asked
<1>4. /\ PollSymbols \in Seq(Symbols) /\ s.retries \in Nat
  BY MarketDataAssumption DEF Symbols
<1>5. MdType
  <2>1. <<>> \in Seq(Symbols)
    OBVIOUS
  <2> QED
    BY <1>2, <1>3, <1>4, <2>1 DEF MdType
<1>6. InTurn
  <2>1. FailedOnes = {}
    BY <1>2 DEF FailedOnes
  <2>2. Cardinality(FailedOnes) = 0
    BY <2>1, FS_EmptySet
  <2>3. Len(<<>>) = 0 /\ Len(PollSymbols) \in Nat
    BY <1>4
  <2>4. \A i \in Int : i \notin 1 .. 0
    OBVIOUS
  <2>5. \A i \in 1 .. Len(PollSymbols) : PollSymbols[i] = PollSymbols[0 + i]
    OBVIOUS
  <2> QED
    BY <1>2, <2>2, <2>3, <2>4, <2>5 DEF InTurn
<1>7. Asking
  <2>1. Ask = Asked /\ Ask.pc = "next"
    BY <1>2, <1>3 DEF Ask
  <2> QED
    BY <1>2, <1>3, <1>4, <2>1 DEF Asking, Ask
<1>8. \A i \in 1 .. Len(md.records) : RecordOK(md.records[i])
  BY <1>2
<1> QED
  BY <1>5, <1>6, <1>7, <1>8 DEF MdInv

\* A record of the first symbol, without success or true.
LEMMA RecordKeeps ==
  ASSUME MdInv, md.todo # <<>>, NEW success \in BOOLEAN, NEW source, NEW bars,
         Record(success, source, bars),
         success /\ source = "history" /\ Zerodha => bars = Sorted(Promised),
         source = "live" => SupportsWorkflow(md.setting.provider, TRUE)
  PROVE  MdInv'
<1> DEFINE record == [symbol |-> Head(md.todo), success |-> success, source |-> source,
                      bars |-> bars]
<1>0. PICK n, l : n = Len(md.records) /\ l = Len(md.todo)
  OBVIOUS
<1>1. /\ DOMAIN md' = DOMAIN md
      /\ md'.setting = md.setting /\ md'.todo = Tail(md.todo) /\ md'.ask = Asked
      /\ md'.records = Append(md.records, record)
      /\ md'.errors = IF success THEN md.errors ELSE Append(md.errors, Head(md.todo))
  BY DEF Record, MdInv, MdType
<1>2. /\ record.symbol = Head(md.todo) /\ record.success = success
      /\ record.source = source /\ record.bars = bars
  OBVIOUS
<1> HIDE DEF record
<1>3. PICK S : md.records \in Seq(S)
  BY DEF MdInv, MdType
<1>4. /\ md'.records \in Seq(S \cup {record}) /\ Len(md'.records) = n + 1 /\ n \in Nat
      /\ \A i \in 1 .. n : md'.records[i] = md.records[i]
      /\ md'.records[n + 1] = record
  <2>1. md.records \in Seq(S \cup {record}) /\ record \in S \cup {record}
    BY <1>3
  <2> QED
    BY <1>0, <1>1, <2>1, AppendProperties, LenProperties
<1>5. /\ Head(md.todo) \in Symbols /\ Tail(md.todo) \in Seq(Symbols)
      /\ Len(Tail(md.todo)) = l - 1 /\ l \in Nat \ {0}
      /\ Head(md.todo) = md.todo[1]
      /\ \A i \in 1 .. l - 1 : Tail(md.todo)[i] = md.todo[i + 1]
  <2>1. md.todo \in Seq(Symbols)
    BY DEF MdInv, MdType
  <2> QED
    BY <1>0, <2>1, HeadTailProperties, EmptySeq DEF Head
<1>6. /\ md'.errors \in Seq(Symbols)
      /\ ~success => /\ Len(md'.errors) = Len(md.errors) + 1
                     /\ \A j \in 1 .. Len(md.errors) : md'.errors[j] = md.errors[j]
                     /\ md'.errors[Len(md.errors) + 1] = Head(md.todo)
  <2>1. md.errors \in Seq(Symbols)
    BY DEF MdInv, MdType
  <2> QED
    BY <1>1, <1>5, <2>1, AppendProperties
<1>7. /\ DOMAIN Asked = {"pc", "calls", "attempt", "tries", "chunk", "bars"}
      /\ Asked.pc = "next" /\ Asked.attempt = 1 /\ Asked.calls = 0
      /\ Asked = [Asked EXCEPT !.pc = "next"]
  BY DEF Asked
<1>8. MdType'
  BY <1>1, <1>4, <1>5, <1>6, <1>7 DEF MdInv, MdType
<1>9. Asking'
  <2>1. Ask' = Asked /\ Ask'.pc = "next"
    BY <1>1, <1>7 DEF Ask
  <2>2. md.setting.retries \in Nat
    BY MarketDataAssumption DEF MdInv, MdType
  <2> QED
    BY <1>1, <1>7, <2>1, <2>2 DEF Asking, Ask
<1>10. (\A i \in 1 .. Len(md.records) : RecordOK(md.records[i]))'
  <2>1. Promised' = Promised /\ (Zerodha' <=> Zerodha)
    BY <1>1 DEF Promised, Zerodha
  <2>2. \A r : RecordOK(r) => (RecordOK(r))'
    BY <1>1, <2>1 DEF RecordOK
  <2>3. RecordOK(record)
    BY <1>2 DEF RecordOK
  <2>4. \A i \in 1 .. n + 1 : i \in 1 .. n \/ i = n + 1
    BY <1>4
  <2>5. \A i \in 1 .. n : RecordOK(md.records[i])
    BY <1>0 DEF MdInv
  <2>6. /\ Len(md'.records) = n + 1
        /\ \A i \in 1 .. n + 1 : RecordOK(md'.records[i])
    BY <1>4, <2>3, <2>4, <2>5
  <2> QED
    BY <2>2, <2>6
<1>11. InTurn'
  <2>0. n \in Nat /\ l \in Nat \ {0}
    BY <1>4, <1>5
  <2>1. /\ n + l = Len(PollSymbols)
        /\ \A i \in 1 .. n : md.records[i].symbol = PollSymbols[i]
        /\ \A i \in 1 .. l : md.todo[i] = PollSymbols[n + i]
        /\ \A j \in 1 .. Cardinality(FailedOnes) : Sorted(FailedOnes)[j] \in FailedOnes
        /\ Len(md.errors) = Cardinality(FailedOnes)
        /\ \A j \in 1 .. Cardinality(FailedOnes) :
             md.errors[j] = md.records[Sorted(FailedOnes)[j]].symbol
    BY <1>0 DEF MdInv, InTurn
  <2>2. Head(md.todo) = PollSymbols[n + 1]
    <3>1. 1 \in 1 .. l
      BY <2>0
    <3>2. \A i \in 1 .. l : md.todo[i] = PollSymbols[n + i]
      BY <2>1
    <3>3. md.todo[1] = PollSymbols[n + 1]
      BY <3>1, <3>2
    <3> QED
      BY <1>5, <3>3
  <2>3. Len(md'.records) + Len(md'.todo) = Len(PollSymbols)
    <3>1. Len(md'.records) = n + 1
      BY <1>4
    <3>2. Len(md'.todo) = l - 1
      BY <1>1, <1>5
    <3>3. n + 1 + (l - 1) = n + l
      BY <2>0
    <3>4. n + l = Len(PollSymbols)
      BY <2>1
    <3> QED
      BY <3>1, <3>2, <3>3, <3>4
  <2>4. \A i \in 1 .. Len(md'.records) : md'.records[i].symbol = PollSymbols[i]
    <3>1. \A i \in 1 .. n + 1 : i \in 1 .. n \/ i = n + 1
      BY <1>4
    <3> QED
      BY <1>2, <1>4, <2>1, <2>2, <3>1
  <2>5. \A i \in 1 .. Len(md'.todo) : md'.todo[i] = PollSymbols[Len(md'.records) + i]
    <3> SUFFICES ASSUME NEW i \in 1 .. l - 1
                 PROVE  Tail(md.todo)[i] = PollSymbols[n + 1 + i]
      BY <1>1, <1>4, <1>5
    <3>1. i + 1 \in 1 .. l /\ n + 1 + i = n + (i + 1)
      BY <2>0
    <3>2. \A m \in 1 .. l : md.todo[m] = PollSymbols[n + m]
      BY <2>1
    <3>3. md.todo[i + 1] = PollSymbols[n + (i + 1)]
      BY <3>1, <3>2
    <3>4. Tail(md.todo)[i] = md.todo[i + 1]
      BY <1>5
    <3> QED
      BY <3>1, <3>3, <3>4
  <2>6. DOMAIN md.records = 1 .. n /\ DOMAIN md'.records = 1 .. n + 1
    <3>1. DOMAIN md.records = 1 .. n
      BY <1>0, <1>3, LenProperties
    <3>2. DOMAIN md'.records = 1 .. Len(md'.records)
      BY <1>4, LenProperties
    <3>3. Len(md'.records) = n + 1
      BY <1>4
    <3> QED
      BY <3>1, <3>2, <3>3
  <2>7. /\ FailedOnes \in SUBSET Int /\ IsFiniteSet(FailedOnes)
        /\ \A i \in FailedOnes : i < n + 1 /\ i \in 1 .. n
    <3>1. FailedOnes \in SUBSET (1 .. n)
      BY <2>6 DEF FailedOnes
    <3>2. IsFiniteSet(1 .. n)
      BY <1>4, FS_Interval
    <3>3. IsFiniteSet(FailedOnes)
      BY <3>1, <3>2, FS_Subset
    <3>4. \A i \in 1 .. n : i < n + 1 /\ i \in Int
      BY <1>4
    <3> QED
      BY <3>1, <3>3, <3>4
  <2> DEFINE F == FailedOnes
             c == Cardinality(F)
  <2>8. c \in Nat
    BY <2>7, FS_CardinalityType
  <2>9. CASE success
    <3>1. FailedOnes' = F
      <4>1. \A i \in 1 .. n + 1 : i \in 1 .. n \/ i = n + 1
        BY <1>4
      <4>2. \A i \in 1 .. n : i \in 1 .. n + 1
        BY <1>4
      <4> QED
        BY <1>2, <1>4, <2>6, <2>9, <4>1, <4>2 DEF FailedOnes
    <3>2. \A j \in 1 .. c : md'.records[Sorted(F)[j]] = md.records[Sorted(F)[j]]
      BY <1>4, <2>1, <2>7
    <3>3. md'.errors = md.errors
      BY <1>1, <2>9
    <3> HIDE DEF F
    <3> QED
      BY <2>1, <2>3, <2>4, <2>5, <3>1, <3>2, <3>3 DEF InTurn, F
  <2>10. CASE ~success
    <3>1. FailedOnes' = F \cup {n + 1}
      <4>1. \A i \in 1 .. n + 1 : i \in 1 .. n \/ i = n + 1
        BY <1>4
      <4>2. /\ \A i \in 1 .. n : i \in 1 .. n + 1
            /\ n + 1 \in 1 .. n + 1
        BY <1>4
      <4> QED
        BY <1>2, <1>4, <2>6, <2>10, <4>1, <4>2 DEF FailedOnes
    <3>2. Sorted(F \cup {n + 1}) = Append(Sorted(F), n + 1)
      <4>1. n + 1 \in Int
        BY <1>4
      <4> HIDE DEF F
      <4> QED
        BY <2>7, <4>1, SortedAppend DEF F
    <3>3. n + 1 \notin F
      <4>1. \A i \in Int : ~(i < i)
        OBVIOUS
      <4> QED
        BY <1>4, <2>7, <4>1
    <3>4. Cardinality(F \cup {n + 1}) = c + 1
      BY <2>7, <3>3, FS_AddElement
    <3>5. PICK R : Sorted(F) \in Seq(R)
      BY <2>7, SortedIs
    <3>6. Len(Sorted(F)) = c
      BY <2>7, SortedIs
    <3> DEFINE G == Sorted(F \cup {n + 1})
    <3>7. /\ \A j \in 1 .. c : G[j] = Sorted(F)[j]
          /\ G[c + 1] = n + 1
      <4>1. Sorted(F) \in Seq(R \cup {n + 1}) /\ n + 1 \in R \cup {n + 1}
        BY <3>5
      <4>2. /\ \A j \in 1 .. Len(Sorted(F)) : Append(Sorted(F), n + 1)[j] = Sorted(F)[j]
            /\ Append(Sorted(F), n + 1)[Len(Sorted(F)) + 1] = n + 1
        BY <4>1, AppendProperties
      <4> HIDE DEF c, F
      <4> QED
        BY <3>2, <3>6, <4>2
    <3> HIDE DEF G, F
    <3>8. \A j \in 1 .. c + 1 : j \in 1 .. c \/ j = c + 1
      BY <2>8
    <3>9. \A j \in 1 .. c + 1 : G[j] \in F \cup {n + 1}
      BY <2>1, <3>7, <3>8 DEF F
    <3>10. \A j \in 1 .. c + 1 : md'.errors[j] = md'.records[G[j]].symbol
      <4>1. \A j \in 1 .. c : md'.errors[j] = md'.records[G[j]].symbol
        <5> SUFFICES ASSUME NEW j \in 1 .. c
                     PROVE  md'.errors[j] = md'.records[G[j]].symbol
          OBVIOUS
        <5>1. Sorted(F)[j] \in 1 .. n /\ md.errors[j] = md.records[Sorted(F)[j]].symbol
          BY <2>1, <2>7 DEF F
        <5>2. md'.errors[j] = md.errors[j]
          BY <1>6, <2>1, <2>10 DEF F
        <5> QED
          BY <1>4, <3>7, <5>1, <5>2
      <4>2. md'.errors[c + 1] = md'.records[G[c + 1]].symbol
        BY <1>2, <1>4, <1>6, <2>1, <2>10, <3>7 DEF F
      <4> QED
        BY <3>8, <4>1, <4>2
    <3>11. Len(md'.errors) = c + 1
      BY <1>6, <2>1, <2>10 DEF F
    <3>12. FailedOnes' = F \cup {n + 1} /\ Sorted(FailedOnes') = G
           /\ Cardinality(FailedOnes') = c + 1
      BY <3>1, <3>4 DEF G, F
    <3> HIDE DEF c
    <3> QED
      BY <2>3, <2>4, <2>5, <3>9, <3>10, <3>11, <3>12 DEF InTurn
  <2> QED
    BY <2>9, <2>10
<1> QED
  BY <1>1, <1>8, <1>9, <1>10, <1>11 DEF MdInv

\* A step of the question that leaves the records alone.
LEMMA AskingKeeps ==
  ASSUME MdInv, DOMAIN md' = DOMAIN md, DOMAIN md'.ask = DOMAIN md.ask, Asking',
         md'.setting = md.setting, md'.todo = md.todo, md'.records = md.records,
         md'.errors = md.errors
  PROVE  MdInv'
<1>1. MdType'
  BY DEF MdInv, MdType
<1>2. InTurn'
  <2>1. FailedOnes' = FailedOnes
    BY DEF FailedOnes
  <2> QED
    BY <2>1 DEF MdInv, InTurn
<1>3. Promised' = Promised /\ (Zerodha' <=> Zerodha)
  BY DEF Promised, Zerodha
<1>4. (\A i \in 1 .. Len(md.records) : RecordOK(md.records[i]))'
  BY <1>3 DEF MdInv, RecordOK
<1> QED
  BY <1>1, <1>2, <1>4 DEF MdInv

\* The next place of a question that has not called anything yet.
LEMMA ToKeeps ==
  ASSUME MdInv, Ask.pc \notin {"quote", "chunks"}, md.todo # <<>>,
         NEW pc \in {"live", "history", "quote", "csv", "chunks", "upstox", "dhan"}, To(pc),
         pc \in {"csv", "upstox", "dhan"} => ~Zerodha,
         pc = "quote" => SupportsWorkflow(md.setting.provider, TRUE),
         pc = "chunks" => Zerodha
  PROVE  MdInv'
<1>1. /\ DOMAIN md' = DOMAIN md /\ DOMAIN md'.ask = DOMAIN md.ask
      /\ md'.setting = md.setting /\ md'.todo = md.todo /\ md'.records = md.records
      /\ md'.errors = md.errors
      /\ md'.ask = [md.ask EXCEPT !.pc = pc]
  BY DEF MdInv, MdType, To
<1>2. md.ask = [Asked EXCEPT !.pc = md.ask.pc]
  BY DEF MdInv, Asking, Ask
<1>3. md'.ask = [Asked EXCEPT !.pc = pc]
  BY <1>1, <1>2 DEF Asked
<1>4. /\ md'.ask.pc = pc /\ md'.ask.calls = 0 /\ md'.ask.attempt = 1 /\ md'.ask.tries = 1
      /\ md'.ask.chunk = 1 /\ md'.ask.bars = <<>>
  BY <1>3 DEF Asked
<1>5. md.setting \in MdSettings /\ md.setting.retries \in Nat
  BY MarketDataAssumption DEF MdInv, MdType
<1>6. \A x \in Nat : (x + 1) * (1 - 1) + 1 - 1 = 0 /\ 1 \in 1 .. x + 1
  OBVIOUS
<1>7. Len(Chunks) \in Nat /\ Chunks' = Chunks
  BY <1>1, <1>5, ChunksAre, MarketDataAssumption DEF Chunks
<1>8. Sorted(Covered(md.setting, 0)) = <<>> /\ 1 - 1 = 0
  BY <1>5, NoneCovered
<1>9. Asking'
  <2>1. /\ 0 \in Nat /\ 1 \in 1 .. 5 /\ 1 \in 1 .. Len(Chunks) + 1
        /\ 0 <= (md.setting.retries + 1) * (1 - 1) + 1 - 1
        /\ 1 \in 1 .. md.setting.retries + 1
    BY <1>5, <1>6, <1>7
  <2>2. Zerodha' <=> Zerodha
    BY <1>1 DEF Zerodha
  <2> QED
    BY <1>1, <1>3, <1>4, <1>7, <1>8, <2>1, <2>2 DEF Asking, Ask
<1> QED
  BY <1>1, <1>9, AskingKeeps

\* One call more, of one attempt more or of the first attempt at the next.
LEMMA OneCallMore ==
  ASSUME NEW r \in Nat, NEW x \in Nat \ {0}, NEW a \in 1 .. r + 1, NEW c \in Nat,
         c <= (r + 1) * (x - 1) + a - 1
  PROVE  /\ c + 1 <= (r + 1) * (x - 1) + (a + 1) - 1
         /\ c + 1 <= (r + 1) * ((x + 1) - 1) + 1 - 1
<1>1. \A u, v \in Int : u * ((v + 1) - 1) = u * (v - 1) + u /\ u * (v - 1) \in Int
  OBVIOUS
<1>2. /\ (r + 1) * ((x + 1) - 1) = (r + 1) * (x - 1) + (r + 1)
      /\ (r + 1) * (x - 1) \in Int
  BY <1>1
<1> DEFINE y == (r + 1) * (x - 1)
           z == (r + 1) * ((x + 1) - 1)
<1>3. y \in Int /\ z = y + (r + 1) /\ c <= y + a - 1
  BY <1>2
<1> HIDE DEF y, z
<1>4. c + 1 <= y + (a + 1) - 1 /\ c + 1 <= z + 1 - 1
  BY <1>3
<1> QED
  BY <1>4 DEF y, z

\* A call that is repeated at once.
LEMMA RetryKeeps ==
  ASSUME MdInv, Ask.pc \in {"quote", "chunks"}, Retry, Ask.attempt <= md.setting.retries,
         Ask.pc = "chunks" => Ask.chunk <= Len(Chunks)
  PROVE  MdInv'
<1>1. /\ DOMAIN md' = DOMAIN md /\ DOMAIN md'.ask = DOMAIN md.ask
      /\ md'.setting = md.setting /\ md'.todo = md.todo /\ md'.records = md.records
      /\ md'.errors = md.errors
      /\ md'.ask = [md.ask EXCEPT !.calls = md.ask.calls + 1, !.attempt = md.ask.attempt + 1]
  BY DEF MdInv, MdType, Retry
<1>2. /\ md'.ask.pc = md.ask.pc /\ md'.ask.calls = md.ask.calls + 1
      /\ md'.ask.attempt = md.ask.attempt + 1 /\ md'.ask.tries = md.ask.tries
      /\ md'.ask.chunk = md.ask.chunk /\ md'.ask.bars = md.ask.bars
  BY <1>1 DEF MdInv, MdType
<1> DEFINE r == md.setting.retries
<1>3. md.setting \in MdSettings /\ r \in Nat
  BY MarketDataAssumption DEF MdInv, MdType
<1>4. /\ md.ask.attempt \in 1 .. r + 1 /\ md.ask.calls \in Nat
      /\ md.ask.attempt <= r /\ md.todo # <<>>
      /\ md.ask.pc = "quote" =>
           /\ SupportsWorkflow(md.setting.provider, TRUE)
           /\ md.ask.tries \in 1 .. 5
           /\ md.ask.calls <= (r + 1) * (md.ask.tries - 1) + md.ask.attempt - 1
      /\ md.ask.pc = "chunks" =>
           /\ Zerodha
           /\ md.ask.chunk \in 1 .. Len(Chunks) + 1
           /\ md.ask.calls <= (r + 1) * (md.ask.chunk - 1) + md.ask.attempt - 1
           /\ md.ask.bars = Sorted(Covered(md.setting, md.ask.chunk - 1))
  BY DEF MdInv, Asking, Ask
<1> HIDE DEF r
<1>5. /\ md.ask.attempt + 1 \in 1 .. r + 1 /\ md.ask.calls + 1 \in Nat
  BY <1>3, <1>4
<1>6. Len(Chunks) \in Nat /\ Chunks' = Chunks
  BY <1>1, <1>3, ChunksAre, MarketDataAssumption DEF Chunks
<1>7. md.ask.pc = "quote" =>
        md.ask.calls + 1 <= (r + 1) * (md.ask.tries - 1) + (md.ask.attempt + 1) - 1
  <2>1. \A t \in 1 .. 5 : t \in Nat \ {0}
    OBVIOUS
  <2> QED
    BY <1>3, <1>4, <2>1, OneCallMore
<1>8. md.ask.pc = "chunks" =>
        md.ask.calls + 1 <= (r + 1) * (md.ask.chunk - 1) + (md.ask.attempt + 1) - 1
  <2>1. \A t \in 1 .. Len(Chunks) + 1 : t \in Nat \ {0}
    BY <1>6
  <2> QED
    BY <1>3, <1>4, <2>1, OneCallMore
<1>9. Asking'
  <2>1. Zerodha' <=> Zerodha
    BY <1>1 DEF Zerodha
  <2>2. md.ask.pc \in {"quote", "chunks"}
    BY DEF Ask
  <2>3. md.ask.pc = "chunks" => ~(md.ask.chunk > Len(Chunks))
    <3>1. \A x \in 1 .. Len(Chunks) + 1 : x <= Len(Chunks) => ~(x > Len(Chunks))
      BY <1>6
    <3> QED
      BY <1>4, <3>1, Zenon DEF Ask
  <2> QED
    BY <1>1, <1>2, <1>4, <1>5, <1>6, <1>7, <1>8, <2>1, <2>2, <2>3 DEF Asking, Ask, r
<1> QED
  BY <1>1, <1>9, AskingKeeps

LEMMA AskAgainKeeps ==
  ASSUME MdInv, Ask.pc = "quote", AskAgain PROVE MdInv'
<1>1. /\ DOMAIN md' = DOMAIN md /\ DOMAIN md'.ask = DOMAIN md.ask
      /\ md'.setting = md.setting /\ md'.todo = md.todo /\ md'.records = md.records
      /\ md'.errors = md.errors
      /\ md'.ask = [md.ask EXCEPT !.calls = md.ask.calls + 1, !.attempt = 1,
                                  !.tries = md.ask.tries + 1]
  BY DEF MdInv, MdType, AskAgain
<1>2. /\ md'.ask.pc = "quote" /\ md'.ask.calls = md.ask.calls + 1
      /\ md'.ask.attempt = 1 /\ md'.ask.tries = md.ask.tries + 1
  BY <1>1 DEF MdInv, MdType, Ask
<1> DEFINE r == md.setting.retries
<1>3. r \in Nat
  BY MarketDataAssumption DEF MdInv, MdType
<1>4. /\ md.ask.attempt \in 1 .. r + 1 /\ md.ask.calls \in Nat /\ md.todo # <<>>
      /\ SupportsWorkflow(md.setting.provider, TRUE)
      /\ md.ask.tries \in 1 .. 5 /\ md.ask.tries < 5
      /\ md.ask.calls <= (r + 1) * (md.ask.tries - 1) + md.ask.attempt - 1
  <2>1. Ask.tries < 5
    BY DEF AskAgain
  <2>2. Asking
    BY DEF MdInv
  <2>3. /\ Ask.attempt \in 1 .. r + 1 /\ Ask.calls \in Nat /\ md.todo # <<>>
        /\ SupportsWorkflow(md.setting.provider, TRUE)
        /\ Ask.tries \in 1 .. 5
        /\ Ask.calls <= (r + 1) * (Ask.tries - 1) + Ask.attempt - 1
    <3>1. Ask.pc # "next"
      OBVIOUS
    <3> QED
      BY <2>2, <3>1, Zenon DEF Asking
  <2>4. Ask = md.ask
    BY DEF Ask
  <2> QED
    BY <2>1, <2>3, <2>4
<1> HIDE DEF r
<1>5. /\ 1 \in 1 .. r + 1 /\ md.ask.calls + 1 \in Nat /\ md.ask.tries + 1 \in 1 .. 5
      /\ md.ask.tries \in Nat \ {0}
  <2>1. \A t \in 1 .. 5 : t < 5 => t + 1 \in 1 .. 5 /\ t \in Nat \ {0}
    OBVIOUS
  <2>2. \A n \in Nat : n + 1 \in Nat /\ 1 \in 1 .. n + 1
    OBVIOUS
  <2> QED
    BY <1>3, <1>4, <2>1, <2>2, Zenon
<1>6. md.ask.calls + 1 <= (r + 1) * ((md.ask.tries + 1) - 1) + 1 - 1
  BY <1>3, <1>4, <1>5, OneCallMore
<1>7. Asking'
  BY <1>1, <1>2, <1>4, <1>5, <1>6 DEF Asking, Ask, r
<1> QED
  BY <1>1, <1>7, AskingKeeps

\* A piece that was answered.
LEMMA PieceKeeps ==
  ASSUME MdInv, Ask.pc = "chunks", Ask.chunk <= Len(Chunks),
         md' = [md EXCEPT !.ask.calls = @ + 1, !.ask.attempt = 1, !.ask.chunk = @ + 1,
                  !.ask.bars = @ \o Sorted(Within(md.setting.listed, Chunks[Ask.chunk].from,
                                                  Chunks[Ask.chunk].to))]
  PROVE  MdInv'
<1> DEFINE piece == Sorted(Within(md.setting.listed, Chunks[Ask.chunk].from,
                                  Chunks[Ask.chunk].to))
           r == md.setting.retries
<1>1. /\ DOMAIN md' = DOMAIN md /\ DOMAIN md'.ask = DOMAIN md.ask
      /\ md'.setting = md.setting /\ md'.todo = md.todo /\ md'.records = md.records
      /\ md'.errors = md.errors
      /\ md'.ask.pc = "chunks" /\ md'.ask.calls = md.ask.calls + 1
      /\ md'.ask.attempt = 1 /\ md'.ask.chunk = md.ask.chunk + 1
      /\ md'.ask.bars = md.ask.bars \o piece
  <2> HIDE DEF piece
  <2>1. md' = [md EXCEPT !.ask.calls = @ + 1, !.ask.attempt = 1, !.ask.chunk = @ + 1,
                  !.ask.bars = @ \o piece]
    BY DEF piece
  <2>2. /\ DOMAIN md = {"setting", "todo", "records", "errors", "ask"}
        /\ DOMAIN md.ask = {"pc", "calls", "attempt", "tries", "chunk", "bars"}
        /\ md.ask.pc = "chunks"
    BY DEF MdInv, MdType, Ask
  <2>3. md'.ask = [md.ask EXCEPT !.calls = md.ask.calls + 1, !.attempt = 1,
                     !.chunk = md.ask.chunk + 1, !.bars = md.ask.bars \o piece]
    BY <2>1, <2>2
  <2>4. /\ DOMAIN md' = DOMAIN md /\ md'.setting = md.setting /\ md'.todo = md.todo
        /\ md'.records = md.records /\ md'.errors = md.errors
    BY <2>1, <2>2
  <2> QED
    BY <2>2, <2>3, <2>4
<1>2. md.setting \in MdSettings /\ r \in Nat
  BY MarketDataAssumption DEF MdInv, MdType
<1>3. /\ md.ask.attempt \in 1 .. r + 1 /\ md.ask.calls \in Nat /\ md.todo # <<>>
      /\ Zerodha
      /\ md.ask.chunk \in 1 .. Len(Chunks) + 1 /\ md.ask.chunk <= Len(Chunks)
      /\ md.ask.calls <= (r + 1) * (md.ask.chunk - 1) + md.ask.attempt - 1
      /\ md.ask.bars = Sorted(Covered(md.setting, md.ask.chunk - 1))
  BY DEF MdInv, Asking, Ask
<1> HIDE DEF r
<1>4. Len(Chunks) \in Nat /\ Chunks' = Chunks /\ Chunks = PiecesOf(md.setting)
  BY <1>1, <1>2, ChunksAre, MarketDataAssumption DEF Chunks, PiecesOf
<1>5. /\ md.ask.chunk \in 1 .. Len(Chunks) /\ md.ask.chunk + 1 \in 1 .. Len(Chunks) + 1
      /\ md.ask.chunk \in Nat \ {0} /\ md.ask.calls + 1 \in Nat
      /\ (md.ask.chunk + 1) - 1 = md.ask.chunk /\ 1 \in 1 .. r + 1
  <2>1. \A n \in Nat : \A x \in 1 .. n + 1 : x <= n =>
          /\ x \in 1 .. n /\ x + 1 \in 1 .. n + 1
          /\ x \in Nat \ {0} /\ (x + 1) - 1 = x
    OBVIOUS
  <2>2. \A n \in Nat : n + 1 \in Nat /\ 1 \in 1 .. n + 1
    OBVIOUS
  <2>3. /\ md.ask.chunk \in 1 .. Len(Chunks) + 1 /\ md.ask.chunk <= Len(Chunks)
        /\ md.ask.calls \in Nat
    BY <1>3
  <2>4. Len(Chunks) \in Nat
    BY <1>4
  <2> QED
    BY <1>2, <2>1, <2>2, <2>3, <2>4, Zenon
<1>6. md.ask.calls + 1 <= (r + 1) * ((md.ask.chunk + 1) - 1) + 1 - 1
  BY <1>2, <1>3, <1>5, OneCallMore
<1>7. md.ask.bars \o piece = Sorted(Covered(md.setting, md.ask.chunk))
  BY <1>2, <1>3, <1>4, <1>5, MoreCovered DEF Ask
<1>8. Asking'
  <2>1. Zerodha' <=> Zerodha
    BY <1>1 DEF Zerodha
  <2> HIDE DEF piece
  <2> QED
    BY <1>1, <1>3, <1>4, <1>5, <1>6, <1>7, <2>1 DEF Asking, Ask, r
<1> QED
  BY <1>1, <1>8, AskingKeeps

\* A frame that is taken or refused.
LEMMA FetchedKeeps ==
  ASSUME MdInv, md.todo # <<>>, NEW bars, Fetched(bars),
         Zerodha => bars = Sorted(Promised)
  PROVE  MdInv'
<1>1. PICK taken \in BOOLEAN :
        IF taken /\ ValidFrame(bars) THEN Record(TRUE, "history", bars)
        ELSE Record(FALSE, "history", <<>>)
  BY DEF Fetched, Failed
<1>2. "history" # "live"
  OBVIOUS
<1> QED
  BY <1>1, <1>2, RecordKeeps

LEMMA MdNextInv == ASSUME MdInv, [MdNext]_md PROVE MdInv'
<1>0. /\ Ask.pc # "next" => md.todo # <<>>
      /\ Ask.pc \in {"csv", "upstox", "dhan"} => ~Zerodha
      /\ Ask.pc = "quote" => SupportsWorkflow(md.setting.provider, TRUE)
      /\ "history" # "live"
      /\ md.setting.provider \in {"csv", "indian_csv", "zerodha", "upstox", "dhan"}
  BY MarketDataAssumption DEF MdInv, Asking, MdType
<1>1. CASE BeginSymbol
  BY <1>1, ToKeeps DEF BeginSymbol
<1>2. CASE PollLive
  <2>1. CASE To("history") /\ Ask.pc = "live"
    BY <1>0, <2>1, ToKeeps
  <2>2. CASE To("quote") /\ Ask.pc = "live" /\ SupportsWorkflow(md.setting.provider, TRUE)
    BY <1>0, <2>2, ToKeeps
  <2>3. CASE Failed("live") /\ Ask.pc = "live" /\ SupportsWorkflow(md.setting.provider, TRUE)
    BY <1>0, <2>3, RecordKeeps DEF Failed
  <2> QED
    BY <1>2, <2>1, <2>2, <2>3 DEF PollLive
<1>3. CASE CallQuote
  <2>1. CASE AnswerQuote
    BY <1>0, <1>3, <2>1, RecordKeeps DEF CallQuote, AnswerQuote
  <2>2. CASE AskAgain
    BY <1>3, <2>2, AskAgainKeeps DEF CallQuote
  <2>3. ASSUME NEW transient \in BOOLEAN,
               IF TryAgain(transient) THEN Retry ELSE Failed("live")
        PROVE  MdInv'
    <3>1. CASE TryAgain(transient)
      BY <1>3, <2>3, <3>1, RetryKeeps DEF CallQuote, TryAgain
    <3>2. CASE ~TryAgain(transient)
      BY <1>0, <1>3, <2>3, <3>2, RecordKeeps DEF CallQuote, Failed
    <3> QED
      BY <3>1, <3>2
  <2> QED
    BY <1>3, <2>1, <2>2, <2>3 DEF CallQuote
<1>4. CASE LoadData
  <2>1. CASE Failed("history")
    BY <1>0, <1>4, <2>1, RecordKeeps DEF LoadData, Failed
  <2>2. CASE Csv /\ To("csv")
    BY <1>0, <1>4, <2>2, ToKeeps DEF LoadData, Csv, Zerodha
  <2>3. CASE ~Csv /\ Zerodha /\ To("chunks")
    BY <1>0, <1>4, <2>3, ToKeeps DEF LoadData
  <2>4. CASE ~Csv /\ ~Zerodha /\ To(md.setting.provider)
    <3>1. md.setting.provider \in {"upstox", "dhan"}
      BY <1>0, <2>4 DEF Csv, Zerodha
    <3> QED
      BY <1>0, <1>4, <2>4, <3>1, ToKeeps DEF LoadData
  <2> QED
    BY <1>4, <2>1, <2>2, <2>3, <2>4 DEF LoadData
<1>5. CASE LoadFromCsv
  BY <1>0, <1>5, FetchedKeeps DEF LoadFromCsv
<1>6. CASE FetchUpstox
  BY <1>0, <1>6, FetchedKeeps, RecordKeeps DEF FetchUpstox, Failed
<1>7. CASE FetchDhan
  BY <1>0, <1>7, FetchedKeeps, RecordKeeps DEF FetchDhan, Failed
<1>8. CASE CallHistorical
  <2>1. ASSUME NEW transient \in BOOLEAN,
               IF TryAgain(transient) THEN Retry ELSE Failed("history")
        PROVE  MdInv'
    <3>1. CASE TryAgain(transient)
      BY <1>8, <2>1, <3>1, RetryKeeps DEF CallHistorical, TryAgain
    <3>2. CASE ~TryAgain(transient)
      BY <1>0, <1>8, <2>1, <3>2, RecordKeeps DEF CallHistorical, Failed
    <3> QED
      BY <3>1, <3>2
  <2> QED
    BY <1>8, <2>1, PieceKeeps DEF CallHistorical
<1>9. CASE FinishHistorical
  <2>1. /\ Ask.chunk \in 1 .. Len(Chunks) + 1 /\ Ask.chunk > Len(Chunks)
        /\ Ask.bars = Sorted(Covered(md.setting, Ask.chunk - 1))
        /\ md.setting \in MdSettings
    BY <1>9 DEF MdInv, Asking, MdType, FinishHistorical
  <2>2. Len(Chunks) \in Nat /\ Chunks = PiecesOf(md.setting)
    BY <2>1, ChunksAre, MarketDataAssumption DEF Chunks, PiecesOf
  <2>3. Ask.chunk - 1 = Len(PiecesOf(md.setting))
    BY <2>1, <2>2
  <2>4. Ask.bars = Sorted(Promised)
    BY <2>1, <2>3, AllCovered
  <2> QED
    BY <1>0, <1>9, <2>4, FetchedKeeps DEF FinishHistorical
<1>10. CASE UNCHANGED md
  <2>1. Ask' = Ask /\ Promised' = Promised /\ (Zerodha' <=> Zerodha) /\ Chunks' = Chunks
        /\ FailedOnes' = FailedOnes
    BY <1>10 DEF Ask, Promised, Zerodha, Chunks, FailedOnes
  <2> QED
    BY <1>10, <2>1 DEF MdInv, MdType, InTurn, Asking, RecordOK
<1> QED
  BY <1>1, <1>2, <1>3, <1>4, <1>5, <1>6, <1>7, <1>8, <1>9, <1>10 DEF MdNext

-----------------------------------------------------------------------------
(* What a poll and the routes come to                                      *)

\* Numbers have a least one.
LEMMA LeastIsMember ==
  ASSUME NEW S \in SUBSET Nat, S # {}
  PROVE  Min(S) \in S
<1>1. PICK x \in S : \A y \in S : ~(<<y, x>> \in OpToRel(<, Nat))
  BY WFMin, NatLessThanWellFounded
<1>2. \A y \in S : ~(y < x)
  BY <1>1 DEF OpToRel
<1>3. \A y \in S : x =< y
  BY <1>2
<1> QED
  BY <1>3 DEF Min

\* The first candidate that serves.
LEMMA RoutesAreServed == RoutesServe
<1> SUFFICES ASSUME NEW policy \in RoutePolicies, NEW segment \in AllSegments,
                    NEW p \in Range(policy.fallback),
                    Serves(p, segment, segment \in DerivativeSegments)
             PROVE  Serves(SelectForSegment(policy, segment), segment,
                           segment \in DerivativeSegments)
  BY Zenon DEF RoutesServe
<1> DEFINE d == segment \in DerivativeSegments
           wish == IF d THEN policy.derivatives ELSE policy.cash
           preferred == IF wish = NoProvider THEN policy.default ELSE wish
           candidates == <<preferred>> \o policy.fallback
           serving == {i \in DOMAIN candidates : Serves(candidates[i], segment, d)}
<1>1. SelectForSegment(policy, segment) =
        IF serving = {} THEN policy.default ELSE candidates[Min(serving)]
  BY DEF SelectForSegment, ResolveProvider
<1>2. PICK j \in DOMAIN policy.fallback : policy.fallback[j] = p
  BY DEF Range
<1> DEFINE f == policy.fallback
           S == Range(f) \cup {preferred}
<1>3. /\ f \in Seq(S) /\ <<preferred>> \in Seq(S) /\ Len(<<preferred>>) = 1
  <2>1. f \in Seq(Range(f))
    BY MarketDataAssumption
  <2> HIDE DEF f, preferred
  <2> QED
    BY <2>1
<1> HIDE DEF preferred
<1>4. /\ Len(candidates) = 1 + Len(f) /\ candidates \in Seq(S) /\ Len(f) \in Nat
      /\ \A i \in 1 .. 1 + Len(f) :
           candidates[i] = IF i <= 1 THEN <<preferred>>[i] ELSE f[i - 1]
      /\ DOMAIN f = 1 .. Len(f) /\ DOMAIN candidates = 1 .. 1 + Len(f)
  <2> HIDE DEF f, S
  <2>1. /\ Len(candidates) = 1 + Len(f) /\ candidates \in Seq(S)
        /\ \A i \in 1 .. 1 + Len(f) :
             candidates[i] = IF i <= 1 THEN <<preferred>>[i] ELSE f[i - 1]
    BY <1>3, ConcatProperties DEF f
  <2>2. Len(f) \in Nat /\ DOMAIN f = 1 .. Len(f)
    BY <1>3, LenProperties
  <2>3. DOMAIN candidates = 1 .. Len(candidates)
    BY <2>1, LenProperties
  <2> QED
    BY <2>1, <2>2, <2>3
<1>5. j + 1 \in serving
  <2>1. j \in 1 .. Len(f)
    BY <1>2, <1>4
  <2>2. j + 1 \in 1 .. 1 + Len(f) /\ ~(j + 1 <= 1) /\ (j + 1) - 1 = j
    BY <1>4, <2>1
  <2>3. candidates[j + 1] = p
    BY <1>2, <1>4, <2>2
  <2> HIDE DEF candidates
  <2> QED
    BY <1>4, <2>2, <2>3
<1>6. serving \in SUBSET Nat
  BY <1>4
<1> HIDE DEF serving
<1>7. Min(serving) \in serving
  BY <1>5, <1>6, LeastIsMember
<1> QED
  BY <1>1, <1>5, <1>7 DEF serving

\* What the invariant says of a poll.
LEMMA MdInvWhole == ASSUME MdInv PROVE DataArrivesWhole
<1> DEFINE r == md.setting.retries
           n == Len(Chunks)
<1>1. /\ md.setting \in MdSettings /\ r \in Nat
      /\ n \in Nat /\ Chunks = PiecesOf(md.setting)
  BY ChunksAre, MarketDataAssumption DEF MdInv, MdType, Chunks, PiecesOf
<1>2. DOMAIN md.records = 1 .. Len(md.records)
  BY LenProperties DEF MdInv, MdType
<1> HIDE DEF r, n
<1>3. FetchIsWhole
  <2>1. ASSUME Ask.pc = "chunks", Ask.chunk > n PROVE Ask.bars = Sorted(Promised)
    <3>1. /\ Ask.chunk \in 1 .. n + 1
          /\ Ask.bars = Sorted(Covered(md.setting, Ask.chunk - 1))
      BY <2>1 DEF MdInv, Asking, n
    <3>2. Ask.chunk - 1 = Len(PiecesOf(md.setting))
      <4>1. Ask.chunk - 1 = n
        BY <1>1, <2>1, <3>1
      <4> QED
        BY <1>1, <4>1 DEF n
    <3> QED
      BY <1>1, <3>1, <3>2, AllCovered
  <2>2. \A i \in DOMAIN md.records : RecordOK(md.records[i])
    BY <1>2 DEF MdInv
  <2> QED
    BY <2>1, <2>2 DEF FetchIsWhole, RecordOK, n
<1>4. PollSymbols = [i \in DOMAIN md.records |-> md.records[i].symbol] \o md.todo
  <2> DEFINE f == [i \in DOMAIN md.records |-> md.records[i].symbol]
             S == Symbols \cup Range(f)
  <2>1. PICK a, b : a = Len(md.records) /\ b = Len(md.todo)
    OBVIOUS
  <2>2. /\ a \in Nat /\ b \in Nat /\ a + b = Len(PollSymbols)
        /\ \A i \in 1 .. a : md.records[i].symbol = PollSymbols[i]
        /\ \A i \in 1 .. b : md.todo[i] = PollSymbols[a + i]
    BY <2>1, LenProperties DEF MdInv, MdType, InTurn
  <2>3. DOMAIN md.records = 1 .. a
    BY <1>2, <2>1
  <2>4. /\ f \in Seq(S) /\ Len(f) = a
        /\ \A i \in 1 .. a : f[i] = md.records[i].symbol
    <3>1. DOMAIN f = 1 .. a /\ \A i \in 1 .. a : f[i] = md.records[i].symbol /\ f[i] \in S
      BY <2>3 DEF Range
    <3> HIDE DEF S
    <3>2. f = [i \in 1 .. a |-> f[i]]
      BY <2>3
    <3> HIDE DEF f
    <3>3. f \in [1 .. a -> S]
      BY <3>1, <3>2
    <3>4. f \in Seq(S)
      BY <2>2, <3>3
    <3> QED
      BY <2>2, <3>1, <3>4, LenProperties
  <2>5. md.todo \in Seq(S) /\ PollSymbols \in Seq(S)
    <3>1. md.todo \in Seq(Symbols) /\ PollSymbols \in Seq(Symbols)
      BY MarketDataAssumption DEF MdInv, MdType, Symbols
    <3>2. Symbols \subseteq S
      OBVIOUS
    <3> HIDE DEF S
    <3> QED
      BY <3>1, <3>2
  <2> HIDE DEF f, S
  <2>6. /\ f \o md.todo \in Seq(S) /\ Len(f \o md.todo) = a + b
        /\ \A i \in 1 .. a + b : (f \o md.todo)[i] = IF i <= a THEN f[i] ELSE md.todo[i - a]
    <3>1. /\ f \o md.todo \in Seq(S) /\ Len(f \o md.todo) = Len(f) + Len(md.todo)
          /\ \A i \in 1 .. Len(f) + Len(md.todo) :
               (f \o md.todo)[i] = IF i <= Len(f) THEN f[i] ELSE md.todo[i - Len(f)]
      BY <2>4, <2>5, ConcatProperties
    <3>2. Len(f) = a /\ Len(md.todo) = b
      BY <2>1, <2>4
    <3> QED
      BY <3>1, <3>2
  <2>7. ASSUME NEW i \in 1 .. a + b PROVE PollSymbols[i] = (f \o md.todo)[i]
    <3>1. CASE i <= a
      <4>1. i \in 1 .. a
        BY <2>2, <3>1
      <4> QED
        BY <2>2, <2>4, <2>6, <3>1, <4>1
    <3>2. CASE ~(i <= a)
      <4>1. i - a \in 1 .. b /\ a + (i - a) = i
        BY <2>2, <3>2
      <4>2. md.todo[i - a] = PollSymbols[a + (i - a)]
        BY <2>2, <4>1
      <4> QED
        BY <2>6, <3>2, <4>1, <4>2
    <3> QED
      BY <3>1, <3>2
  <2>8. PollSymbols = f \o md.todo
    BY <2>2, <2>5, <2>6, <2>7, SeqEqual
  <2> QED
    BY <2>8 DEF f
<1>5. md.errors = [j \in 1 .. Cardinality(FailedOnes) |-> md.records[Sorted(FailedOnes)[j]].symbol]
  <2>1. /\ Len(md.errors) = Cardinality(FailedOnes)
        /\ \A j \in 1 .. Cardinality(FailedOnes) :
             md.errors[j] = md.records[Sorted(FailedOnes)[j]].symbol
    BY DEF MdInv, InTurn
  <2>2. md.errors \in [1 .. Len(md.errors) -> Symbols]
    BY LenProperties DEF MdInv, MdType
  <2> QED
    BY <2>1, <2>2
<1>6. Ask.calls <= (r + 1) * (IF Ask.pc = "quote" THEN 5 ELSE n)
  <2>1. \A u \in Nat, v \in Nat : u * v \in Nat
    OBVIOUS
  <2>3. /\ Ask.attempt \in 1 .. r + 1 /\ Ask.calls \in Nat
        /\ Ask.pc \notin {"quote", "chunks"} => Ask.calls = 0
    BY DEF MdInv, Asking, Asked, Ask, r
  <2>4. CASE Ask.pc = "quote"
    <3>1. Ask.tries \in 1 .. 5 /\ Ask.calls <= (r + 1) * (Ask.tries - 1) + Ask.attempt - 1
      BY <2>4 DEF MdInv, Asking, r
    <3>2. Ask.calls <= (r + 1) * 5
      <4>1. Ask.tries \in {1, 2, 3, 4, 5}
        BY <3>1
      <4>2. Ask.tries - 1 \in {0, 1, 2, 3, 4}
        BY <4>1
      <4>3. \A t \in {0, 1, 2, 3, 4} : \A c \in Nat : \A x \in 1 .. r + 1 :
              c <= (r + 1) * t + x - 1 => c <= (r + 1) * 5
        BY <1>1
      <4> QED
        BY <2>3, <3>1, <4>2, <4>3, Zenon
    <3> QED
      BY <2>4, <3>2
  <2>5. CASE Ask.pc = "chunks"
    <3>1. /\ Ask.chunk \in 1 .. n + 1
          /\ Ask.chunk > n => Ask.attempt = 1
          /\ Ask.calls <= (r + 1) * (Ask.chunk - 1) + Ask.attempt - 1
      BY <2>5 DEF MdInv, Asking, r, n
    <3>2. Ask.calls <= (r + 1) * n
      <4>1. CASE Ask.chunk > n
        <5>1. Ask.chunk - 1 = n /\ Ask.attempt = 1
          BY <1>1, <3>1, <4>1
        <5>2. Ask.calls <= (r + 1) * n + 1 - 1
          BY <3>1, <5>1, Zenon
        <5>3. (r + 1) * n \in Nat
          BY <1>1, <2>1
        <5> QED
          BY <2>3, <5>2, <5>3
      <4>2. CASE ~(Ask.chunk > n)
        <5>1. Ask.chunk \in Nat /\ n - Ask.chunk \in Nat
          BY <1>1, <3>1, <4>2
        <5>2. \A u, t, v \in Int : u * v = u * (t - 1) + u + u * (v - t)
                                  /\ u * (t - 1) \in Int
          OBVIOUS
        <5>3. (r + 1) * (n - Ask.chunk) \in Nat
          BY <1>1, <2>1, <5>1
        <5> DEFINE y == (r + 1) * (Ask.chunk - 1)
                   z == (r + 1) * (n - Ask.chunk)
                   w == (r + 1) * n
        <5>4. r + 1 \in Int /\ Ask.chunk \in Int /\ n \in Int
          BY <1>1, <3>1
        <5>5. w = y + (r + 1) + z /\ y \in Int /\ z \in Nat
          BY <5>2, <5>3, <5>4
        <5>6. Ask.calls <= y + Ask.attempt - 1
          BY <3>1
        <5> HIDE DEF y, z, w
        <5>7. Ask.calls <= w
          BY <1>1, <2>3, <5>5, <5>6
        <5> QED
          BY <5>7 DEF w
      <4> QED
        BY <4>1, <4>2
    <3> QED
      BY <2>5, <3>2
  <2>6. CASE Ask.pc \notin {"quote", "chunks"}
    <3>1. (r + 1) * n \in Nat /\ Ask.pc # "quote"
      BY <1>1, <2>1, <2>6
    <3> QED
      BY <2>3, <2>6, <3>1
  <2> QED
    BY <2>4, <2>5, <2>6
<1>7. \A i \in DOMAIN md.records :
        md.records[i].source = "live" => SupportsWorkflow(md.setting.provider, TRUE)
  BY <1>2 DEF MdInv, RecordOK
<1>8. PollAnswersEach
  BY <1>4, <1>5, <1>6, <1>7 DEF PollAnswersEach, FailedOnes, r, n
<1> QED
  BY <1>3, <1>8, RoutesAreServed DEF DataArrivesWhole

\* DataPoller and ZerodhaDataSource, for every range, size of the pieces, number of
\* retries and list of symbols, whatever the calls come to: a history that was
\* fetched in pieces has each bar of the range once and in order; each symbol has
\* one record and the failures are the errors; no call is made beyond the retries;
\* and a segment goes to a provider that serves it.
THEOREM DataWhole == MdSpec => []DataArrivesWhole
<1>1. MdInit => MdInv
  BY MdInitInv
<1>2. MdInv /\ [MdNext]_md => MdInv'
  BY MdNextInv
<1>3. MdInv => DataArrivesWhole
  BY MdInvWhole
<1> QED
  BY <1>1, <1>2, <1>3, PTL DEF MdSpec
=============================================================================
