--------------------------- MODULE InstrumentMaster ---------------------------
(***************************************************************************)
(* data/instrument_mapper.py with instruments/hydrator.py, registry.py and *)
(* contracts.py: processes that share one cache file of the instruments    *)
(* Kite lists.  A download is written to a temporary file of one fixed     *)
(* name and moved over the cache; a process reads the file once and keeps  *)
(* the frame; a registry is filled from the frame.                         *)
(* A frame gives, for every exchange, the version of the list it holds.    *)
(***************************************************************************)
EXTENDS Integers

CONSTANTS
  Mappers,          \* processes, each with a KiteInstrumentMapper of its own
  Exchanges, DefaultExchange,
  Contracts,        \* [id, ex, kind, symbol, name, expiry, strike, lot, from]: listed from a version on
  NoName,           \* the empty name of a row, and what read_csv makes of it
  NanName,
  NoFrame,
  MaxVersion, MaxRefreshes, MaxCrashes   \* bounds

\* A list of Kite has one row per contract, in the order of the ids; no list is
\* older than the first.  Nothing read or written is mistaken for no frame.
ASSUME InstrumentsAssumption ==
  /\ DefaultExchange \in Exchanges
  /\ \A c \in Contracts :
       /\ c.ex \in Exchanges /\ {c.id, c.expiry} \subseteq Nat /\ c.from \in Nat \ {0}
       /\ \A d \in Contracts : c.id = d.id => c = d
  /\ NoFrame \notin [Exchanges -> Nat]
  /\ NoFrame \notin [frame : [Exchanges -> Nat], whole : BOOLEAN,
                     writers : SUBSET Mappers, mixed : BOOLEAN]

VARIABLES im,       \* what Kite lists today, and each process: frame, registry, operation
          imDisk    \* the cache file and the temporary file

imVars == <<im, imDisk>>

Unlisted == [ex \in Exchanges |-> 0]
Idle == [pc |-> "idle", frame |-> Unlisted, wanted |-> {}]

ImInit ==
  /\ im = [kite |-> [ex \in Exchanges |-> 1],
           mem |-> [p \in Mappers |-> NoFrame], csv |-> [p \in Mappers |-> FALSE],
           registry |-> [p \in Mappers |-> {}], op |-> [p \in Mappers |-> Idle],
           refreshes |-> 0, crashes |-> 0, overlapped |-> FALSE]
  /\ imDisk = [file |-> NoFrame, tmp |-> NoFrame]

-----------------------------------------------------------------------------
(* Writing the cache                                                       *)

Download(p, frame) ==
  /\ im.refreshes < MaxRefreshes
  /\ im' = [im EXCEPT !.op[p] = [pc |-> "open", frame |-> frame, wanted |-> {}],
                      !.refreshes = @ + 1,
                      !.overlapped = @ \/ \E q \in Mappers \ {p} : im.op[q].pc # "idle"]
  /\ UNCHANGED imDisk

\* One exchange: the frame has that exchange alone.  A failed download raises
\* before anything has changed.
RefreshCache(p) ==
  /\ im.op[p].pc = "idle"
  /\ \E ex \in Exchanges : Download(p, [Unlisted EXCEPT ![ex] = im.kite[ex]])

\* Every exchange; one that fails counts as empty, and nothing is written when
\* all do.
RefreshAllSegments(p) ==
  /\ im.op[p].pc = "idle"
  /\ \E answered \in SUBSET Exchanges \ {{}} :
       Download(p, [ex \in Exchanges |-> IF ex \in answered THEN im.kite[ex] ELSE 0])

\* Opening truncates: a second writer shares the file with the first.
OpenTemporary(p) ==
  /\ im.op[p].pc = "open"
  /\ LET others == IF imDisk.tmp = NoFrame THEN {} ELSE imDisk.tmp.writers
     IN  imDisk' = [imDisk EXCEPT !.tmp = [frame |-> im.op[p].frame, whole |-> FALSE,
                                           writers |-> {p} \cup others, mixed |-> others # {}]]
  /\ im' = [im EXCEPT !.op[p].pc = "write"]

\* A writer goes on writing to the file it opened, wherever that has been moved;
\* what two writers leave may be readable or not.
Written(p, copy, whole) ==
  IF copy = NoFrame \/ p \notin copy.writers THEN copy
  ELSE [copy EXCEPT !.whole = whole \/ ~copy.mixed, !.writers = @ \ {p}]

WriteTemporary(p) ==
  /\ im.op[p].pc = "write"
  /\ \E whole \in BOOLEAN :
       imDisk' = [file |-> Written(p, imDisk.file, whole), tmp |-> Written(p, imDisk.tmp, whole)]
  /\ im' = [im EXCEPT !.op[p].pc = "replace"]

\* The move takes whatever is there under the temporary name; when another
\* process has moved it already, the refresh raises.
ReplaceCache(p) ==
  /\ im.op[p].pc = "replace"
  /\ IF imDisk.tmp = NoFrame
     THEN /\ im' = [im EXCEPT !.op[p] = Idle]
          /\ UNCHANGED imDisk
     ELSE /\ imDisk' = [file |-> imDisk.tmp, tmp |-> NoFrame]
          /\ im' = [im EXCEPT !.op[p] = Idle, !.mem[p] = im.op[p].frame, !.csv[p] = FALSE]

-----------------------------------------------------------------------------
(* Reading it                                                              *)

\* Broken variant: every look-up reads the file again.
NotLoaded_EveryTime(p) == TRUE
NotLoaded(p) == im.mem[p] = NoFrame

\* Without a file the default exchange is downloaded; a file of any age is read
\* (an old one is only warned about).  What is left of a torn one may be read as
\* fewer exchanges, or raise.
LoadCache(p) ==
  /\ im.op[p].pc = "idle" /\ NotLoaded(p)
  /\ IF imDisk.file = NoFrame
     THEN Download(p, [Unlisted EXCEPT ![DefaultExchange] = im.kite[DefaultExchange]])
     ELSE /\ \E left \in IF imDisk.file.whole THEN {Exchanges} ELSE SUBSET Exchanges :
               im' = [im EXCEPT !.csv[p] = TRUE, !.mem[p] =
                        [ex \in Exchanges |-> IF ex \in left THEN imDisk.file.frame[ex] ELSE 0]]
          /\ UNCHANGED imDisk

\* Rows of the frame: the contracts of an exchange listed in its version.
RowsOf(p, ex) == {c \in Contracts : c.ex = ex /\ c.from <= im.mem[p][ex]}

\* get_instrument_token: the row of that symbol and exchange, or ValueError.
TokenOf(p, symbol, ex) ==
  {[id |-> c.id, version |-> im.mem[p][ex]] : c \in {d \in RowsOf(p, ex) : d.symbol = symbol}}

-----------------------------------------------------------------------------
(* Hydration                                                               *)

\* The name of a derivative is its underlying; read back from the file an empty
\* name is not a number any more and no longer empty.
NameOf(p, c) == IF c.name = NoName /\ im.csv[p] THEN NanName ELSE c.name

\* A row that lacks what its kind needs is skipped, and so is every row with a
\* lot size below one.
Hydratable(c) ==
  /\ c.kind \in {"future", "option"} => c.expiry > 0
  /\ c.kind = "option" => c.strike > 0
  /\ c.lot >= 1

Hydrated(p, c) ==
  [symbol |-> IF c.kind \in {"future", "option"} /\ NameOf(p, c) # NoName
              THEN NameOf(p, c) ELSE c.symbol,
   ex |-> c.ex, kind |-> c.kind, expiry |-> c.expiry, strike |-> c.strike,
   id |-> c.id, version |-> im.mem[p][c.ex]]

\* The key of the registry leaves out all but what identifies a contract.
Canonical(i) ==
  <<i.ex, i.symbol, i.kind, IF i.kind \in {"future", "option"} THEN i.expiry ELSE 0,
    IF i.kind = "option" THEN i.strike ELSE 0>>

\* Rows come in the order of the file, which their ids stand for.  A conflict is an
\* error that the caller skips, unless it replaces: of the rows with one key the
\* first is kept, or the last.
Kept(rows, replace) ==
  {i \in rows : \A j \in rows :
     Canonical(j) = Canonical(i) => IF replace THEN j.id <= i.id ELSE i.id <= j.id}

Keys(instruments) == {Canonical(i) : i \in instruments}

\* What the registry had yields to a row that replaces it, or keeps it out.
AddAll(registry, rows, replace) ==
  IF replace
  THEN Kept(rows, TRUE) \cup {i \in registry : Canonical(i) \notin Keys(rows)}
  ELSE registry \cup {i \in Kept(rows, FALSE) : Canonical(i) \notin Keys(registry)}

HydrateRegistry(p) ==
  /\ im.op[p].pc = "idle" /\ im.mem[p] # NoFrame
  /\ \E wanted \in SUBSET Exchanges \ {{}}, replace \in BOOLEAN :
       LET rows == UNION {RowsOf(p, ex) : ex \in wanted}
       IN  im' = [im EXCEPT !.registry[p] =
                    AddAll(@, {Hydrated(p, c) : c \in {d \in rows : Hydratable(d)}}, replace)]
  /\ UNCHANGED imDisk

\* The nearest future of an underlying that has not expired.
ActiveFutures(registry, underlying, ex, today) ==
  {i \in registry : /\ i.kind = "future" /\ i.ex = ex /\ i.symbol = underlying
                    /\ i.expiry >= today}

ResolveActiveContract(registry, underlying, ex, today) ==
  LET futures == ActiveFutures(registry, underlying, ex, today)
  IN  {i \in futures : \A j \in futures : i.expiry <= j.expiry}

-----------------------------------------------------------------------------
(* Specification                                                           *)

\* Kite lists anew: tokens of the day before are gone.
NewList(ex) ==
  /\ im.kite[ex] < MaxVersion
  /\ im' = [im EXCEPT !.kite[ex] = @ + 1]
  /\ UNCHANGED imDisk

\* The process ends and another one starts; its files stay as they are.
ImCrash(p) ==
  /\ im.crashes < MaxCrashes
  /\ imDisk' = [place \in DOMAIN imDisk |->
       IF imDisk[place] = NoFrame THEN NoFrame
       ELSE [imDisk[place] EXCEPT !.writers = @ \ {p}]]
  /\ im' = [im EXCEPT !.op[p] = Idle, !.mem[p] = NoFrame, !.csv[p] = FALSE,
                      !.registry[p] = {}, !.crashes = @ + 1]

ImNext ==
  \/ \E p \in Mappers :
       \/ RefreshCache(p) \/ RefreshAllSegments(p)
       \/ OpenTemporary(p) \/ WriteTemporary(p) \/ ReplaceCache(p)
       \/ LoadCache(p) \/ HydrateRegistry(p) \/ ImCrash(p)
  \/ \E ex \in Exchanges : NewList(ex)

ImSpec == ImInit /\ [][ImNext]_imVars

-----------------------------------------------------------------------------
(* Properties                                                              *)

\* Unless two processes have refreshed at the same time, the cache file is whole
\* whenever a process dies: instrument_mapper.py writes beside it and moves.
CacheFileIsWhole == im.overlapped \/ imDisk.file = NoFrame \/ imDisk.file.whole

\* However often it is filled, a registry holds one instrument per canonical
\* symbol, and the future it resolves for an underlying is the nearest it has.
RegistryHasOneEach ==
  \A p \in Mappers :
    /\ \A i, j \in im.registry[p] : Canonical(i) = Canonical(j) => i = j
    /\ \A i \in im.registry[p] : \A j \in ResolveActiveContract(im.registry[p], i.symbol, i.ex, 1) :
         i.kind = "future" => j.expiry <= i.expiry

\* While a process lives, the tokens it resolves for an exchange never go back
\* to an older list, whatever other processes write to the shared cache file.
TokensNeverGoBack ==
  \A p \in {q \in Mappers : im.mem[q] # im'.mem[q] /\ NoFrame \notin {im.mem[q], im'.mem[q]}} :
    \A c \in Contracts :
      \A old \in TokenOf(p, c.symbol, c.ex), new \in TokenOf(p, c.symbol, c.ex)' :
        old.version <= new.version

\* The cache file, the registries and the tokens of the processes that share
\* them stay sound through refreshes, crashes and new lists.
InstrumentsStaySound ==
  [](CacheFileIsWhole /\ RegistryHasOneEach) /\ [][TokensNeverGoBack]_imVars
=============================================================================
