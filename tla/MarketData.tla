------------------------------ MODULE MarketData ------------------------------
(***************************************************************************)
(* The way of market data into the platform: realtime/data_poller.py over  *)
(* scanners/data_gateway.py and the sources of data/sources.py,            *)
(* dhan_source.py and indian_data_loader.py, with the table of             *)
(* provider_capabilities.py.  A poll asks for its symbols one by one, live *)
(* where the provider can and from history otherwise; Zerodha is asked     *)
(* call by call, with retries, and in pieces when the range is long.       *)
(* Times are seconds; a bar is its time.                                   *)
(***************************************************************************)
EXTENDS Integers, Sequences, FiniteSetsExt, Functions

CONSTANTS
  PollSymbols,      \* the symbols of a poll, in order
  MdSettings,       \* [provider, live, retries, from, to, maxDays, listed: times with a bar]
  RoutePolicies,    \* [default, derivatives, cash, fallback]
  NoProvider

ASSUME MarketDataAssumption ==
  /\ PollSymbols \in Seq(Range(PollSymbols))
  /\ \A setting \in MdSettings :
       /\ setting.provider \in {"csv", "indian_csv", "zerodha", "upstox", "dhan"}
       /\ setting.retries \in Nat /\ setting.maxDays \in Nat
       /\ setting.from \in Int /\ setting.to \in Int
       /\ setting.listed \subseteq Int /\ IsFiniteSet(setting.listed)
  /\ \A policy \in RoutePolicies : policy.fallback \in Seq(Range(policy.fallback))

VARIABLE md         \* the poll under way: its setting, where it is, its records

-----------------------------------------------------------------------------
(* Capabilities and routing                                                *)

Capability(live, segments, derivatives) ==
  [historical |-> TRUE, live |-> live, segments |-> segments, derivatives |-> derivatives]

AllSegments == {"NSE", "BSE", "NFO", "MCX", "CDS"}
DerivativeSegments == {"NFO", "MCX", "CDS"}

ProviderCapabilities ==
  [csv |-> Capability(FALSE, {"NSE"}, FALSE),
   indian_csv |-> Capability(FALSE, {"NSE", "BSE"}, FALSE),
   zerodha |-> Capability(TRUE, AllSegments, TRUE),
   upstox |-> Capability(FALSE, {"NSE", "NFO"}, FALSE),
   dhan |-> Capability(TRUE, AllSegments, TRUE)]

\* Every provider serves all time frames of equities.
SupportsWorkflow(provider, live) ==
  /\ provider \in DOMAIN ProviderCapabilities
  /\ live => ProviderCapabilities[provider].live

Serves(provider, segment, derivatives) ==
  /\ provider \in DOMAIN ProviderCapabilities
  /\ derivatives => ProviderCapabilities[provider].derivatives
  /\ segment \in ProviderCapabilities[provider].segments

\* The first candidate that serves the segment; the default when none does.  (The
\* code leaves the preferred one out of the others, where it has been answered for.)
ResolveProvider(policy, preferred, segment, derivatives) ==
  LET candidates == <<preferred>> \o policy.fallback
      serving == {i \in DOMAIN candidates : Serves(candidates[i], segment, derivatives)}
  IN  IF serving = {} THEN policy.default ELSE candidates[Min(serving)]

SelectForSegment(policy, segment) ==
  LET derivatives == segment \in DerivativeSegments
      wish == IF derivatives THEN policy.derivatives ELSE policy.cash
  IN  ResolveProvider(policy, IF wish = NoProvider THEN policy.default ELSE wish,
                      segment, derivatives)

-----------------------------------------------------------------------------
(* Bars                                                                    *)

\* Broken variant: a piece begins at the moment the piece before it ended.
Stride_SameMoment(maxDays) == maxDays
\* The next piece begins one second after the end of the piece before it.
Stride(maxDays) == maxDays + 1

\* _date_chunks: pieces while their start lies before the end.
DateChunks(from, to, maxDays) ==
  LET n == IF from >= to THEN 0 ELSE (to - from + Stride(maxDays) - 1) \div Stride(maxDays)
      start(i) == from + (i - 1) * Stride(maxDays)
  IN  [i \in 1 .. n |-> [from |-> start(i),
         to |-> IF start(i) + maxDays < to THEN start(i) + maxDays ELSE to]]

Within(times, from, to) == {t \in times : from <= t /\ t <= to}

\* The i-th of the times is the one with i - 1 before it.
Sorted(times) ==
  [i \in 1 .. Cardinality(times) |->
     CHOOSE t \in times : Cardinality({u \in times : u < t}) = i - 1]

\* DataHandler and validate_ohlcv_dataframe: an empty frame and one with a time
\* twice are refused.
ValidFrame(bars) == bars # <<>> /\ IsInjective(bars)

-----------------------------------------------------------------------------
(* A poll                                                                  *)

Asked == [pc |-> "next", calls |-> 0, attempt |-> 1, tries |-> 1, chunk |-> 1, bars |-> <<>>]

MdInit ==
  \E setting \in MdSettings :
    md = [setting |-> setting, todo |-> PollSymbols, records |-> <<>>, errors |-> <<>>,
          ask |-> Asked]

Ask == md.ask
Chunks == DateChunks(md.setting.from, md.setting.to, md.setting.maxDays)
Zerodha == md.setting.provider = "zerodha"
Csv == md.setting.provider \in {"csv", "indian_csv"}

To(pc) == md' = [md EXCEPT !.ask.pc = pc]

\* Every symbol gets one record; one without success is an error of the poll.
Record(success, source, bars) ==
  LET record == [symbol |-> Head(md.todo), success |-> success, source |-> source,
                 bars |-> bars]
  IN  md' = [md EXCEPT !.todo = Tail(@), !.ask = Asked, !.records = Append(@, record),
               !.errors = IF success THEN @ ELSE Append(@, Head(md.todo))]

Failed(source) == Record(FALSE, source, <<>>)

BeginSymbol ==
  /\ Ask.pc = "next" /\ md.todo # <<>>
  /\ To(IF md.setting.live THEN "live" ELSE "history")

\* _poll_live: a provider that cannot serve quotes, cannot be created or does not
\* implement them gives way to history.
PollLive ==
  /\ Ask.pc = "live"
  /\ IF SupportsWorkflow(md.setting.provider, TRUE) /\ Zerodha
     THEN To("history") \/ To("quote") \/ Failed("live")   \* no source, no token
     ELSE To("history")

\* _call_with_retries: transient errors, up to the number of retries.
TryAgain(transient) == transient /\ Ask.attempt <= md.setting.retries

Retry == md' = [md EXCEPT !.ask.calls = @ + 1, !.ask.attempt = @ + 1]

\* A quote whose time has no zone raises TypeError, which the poller takes for a
\* wrong signature: it calls fetch_live again, five times in all.
AskAgain ==
  /\ Ask.tries < 5
  /\ md' = [md EXCEPT !.ask.calls = @ + 1, !.ask.attempt = 1, !.ask.tries = @ + 1]

AnswerQuote == Record(TRUE, "live", <<md.setting.to>>)

\* One kite.quote call of fetch_live.  An error of the source, such as a quote
\* without its key, is a failed record: history is not tried.
CallQuote ==
  /\ Ask.pc = "quote"
  /\ \/ AnswerQuote
     \/ AskAgain
     \/ \E transient \in BOOLEAN :
          IF TryAgain(transient) THEN Retry ELSE Failed("live")

\* DataGateway.load_data up to the fetch: the file of a CSV provider; readiness,
\* workflow and construction of the others; the token at Zerodha.
LoadData ==
  /\ Ask.pc = "history"
  /\ To(IF Csv THEN "csv" ELSE IF Zerodha THEN "chunks" ELSE md.setting.provider) \/ Failed("history")

\* What was fetched, unless its prices are refused.
Fetched(bars) ==
  \E accepted \in BOOLEAN :
    IF accepted /\ ValidFrame(bars) THEN Record(TRUE, "history", bars) ELSE Failed("history")

\* A CSV file is read whole, whatever range was asked for.
LoadFromCsv == Ask.pc = "csv" /\ Fetched(Sorted(md.setting.listed))

InRange == Sorted(Within(md.setting.listed, md.setting.from, md.setting.to))

\* The Upstox source knows its fallback file and nothing else.
FetchUpstox == Ask.pc = "upstox" /\ (Fetched(InRange) \/ Failed("history"))

\* The Dhan source makes one call, if it has its package and credentials, and no
\* second one.
FetchDhan == Ask.pc = "dhan" /\ (Fetched(InRange) \/ Failed("history"))

\* One kite.historical_data call of fetch_historical; all pieces or an error.
CallHistorical ==
  /\ Ask.pc = "chunks" /\ Ask.chunk <= Len(Chunks)
  /\ \/ LET piece == Chunks[Ask.chunk]
            bars == Sorted(Within(md.setting.listed, piece.from, piece.to))
        IN  md' = [md EXCEPT !.ask.calls = @ + 1, !.ask.attempt = 1, !.ask.chunk = @ + 1,
                             !.ask.bars = @ \o bars]
     \/ \E transient \in BOOLEAN :
          IF TryAgain(transient) THEN Retry ELSE Failed("history")

FinishHistorical ==
  /\ Ask.pc = "chunks" /\ Ask.chunk > Len(Chunks)
  /\ Fetched(Ask.bars)

MdNext ==
  \/ BeginSymbol \/ PollLive \/ CallQuote \/ LoadData \/ LoadFromCsv
  \/ FetchUpstox \/ FetchDhan \/ CallHistorical \/ FinishHistorical

MdSpec == MdInit /\ [][MdNext]_md

-----------------------------------------------------------------------------
(* Properties                                                              *)

\* What the pieces leave out: nothing, but a bar at the very end of the range
\* when that is the second between two pieces.
Promised ==
  {t \in Within(md.setting.listed, md.setting.from, md.setting.to) :
     t < md.setting.to \/ (md.setting.to - md.setting.from) % (md.setting.maxDays + 1) # 0}

\* However often calls are repeated, the pieces of a history that has been
\* fetched give every bar of the range once: nothing is refused for a bar that
\* came twice, and no piece is missing.
FetchIsWhole ==
  /\ Ask.pc = "chunks" /\ Ask.chunk > Len(Chunks) => Ask.bars = Sorted(Promised)
  /\ \A i \in DOMAIN md.records :
       LET r == md.records[i]
       IN  r.success /\ r.source = "history" /\ Zerodha => r.bars = Sorted(Promised)

\* A poll answers every symbol once and in order, its errors are the records
\* without success, and it never makes more calls than the retries of every
\* piece, or of every attempt at a quote, allow.
PollAnswersEach ==
  /\ PollSymbols = [i \in DOMAIN md.records |-> md.records[i].symbol] \o md.todo
  /\ LET failed == {i \in DOMAIN md.records : ~md.records[i].success}
     IN  md.errors = [j \in 1 .. Cardinality(failed) |-> md.records[Sorted(failed)[j]].symbol]
  /\ Ask.calls <= (md.setting.retries + 1) * (IF Ask.pc = "quote" THEN 5 ELSE Len(Chunks))
  /\ \A i \in DOMAIN md.records :
       md.records[i].source = "live" => SupportsWorkflow(md.setting.provider, TRUE)

\* A segment goes to a provider that serves it whenever the policy names one.
RoutesServe ==
  \A policy \in RoutePolicies, segment \in AllSegments :
    LET derivatives == segment \in DerivativeSegments
    IN  (\E p \in Range(policy.fallback) : Serves(p, segment, derivatives)) =>
          Serves(SelectForSegment(policy, segment), segment, derivatives)

\* Market data is complete where a fetch succeeds, a poll accounts for every
\* symbol, and a segment is routed to a provider that serves it.
DataArrivesWhole == FetchIsWhole /\ PollAnswersEach /\ RoutesServe
=============================================================================
