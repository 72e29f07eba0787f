---------------------------- MODULE MCProviders ----------------------------
(***************************************************************************)
(* Model-checking instances of what lies between the platform and its      *)
(* brokers: sessions and credentials, the instrument cache of Kite, and    *)
(* the way of market data.  One of them is under way in a behaviour.       *)
(***************************************************************************)
EXTENDS Providers, InstrumentMaster, MarketData, TLC

VARIABLE part

mcVars == <<part, vars, imVars, md>>

CONSTANTS KEY, UNKNOWN, r1, r2, r3, v1, v2

-----------------------------------------------------------------------------
(* Sessions and credentials                                                *)

Op(kind) == [kind |-> kind, values |-> <<>>]
Set(kind, values) == [kind |-> kind, values |-> values]
Item(name, value) == [name |-> name, value |-> value]

Ops(a, b, c) == (r1 :> a) @@ (r2 :> b) @@ (r3 :> c)
Both(key, token) == (KEY :> key) @@ (TOKEN :> token)

\* The whole pair of credentials, with a name no broker has among them.
StoreAll(value) == Set("credentials", <<Item(KEY, value), Item(UNKNOWN, v1), Item(TOKEN, value)>>)
StoreToken(kind, value) == Set(kind, <<Item(TOKEN, value)>>)

Setting == [kind |-> "zerodha", shell |-> Unset, yaml |-> Unset, accepts |-> {v1},
            sdk |-> TRUE, enabled |-> TRUE, workflow |-> TRUE, disk |-> FALSE,
            ops |-> Ops(StoreAll(v1), StoreToken("configure", v2), Op("validate"))]

\* Two clients store while a third validates; the callback of the login races
\* the health page; the factory while credentials are emptied; the other
\* brokers; a shell that defines the token, a disk that fails, a disabled
\* provider, an unsuitable workflow, a missing SDK.
AllSettings ==
  {Setting,
   [Setting EXCEPT !.disk = TRUE, !.ops = Ops(StoreAll(v1), Op("validate"), StoreToken("callback", v2))],
   [Setting EXCEPT !.yaml = Both(v1, NONE), !.accepts = {v1, v2},
                   !.ops = Ops(StoreToken("callback", v1), Op("report"), StoreToken("configure", v2))],
   [Setting EXCEPT !.yaml = Both(v1, NONE),
                   !.ops = Ops(Op("create"), StoreToken("configure", v1), StoreToken("configure", EMPTY))],
   [Setting EXCEPT !.kind = "dhan", !.yaml = Both(v1, NONE),
                   !.ops = Ops(Op("create"), StoreToken("configure", v1), Op("report"))],
   [Setting EXCEPT !.kind = "upstox", !.ops = Ops(Op("create"), StoreAll(v1), Op("report"))],
   [Setting EXCEPT !.shell = Both(NONE, v2), !.ops = Ops(StoreAll(v1), Op("status"), Op("report"))],
   [Setting EXCEPT !.shell = Both(v1, v1), !.enabled = FALSE,
                   !.ops = Ops(Op("create"), Set("configure", <<Item(UNKNOWN, v1)>>), Op("validate"))],
   [Setting EXCEPT !.shell = Both(v1, v1), !.workflow = FALSE, !.sdk = FALSE,
                   !.ops = Ops(Op("create"), StoreToken("callback", v1), Op("validate"))]}

-----------------------------------------------------------------------------
(* Instruments                                                             *)

Contract(id, ex, kind, symbol, name, expiry, lot, from) ==
  [id |-> id, ex |-> ex, kind |-> kind, symbol |-> symbol, name |-> name,
   expiry |-> expiry, strike |-> 0, lot |-> lot, from |-> from]

\* A share and an index without a lot; futures of one underlying, and two without
\* a name that expire on one day, the second of them listed later.
MCContracts ==
  {Contract(1, "NSE", "equity", "INFY", "INFOSYS", 0, 1, 1),
   Contract(2, "NSE", "index", "NIFTY 50", "NIFTY", 0, 0, 1),
   Contract(3, "NFO", "future", "NIFTYJAN", "NIFTY", 1, 50, 1),
   Contract(4, "NFO", "future", "NIFTYFEB", NoName, 2, 50, 1),
   Contract(5, "NFO", "future", "GOLDFEB", NoName, 2, 50, 2)}

-----------------------------------------------------------------------------
(* Market data                                                             *)

Poll(provider, live, retries, to) ==
  [provider |-> provider, live |-> live, retries |-> retries, from |-> 0, to |-> to,
   maxDays |-> 3, listed |-> {0, 2, 3, 4, 6, 7, 8}]

\* Ranges of one, two and three pieces; one that ends in the second between two.
MCMdSettings ==
  {Poll(provider, live, retries, to) :
     provider \in DOMAIN ProviderCapabilities, live \in BOOLEAN,
     retries \in {0, 2}, to \in {0, 3, 4, 7, 9}}
MCPollSymbols == <<"INFY", "TCS">>

MCRoutePolicies ==
  {[default |-> "zerodha", derivatives |-> d, cash |-> c, fallback |-> f] :
     d \in {NoProvider, "dhan", "upstox"}, c \in {NoProvider, "indian_csv", "other"},
     f \in {<<"zerodha", "csv">>, <<"zerodha", "dhan", "csv">>,
            <<"zerodha", "dhan", "upstox", "csv">>, <<>>}}

-----------------------------------------------------------------------------
(* One part at a time                                                      *)

MCInit ==
  /\ part \in {"sessions", "instruments", "data"}
  /\ IF part = "sessions" THEN Init ELSE Init /\ setting = Setting
  /\ ImInit
  /\ IF part = "data" THEN MdInit ELSE MdInit /\ md.setting = Poll("zerodha", FALSE, 0, 0)

MCNext ==
  /\ UNCHANGED part
  /\ \/ part = "sessions" /\ Next /\ UNCHANGED <<imVars, md>>
     \/ part = "instruments" /\ ImNext /\ UNCHANGED <<vars, md>>
     \/ part = "data" /\ MdNext /\ UNCHANGED <<vars, imVars>>

MCSpec == MCInit /\ [][MCNext]_mcVars
=============================================================================
