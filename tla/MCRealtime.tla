----------------------------- MODULE MCRealtime -----------------------------
(***************************************************************************)
(* Model-checking instances of what tells the user that something happened:*)
(* the polling engine with its monitor and alerts, and the notifications   *)
(* of the automation.  One of them is under way in a behaviour.            *)
(***************************************************************************)
EXTENDS Realtime, Notifications

VARIABLE part

mcVars == <<part, vars, nt>>

CONSTANTS a, bull, bear, sender, page, client, number, me, you, chat

\* Nothing, one symbol found by two strategies.
AllScans == {<<>>, <<a, a>>}

Swaps == Permutations({bull, bear})

Setting ==
  [enabled |-> TRUE, bus |-> TRUE, continueOnError |-> TRUE, onlyMarketHours |-> FALSE,
   live |-> {"unsupported"}, bars |-> {"ok"}, dispatch |-> TRUE, persist |-> TRUE,
   disk |-> FALSE, symbols |-> TRUE, tolerant |-> TRUE,
   monitorFaults |-> {"regime"}, renew |-> FALSE, faults |-> {}]

CycleEvents == {"cycle_started", "market_closed", "snapshot_updated", "alert_generated",
                "provider_error", "cycle_completed"}

LiveOutcomes == {"unsupported", "error", "unparsable", "no_close", "ok"}

\* The user interface's engines; a service that stops at the first error, with
\* subscribers that raise anywhere; one that goes on, with a disk that fails;
\* polling in market hours; the parts switched off one by one.
AllSettings ==
  {[Setting EXCEPT !.renew = TRUE, !.faults = CycleEvents],
   [Setting EXCEPT !.continueOnError = FALSE,
                   !.faults = {"engine_started", "engine_stopped", "cycle_completed"}],
   [Setting EXCEPT !.continueOnError = FALSE, !.disk = TRUE, !.tolerant = FALSE,
                   !.monitorFaults = {"watchlists", "scan", "regime"}],
   [Setting EXCEPT !.disk = TRUE, !.faults = {"engine_stopped", "snapshot_updated", "provider_error"}],
   [Setting EXCEPT !.onlyMarketHours = TRUE, !.live = LiveOutcomes,
                   !.monitorFaults = {"watchlists", "empty", "scan", "fallback"},
                   !.faults = {"market_closed"}],
   [Setting EXCEPT !.bus = FALSE, !.dispatch = FALSE],
   [Setting EXCEPT !.persist = FALSE, !.bars = {"ok", "empty", "error"}],
   [Setting EXCEPT !.symbols = FALSE],
   [Setting EXCEPT !.enabled = FALSE]}

-----------------------------------------------------------------------------
(* Notifications                                                           *)

Contact(channel, target) == [channel |-> channel, target |-> target, enabled |-> TRUE]
MailAndChat ==
  [on |-> {"email", "whatsapp"}, silent |-> {"started"},
   contacts |-> <<Contact("telegram", number), Contact("email", me), Contact("email", number),
                  Contact("whatsapp", chat), [Contact("email", you) EXCEPT !.enabled = FALSE]>>]
ChatOnly ==
  [on |-> {"telegram"}, silent |-> {},
   contacts |-> <<Contact("telegram", number), Contact("telegram", chat), Contact("email", me)>>]
MailOnly == [on |-> {"email"}, silent |-> {}, contacts |-> <<Contact("email", me)>>]
MCDefaultPreferences == [on |-> {}, silent |-> {}, contacts |-> <<>>]

Doing(first, second, third) == (sender :> first) @@ (page :> second) @@ (client :> third)
SendIt(type) == [kind |-> "send", type |-> type]
PutIt(prefs) == [kind |-> "put", prefs |-> prefs]
TestIt(channel) == [kind |-> "test", channel |-> channel]
GetIt == [kind |-> "get"]
PageIt == [kind |-> "page"]

\* A run notifies while the page saves what it was shown and a client saves its own;
\* two clients; a test, a refused body, a file that is there, is not, or is torn.
MCNtSettings ==
  {[first |-> first, disk |-> disk, ops |-> ops] :
     first \in {NoPrefsFile, Torn, MailAndChat, MailOnly}, disk \in BOOLEAN,
     ops \in {Doing(SendIt("failed"), PageIt, PutIt(ChatOnly)),
              Doing(SendIt("started"), PutIt(MailAndChat), PutIt(ChatOnly)),
              Doing(SendIt("failed"), TestIt("telegram"), PutIt(MailAndChat)),
              Doing(GetIt, TestIt("email"), PutIt(NoPreferences))}}

-----------------------------------------------------------------------------
(* One part at a time                                                      *)

MCInit ==
  /\ part \in {"engine", "notifications"}
  /\ Init
  /\ IF part = "engine" THEN nt = NoPreferences ELSE settings = [Setting EXCEPT !.enabled = FALSE] /\ NtInit

MCNext ==
  /\ UNCHANGED part
  /\ \/ part = "engine" /\ Next /\ UNCHANGED nt
     \/ part = "notifications" /\ NtNext /\ UNCHANGED vars

MCSpec == MCInit /\ [][MCNext]_mcVars

\* The preferences in use are the saved ones, and a notification reaches each of its
\* contacts once, whatever request comes between.
NotificationsFitTogether ==
  part = "notifications" => PreferencesInUseAreSaved /\ EachContactIsServed
=============================================================================
