---------------------------- MODULE Notifications ----------------------------
(***************************************************************************)
(* automation/notification with the endpoints of api/routers/automation.py:*)
(* one service object whose preferences are loaded from a file on first    *)
(* use, replaced by a PUT and used by every run's notifications.  The      *)
(* endpoints run in a thread pool, so requests interleave.                 *)
(* Preferences are [on, digest: channels; silent: types; contacts: a       *)
(* sequence of [channel, target, enabled]].                                *)
(***************************************************************************)
EXTENDS Integers, FiniteSets, SequencesExt

CONSTANTS
  Callers,          \* requests, and runs of the scheduler, of one process
  NtSettings,       \* [ops: what each caller does, first: what the file holds, disk: writes may fail]
  DefaultPreferences,
  Masked,           \* what a target looks like to the page
  Numbers,          \* targets that are not strings, as a chat id written as a number
  Addresses,        \* targets that look like an email address
  NoPreferences, Torn, NoPrefsFile,
  MaxProcessRestarts        \* bound

VARIABLE nt         \* memory, file, the requests, what was delivered

\* Adapters that exist, in the order of their registration; the others are reserved.
Channels == <<"email", "telegram", "whatsapp">>

\* op: [kind, prefs | type | channel]; results: [contact, success]; delivered: contacts.
NewRequest(op) ==
  [pc |-> "start", op |-> op, prefs |-> NoPreferences, copy |-> NoPreferences,
   left |-> <<>>, results |-> <<>>, delivered |-> <<>>]

NtInit ==
  \E s \in NtSettings :
    nt = [memory |-> NoPreferences, file |-> s.first, disk |-> s.disk, restarts |-> 0,
          writers |-> {}, clean |-> TRUE, req |-> [r \in Callers |-> NewRequest(s.ops[r])]]

At(r, pc) == nt.req[r].pc = pc
Go(r, pc) == nt' = [nt EXCEPT !.req[r].pc = pc]
Updating == \E r \in Callers : At(r, "open") \/ At(r, "write")

-----------------------------------------------------------------------------
(* get_preferences                                                         *)

\* What is remembered is used; nothing is locked between the look and the load.
GetPreferences(r) ==
  /\ At(r, "start")
  /\ nt.req[r].op.kind # "put"
  /\ IF nt.memory = NoPreferences THEN Go(r, "load")
     ELSE nt' = [nt EXCEPT !.req[r].pc = "have", !.req[r].prefs = nt.memory]

\* A file that is missing, or cannot be parsed, gives the defaults: every channel off.
LoadPreferences(r) ==
  /\ At(r, "load")
  /\ nt' = [nt EXCEPT !.req[r].pc = "remember",
              !.req[r].copy = IF nt.file \in {NoPrefsFile, Torn} THEN DefaultPreferences ELSE nt.file]

\* The assignment overwrites what another request saved since the load.
Remember(r) ==
  /\ At(r, "remember")
  /\ nt' = [nt EXCEPT !.memory = nt.req[r].copy, !.req[r].pc = "start",
              !.clean = @ /\ nt.memory \in {NoPreferences, nt.req[r].copy} /\ ~Updating]

-----------------------------------------------------------------------------
(* Updating                                                                *)

\* Broken variant: the file first, the memory when it has been written.
SavePreferences_FileOnly(r, prefs) ==
  nt' = [nt EXCEPT !.req[r].prefs = prefs, !.req[r].pc = "open"]

\* The memory changes before the file does.
SavePreferences(r, prefs) ==
  nt' = [nt EXCEPT !.memory = prefs, !.req[r].prefs = prefs, !.req[r].pc = "open",
                   !.clean = @ /\ ~Updating]

\* A body with unknown or missing fields is refused before anything changes.
Put(r) ==
  /\ At(r, "start") /\ nt.req[r].op.kind = "put"
  /\ IF nt.req[r].op.prefs = NoPreferences THEN Go(r, "failed")
     ELSE SavePreferences(r, nt.req[r].op.prefs)

\* The page shows the answer of a GET, in which targets are masked, and saves all
\* of it with one channel changed; a target that is no string fails to be masked.
SafeDict(prefs) ==
  [prefs EXCEPT !.contacts = [i \in DOMAIN @ |-> [@[i] EXCEPT !.target = Masked]]]
Maskable(prefs) == \A i \in DOMAIN prefs.contacts : prefs.contacts[i].target \notin Numbers

PageSaves(r) ==
  /\ At(r, "have") /\ nt.req[r].op.kind = "page"
  /\ IF Maskable(nt.req[r].prefs)
     THEN SavePreferences(r, [SafeDict(nt.req[r].prefs) EXCEPT !.on = @ \cup {"telegram"}])
     ELSE Go(r, "failed")

\* Opening truncates.  A failed write is answered 400; the memory keeps the new ones.
OpenPreferences(r) ==
  /\ At(r, "open")
  /\ \/ nt' = [nt EXCEPT !.file = Torn, !.writers = @ \cup {r}, !.req[r].pc = "write"]
     \/ nt.disk /\ nt' = [nt EXCEPT !.req[r].pc = "failed", !.clean = FALSE]

\* Two writers leave the one, the other, or a mixture.  What was saved may still be
\* answered 400, when a target cannot be masked for the answer.
WritePreferences(r) ==
  /\ At(r, "write")
  /\ LET alone == nt.writers = {r}
         answered == IF Maskable(nt.req[r].prefs) THEN "done" ELSE "failed"
     IN  \E written \in {nt.req[r].prefs} \cup (IF alone THEN {} ELSE {Torn}) :
           nt' = [nt EXCEPT !.file = written, !.writers = @ \ {r}, !.req[r].pc = answered]

Answer(r) == At(r, "have") /\ nt.req[r].op.kind = "get"
             /\ Go(r, IF Maskable(nt.req[r].prefs) THEN "done" ELSE "failed")

-----------------------------------------------------------------------------
(* Sending                                                                 *)

ContactsFor(prefs, channel) ==
  SelectSeq(prefs.contacts, LAMBDA c : c.channel = channel /\ c.enabled)

\* The contacts of the channels that are on, channel by channel.
Recipients(prefs) ==
  FlattenSeq([i \in DOMAIN Channels |->
     IF Channels[i] \in prefs.on THEN ContactsFor(prefs, Channels[i]) ELSE <<>>])

Send(r) ==
  /\ At(r, "have") /\ nt.req[r].op.kind = "send"
  /\ IF nt.req[r].op.type \in nt.req[r].prefs.silent THEN Go(r, "done")
     ELSE nt' = [nt EXCEPT !.req[r].pc = "deliver", !.req[r].left = Recipients(nt.req[r].prefs)]

\* What an adapter can do: [result, delivered].
Failure(delivered) == [result |-> "failed", delivered |-> delivered]
Success == [result |-> "sent", delivered |-> TRUE]

\* SMTP may be missing, or take the mail and fail at the farewell; a target that is
\* no address is refused, and one that is no string raises.
MailOutcomes(target) ==
  {Failure(FALSE)} \cup
  (IF target \in Numbers THEN {[result |-> "raised", delivered |-> FALSE]}
   ELSE IF target \in Addresses THEN {Success, Failure(TRUE)} ELSE {})

\* The token may be missing, the call may fail or its answer be lost.
ChatOutcomes == {Success, Failure(FALSE), Failure(TRUE)}

Outcomes(contact) ==
  CASE contact.channel = "email" -> MailOutcomes(contact.target)
    [] contact.channel = "telegram" -> ChatOutcomes
    [] contact.channel \notin {"email", "telegram"} -> {Failure(FALSE)}

\* One result per contact; a success is logged with its target masked, which raises
\* for a number and adds a failure to it.
ResultsOf(contact, outcome) ==
  IF outcome = "sent" /\ contact.target \in Numbers
  THEN <<[contact |-> contact, success |-> TRUE], [contact |-> contact, success |-> FALSE]>>
  ELSE <<[contact |-> contact, success |-> outcome = "sent"]>>

Deliver(r) ==
  /\ At(r, "deliver")
  /\ LET q == nt.req[r]
     IN  IF q.left = <<>> THEN Go(r, "done")
         ELSE \E o \in Outcomes(Head(q.left)) :
                nt' = [nt EXCEPT !.req[r] =
                   [q EXCEPT !.left = Tail(@),
                             !.results = @ \o ResultsOf(Head(q.left), o.result),
                             !.delivered = IF o.delivered THEN Append(@, Head(q.left)) ELSE @]]

\* A test goes to the first contact, whether the channel is on or not.
SendTest(r) ==
  /\ At(r, "have") /\ nt.req[r].op.kind = "test"
  /\ LET contacts == ContactsFor(nt.req[r].prefs, nt.req[r].op.channel)
     IN  IF contacts = <<>> THEN Go(r, "failed")
         ELSE \E o \in Outcomes(Head(contacts)) :
                nt' = [nt EXCEPT !.req[r].pc = IF o.result = "sent" THEN "done" ELSE "failed",
                         !.req[r].delivered = IF o.delivered THEN <<Head(contacts)>> ELSE <<>>]

-----------------------------------------------------------------------------
\* The process dies with its requests; what was half written stays.
NtRestart ==
  /\ nt.restarts < MaxProcessRestarts
  /\ nt' = [nt EXCEPT !.memory = NoPreferences, !.restarts = @ + 1, !.writers = {},
              !.req = [r \in Callers |->
                 IF nt.req[r].pc \in {"start", "done", "failed"} THEN nt.req[r]
                 ELSE [nt.req[r] EXCEPT !.pc = "dead"]]]

NtNext ==
  \/ \E r \in Callers :
       \/ GetPreferences(r) \/ LoadPreferences(r) \/ Remember(r)
       \/ Put(r) \/ PageSaves(r) \/ OpenPreferences(r) \/ WritePreferences(r)
       \/ Answer(r) \/ Send(r) \/ Deliver(r) \/ SendTest(r)
  \/ NtRestart

NtSpec == NtInit /\ [][NtNext]_nt

-----------------------------------------------------------------------------
(* Properties                                                              *)

\* While no update is under way, the preferences in use are the ones in the file -
\* the defaults while there is none - unless two updates overlapped, a first load
\* overlapped an update, or a write failed.
PreferencesInUseAreSaved ==
  (nt.clean /\ nt.memory # NoPreferences /\ ~Updating)
    => nt.memory = IF nt.file \in {NoPrefsFile, Torn} THEN DefaultPreferences ELSE nt.file

\* A notification has gone to the enabled contacts of the channels that are on, each
\* once and in their order, whatever failed on the way; what is reported as sent was
\* delivered, and only a target that is no string has two results.
EachContactIsServed ==
  \A r \in Callers :
    LET q == nt.req[r]
        due == IF q.op.type \in q.prefs.silent THEN <<>> ELSE Recipients(q.prefs)
    IN  (q.op.kind = "send" /\ q.pc = "done") =>
          /\ q.delivered = SelectSeq(due, LAMBDA c : c \in ToSet(q.delivered))
          /\ \A c \in ToSet(due) :
               LET got == SelectSeq(q.results, LAMBDA x : x.contact = c)
               IN  /\ Len(got) = 1 \/ (c.target \in Numbers /\ Len(got) = 2)
                   /\ (\E i \in DOMAIN got : got[i].success) => c \in ToSet(q.delivered)
          /\ {q.results[i].contact : i \in DOMAIN q.results} \subseteq ToSet(due)
=============================================================================
