----------------------------- MODULE Providers -----------------------------
(* The credentials and the session of one broker in the API process: the
   credential store over os.environ and the .env file, the session manager
   with its cache, the readiness report and the provider factory.  Requests
   run in the server's threads and interleave at every read or write of what
   they share; the process may die and start again; the broker accepts a
   token until it expires.                                                  *)
EXTENDS Naturals, Sequences

CONSTANTS
  Requests,        \* threads serving a request
  Credentials,     \* required_credentials of the broker in PROVIDER_REGISTRY
  TOKEN,           \* "ACCESS_TOKEN", the credential the broker judges
  Secrets,         \* values of credentials
  EMPTY, NONE,     \* the empty string, no value
  Settings,        \* the installations explored
  MaxRestarts, MaxExpiries   \* bounds of the exploration

ASSUME ProvidersAssumption ==
  TOKEN \in Credentials /\ EMPTY \notin Secrets /\ NONE \notin Secrets /\ EMPTY # NONE

\* The shell has an answer, if only NONE, for every variable.
ASSUME SettingAssumption == \A s \in Settings : s.shell = [c \in Credentials |-> s.shell[c]]

VARIABLES
  setting,   \* the broker, config/data_providers.yaml, the SDK, what is requested
  env,       \* os.environ
  file,      \* .env
  cache,     \* ProviderSessionManager._session_cache of the router
  accepted,  \* the tokens the broker accepts
  req,       \* the requests in progress
  stored,    \* credential -> the value last written to .env
  clash,     \* credentials whose update was not alone or was cut short
  bounds     \* restarts and expiries so far

vars == <<setting, env, file, cache, accepted, req, stored, clash, bounds>>

NoReport == [state |-> NONE, session |-> NONE, instantiate |-> FALSE]
NewRequest(op) ==
  [pc |-> "new", op |-> op, todo |-> <<>>, read |-> NONE, secrets |-> NONE, late |-> FALSE,
   frozen |-> NONE, complete |-> FALSE, own |-> NONE, session |-> NONE, report |-> NoReport,
   judged |-> FALSE, source |-> NONE]

Unset == [c \in Credentials |-> NONE]

Init ==
  /\ setting \in Settings
  /\ env = setting.shell
  /\ file = Unset
  /\ cache = NONE
  /\ accepted = setting.accepts
  /\ req = [r \in Requests |-> NewRequest(setting.ops[r])]
  /\ stored = Unset
  /\ clash = {}
  /\ bounds = [restarts |-> 0, expiries |-> 0]

-----------------------------------------------------------------------------
(* Credentials *)

Present(value) == value \notin {NONE, EMPTY}

\* The environment variable, then its aliases and the YAML entry.
Resolve(c, config) == IF Present(env[c]) THEN env[c] ELSE config[c]

\* The fields {PREFIX}_API_KEY, _API_SECRET and _ACCESS_TOKEN override.
Overridden == IF setting.kind = "dhan" THEN {TOKEN} ELSE Credentials

\* load_provider_config: the YAML entry overridden by the environment of now.
LoadConfig == [c \in Credentials |-> IF Present(env[c]) /\ c \in Overridden
                                     THEN env[c] ELSE setting.yaml[c]]

HasCredentials == \A c \in Credentials : Present(Resolve(c, LoadConfig))

\* The runtime profile asks for less: Upstox degrades to CSV files.
ProfileRequires == IF setting.kind = "upstox" THEN {} ELSE Credentials
FullyConfigured(config) == \A c \in ProfileRequires : Present(Resolve(c, config))

-----------------------------------------------------------------------------
(* Storing a credential *)

At(r, point) == req[r].pc = point
Goto(r, point) == req' = [req EXCEPT ![r].pc = point]

\* Requests between the update of os.environ and the end of the write of .env.
Storing(r) == req[r].pc \in {"read", "truncate", "write"}

Begin(r) ==
  LET op == req[r].op IN
  /\ At(r, "new")
  /\ \/ op.kind \in {"configure", "credentials"}
        /\ req' = [req EXCEPT ![r].pc = "store", ![r].todo = op.values]
     \/ op.kind \in {"validate"} /\ Goto(r, "check")
     \/ op.kind = "status" /\ Goto(r, "status")
     \/ op.kind \in {"report", "create"}
        /\ req' = [req EXCEPT ![r].pc = "resolve", ![r].frozen = LoadConfig]
     \/ op.kind = "callback"
        /\ \/ setting.sdk   \* generate_access_token succeeds
              /\ req' = [req EXCEPT ![r].pc = "store", ![r].todo = op.values]
           \/ Goto(r, "done")
  /\ UNCHANGED <<setting, env, file, cache, accepted, stored, clash, bounds>>

AfterStores(r) == IF req[r].op.kind = "configure" THEN "status" ELSE "check"

\* configure_credential: an unknown name is answered with an error and the
\* loop of /credentials goes on; os.environ is set before the file.
StoreEnv(r) ==
  LET item == Head(req[r].todo) IN
  /\ At(r, "store")
  /\ \/ req[r].todo = <<>> /\ Goto(r, AfterStores(r)) /\ UNCHANGED <<env, clash>>
     \/ req[r].todo # <<>> /\ item.name \notin Credentials
        /\ req' = [req EXCEPT ![r].todo = Tail(@),
                              ![r].pc = IF req[r].op.kind = "configure" THEN "done" ELSE @]
        /\ UNCHANGED <<env, clash>>
     \/ req[r].todo # <<>> /\ item.name \in Credentials
        /\ env' = [env EXCEPT ![item.name] = item.value]
        /\ req' = [o \in Requests |->
                     IF o = r THEN [req[r] EXCEPT !.pc = "read"]
                     ELSE [req[o] EXCEPT !.late = @ \/ req[o].pc = "broker"]]
        /\ clash' = IF \E o \in Requests \ {r} : Storing(o)
                    THEN clash \cup Credentials ELSE clash
  /\ UNCHANGED <<setting, file, cache, accepted, stored, bounds>>

ReadFile(r) ==
  /\ At(r, "read")
  /\ req' = [req EXCEPT ![r].pc = "truncate", ![r].read = file]
  /\ UNCHANGED <<setting, env, file, cache, accepted, stored, clash, bounds>>

TruncateFile(r) ==
  /\ At(r, "truncate")
  /\ file' = Unset
  /\ Goto(r, "write")
  /\ UNCHANGED <<setting, env, cache, accepted, stored, clash, bounds>>

\* Broken variant: the lines of the other credentials are not kept.
WriteFile_OneLine(r) ==
  LET item == Head(req[r].todo) IN
  /\ At(r, "write")
  /\ file' = [Unset EXCEPT ![item.name] = item.value]
  /\ stored' = [stored EXCEPT ![item.name] = item.value]
  /\ Goto(r, "pop")
  /\ UNCHANGED <<setting, env, cache, accepted, clash, bounds>>

\* The lines read with the new one.  What another thread wrote since this one
\* truncated the file may stay behind the text.
WriteFile(r) ==
  LET item == Head(req[r].todo)
      text == [req[r].read EXCEPT ![item.name] = item.value] IN
  /\ At(r, "write")
  /\ \E behind \in SUBSET {c \in Credentials : text[c] = NONE} :
       file' = [c \in Credentials |-> IF c \in behind THEN file[c] ELSE text[c]]
  /\ stored' = [stored EXCEPT ![item.name] = item.value]
  /\ Goto(r, "pop")
  /\ UNCHANGED <<setting, env, cache, accepted, clash, bounds>>

\* The file cannot be read or written: the exception leaves the request, with
\* os.environ changed and the cached session in place.
FileFails(r) ==
  /\ setting.disk /\ Storing(r)
  /\ Goto(r, "done")
  /\ clash' = clash \cup (IF At(r, "write") THEN Credentials ELSE {Head(req[r].todo).name})
  /\ cache' = IF cache = NONE THEN NONE ELSE [cache EXCEPT !.late = TRUE]
  /\ UNCHANGED <<setting, env, file, accepted, stored, bounds>>

\* Broken variant: the cached session outlives the credentials it was judged on.
PopCache_Keeps(r) ==
  /\ At(r, "pop")
  /\ req' = [req EXCEPT ![r].pc = "store", ![r].todo = Tail(@)]
  /\ UNCHANGED <<setting, env, file, cache, accepted, stored, clash, bounds>>

\* The cached session is dropped and the loop goes on.
PopCache(r) ==
  /\ At(r, "pop")
  /\ cache' = NONE
  /\ req' = [req EXCEPT ![r].pc = "store", ![r].todo = Tail(@)]
  /\ UNCHANGED <<setting, env, file, accepted, stored, clash, bounds>>

-----------------------------------------------------------------------------
(* The session *)

Cached(session, r) == [session |-> session, secrets |-> req[r].secrets, late |-> req[r].late]

\* A request of the provider factory has a session manager of its own.
ManagerOf(r) == IF req[r].op.kind = "create" THEN req[r].own ELSE cache

Reports(r) == req[r].op.kind \in {"report", "create"}

StatusOf(r) ==
  CASE ~HasCredentials -> "credentials_missing"
    [] HasCredentials /\ ManagerOf(r) # NONE -> ManagerOf(r).session
    [] OTHER -> "not_configured"

GetStatus(r) ==
  /\ At(r, "status")
  /\ req' = [req EXCEPT ![r].session = StatusOf(r),
                        ![r].pc = IF ~Reports(r) THEN "done"
                                  ELSE IF req[r].judged THEN "report" ELSE "judge"]
  /\ UNCHANGED <<setting, env, file, cache, accepted, stored, clash, bounds>>

\* validate_session: presence is judged with aliases and YAML, the secrets
\* sent to the broker come from the environment alone.
CheckCredentials(r) ==
  /\ At(r, "check")
  /\ Goto(r, IF HasCredentials THEN "snapshot" ELSE "status")
  /\ UNCHANGED <<setting, env, file, cache, accepted, stored, clash, bounds>>

ReadSecrets(r) ==
  /\ At(r, "snapshot")
  /\ req' = [req EXCEPT ![r].pc = "broker", ![r].secrets = env, ![r].late = FALSE]
  /\ UNCHANGED <<setting, env, file, cache, accepted, stored, clash, bounds>>

\* The secrets without which the broker is not asked.
Asks == CASE setting.kind = "zerodha" -> {TOKEN}
          [] setting.kind = "dhan" -> Credentials
          [] OTHER -> {}

\* The answer of the broker, or of an SDK that is missing or fails.
Answer(secrets, reached) ==
  IF ~setting.sdk THEN "invalid"
  ELSE IF \E c \in Asks : ~Present(secrets[c]) THEN "credentials_missing"
  ELSE IF reached /\ secrets[TOKEN] \in accepted THEN "active" ELSE "invalid"

Validated(r) ==
  /\ At(r, "broker")
  /\ \E reached \in BOOLEAN :
       LET session == Answer(req[r].secrets, reached)
           entry == Cached(session, r) IN
       /\ cache' = IF req[r].op.kind = "create" THEN cache ELSE entry
       /\ req' = [req EXCEPT ![r].session = session, ![r].late = FALSE,
                    ![r].own = IF req[r].op.kind = "create" THEN entry ELSE NONE,
                    ![r].pc = IF Reports(r) THEN "report" ELSE "done"]
  /\ UNCHANGED <<setting, env, file, accepted, stored, clash, bounds>>

-----------------------------------------------------------------------------
(* Readiness and the factory *)

\* The credentials are resolved before the session is looked at.
ResolveCredentials(r) ==
  /\ At(r, "resolve")
  /\ req' = [req EXCEPT ![r].pc = "status", ![r].complete = FullyConfigured(req[r].frozen)]
  /\ UNCHANGED <<setting, env, file, cache, accepted, stored, clash, bounds>>

\* The state of the report and whether a provider may be built: before a
\* validation, and after one.
Early(r) ==
  IF req[r].op.kind = "create" /\ ~setting.enabled THEN "disabled"
  ELSE IF ~req[r].complete THEN "missing_secrets"
  ELSE IF ~setting.workflow THEN "misconfigured" ELSE NONE
Late(session) ==
  CASE session = "invalid" -> "session_invalid"
    [] session = "active" -> "ready"
    [] OTHER -> "partial"

Instantiable(state) == state \in {"ready", "partial"}

Deliver(r, session, state) ==
  req' = [req EXCEPT ![r].session = session,
            ![r].report = [state |-> state, session |-> session,
                           instantiate |-> Instantiable(state)],
            ![r].pc = IF req[r].op.kind = "create" /\ Instantiable(state) THEN "build" ELSE "done"]

\* A session without credentials is taken for one not validated yet when the
\* configuration has them; one not validated yet is validated now.
Judge(r) ==
  LET session == IF req[r].session = "credentials_missing" /\ req[r].complete
                 THEN "not_configured" ELSE req[r].session
      validates == session = "not_configured" /\ ProfileRequires # {} IN
  /\ At(r, "judge")
  /\ \/ Early(r) # NONE /\ Deliver(r, session, Early(r))
     \/ Early(r) = NONE /\ validates
        /\ req' = [req EXCEPT ![r].pc = "check", ![r].judged = TRUE]
     \/ Early(r) = NONE /\ ~validates /\ Deliver(r, session, Late(session))
  /\ UNCHANGED <<setting, env, file, cache, accepted, stored, clash, bounds>>

Conclude(r) ==
  /\ At(r, "report")
  /\ Deliver(r, req[r].session, Late(req[r].session))
  /\ UNCHANGED <<setting, env, file, cache, accepted, stored, clash, bounds>>

\* The builder resolves the secrets again; Zerodha's alone looks whether they
\* are all there.
Build(r) ==
  LET values == [c \in Credentials |-> Resolve(c, req[r].frozen)]
      refused == setting.kind = "zerodha" /\ \E c \in Credentials : ~Present(values[c]) IN
  /\ At(r, "build")
  /\ req' = [req EXCEPT ![r].pc = "done", ![r].source = IF refused THEN NONE ELSE values]
  /\ UNCHANGED <<setting, env, file, cache, accepted, stored, clash, bounds>>

-----------------------------------------------------------------------------
(* The broker and the process *)

TokenExpires ==
  /\ bounds.expiries < MaxExpiries
  /\ \E token \in accepted : accepted' = accepted \ {token}
  /\ bounds' = [bounds EXCEPT !.expiries = @ + 1]
  /\ UNCHANGED <<setting, env, file, cache, req, stored, clash>>

\* The process dies and starts again: load_dotenv sets the variables the
\* shell has not set.
Restart ==
  /\ bounds.restarts < MaxRestarts
  /\ env' = [c \in Credentials |-> IF setting.shell[c] # NONE THEN setting.shell[c] ELSE file[c]]
  /\ cache' = NONE
  /\ req' = [r \in Requests |-> IF At(r, "new") THEN req[r] ELSE [req[r] EXCEPT !.pc = "done"]]
  /\ clash' = IF \E r \in Requests : At(r, "write") THEN Credentials ELSE clash
  /\ bounds' = [bounds EXCEPT !.restarts = @ + 1]
  /\ UNCHANGED <<setting, file, accepted, stored>>

Next ==
  \/ \E r \in Requests :
       \/ Begin(r) \/ StoreEnv(r) \/ ReadFile(r) \/ TruncateFile(r) \/ WriteFile(r)
       \/ FileFails(r) \/ PopCache(r) \/ GetStatus(r) \/ CheckCredentials(r) \/ ReadSecrets(r)
       \/ Validated(r) \/ ResolveCredentials(r) \/ Judge(r) \/ Conclude(r) \/ Build(r)
  \/ TokenExpires
  \/ Restart

Spec == Init /\ [][Next]_vars

-----------------------------------------------------------------------------
(* Properties *)

\* No request is between its change of os.environ and the end of its update.
Settled == \A r \in Requests : ~Storing(r) /\ ~At(r, "pop")

\* What the router answers from its cache was judged on the credentials the
\* process holds now - unless they changed while the broker was asked, or the
\* file could not be written.
CacheSpeaksOfCurrentSecrets ==
  Settled /\ cache # NONE => cache.late \/ cache.secrets = env

\* A credential written alone is in .env and in the environment, whatever
\* other credentials were stored before and after it and however often the
\* process was started again - unless the shell defines it.
StoredCredentialsAreDurable ==
  Settled => \A c \in Credentials \ clash :
    stored[c] # NONE => /\ file[c] = stored[c]
                        /\ setting.shell[c] = NONE => env[c] = stored[c]

\* A Zerodha source is never built without one of its secrets, although they
\* are read again after the report that allowed it.
SourceHasItsSecrets ==
  \A r \in Requests : req[r].source # NONE /\ setting.kind = "zerodha" =>
    \A c \in Credentials : Present(req[r].source[c])

\* The two together: nobody acts on credentials that are gone.
SecretsStayCurrent == CacheSpeaksOfCurrentSecrets /\ SourceHasItsSecrets
=============================================================================
