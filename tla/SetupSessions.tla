----------------------------- MODULE SetupSessions -----------------------------
(***************************************************************************)
(* Setup of a plugin from a chat (api/routes/setup.ts), the table          *)
(* setup_sessions (drizzle migration 0000) and SetupService of             *)
(* platform-core as the routes use it; the cleanup cron of index.ts.       *)
(*                                                                         *)
(* The table's only constraint is UNIQUE(session_id, status): of one chat  *)
(* there is one session in progress, but also one that is complete and one *)
(* that was rolled back.  A second one that is to get such a status        *)
(* violates the constraint, and the update throws.                         *)
(*                                                                         *)
(* Abstracted: what is configured.  The write of POST /save into the bot's *)
(* environment is in BotPlugins, its dispatches are in DaemonCalls.        *)
(***************************************************************************)
EXTENDS ServerLoad

CONSTANTS
  Setups,       \* bound: sessions, numbered
  SaveSlots     \* slots of concurrent saves

ASSUME SetupAssumption == Setups \subseteq Nat \ {0}

VARIABLES
  session,      \* setup_sessions, and the request that has started one
  save,         \* saves under way: the session each is for
  config        \* sessions with a row in plugin_configs

setupVars == <<session, save, config>>

NoSetup == 0

MaxErrors == 3

\* `req`: what the request that starts the session still has to do.
\* History: `raced`, a save of it overlapped its rollback, or went through
\* before the request that had started it gave it up.
Statuses == {"none", "in_progress", "complete", "rolled_back"}

NoSession ==
  [chat |-> CHOOSE s \in Chats : TRUE, status |-> "none", errors |-> 0,
   stale |-> FALSE, req |-> "idle", raced |-> FALSE]

SetupInit ==
  /\ session = [i \in Setups |-> NoSession]
  /\ save = [k \in SaveSlots |-> NoSetup]
  /\ config = {}

SetupTypeOK ==
  /\ session \in [Setups -> [chat : Chats, status : Statuses, errors : 0..MaxErrors,
        stale : BOOLEAN, req : {"idle", "insert", "inject", "undo"}, raced : BOOLEAN]]
  /\ save \in [SaveSlots -> Setups \cup {NoSetup}]
  /\ config \subseteq Setups

InProgress(s) == {i \in Setups : session[i].chat = s /\ session[i].status = "in_progress"}

-----------------------------------------------------------------------------
(* The table.                                                              *)

\* UNIQUE(session_id, status) lets session i have the status.
Unique(i, status) ==
  \A j \in Setups \ {i} :
    ~(session[j].chat = session[i].chat /\ session[j].status = status)

Saving(i) == \E k \in SaveSlots : save[k] = i

\* Mutant: a status nobody knows.
RolledBackAsFailed(i) == [session[i] EXCEPT !.status = "failed"]

\* Mutant: what the session has collected is reset, and its status is not set.
RolledBackReset(i) == [session[i] EXCEPT !.errors = 0]

\* markRolledBack.
RolledBack(i) ==
  [session[i] EXCEPT !.status = "rolled_back",
     !.raced = @ \/ Saving(i) \/ (session[i].req = "undo" /\ i \in config)]

\* rollback of SetupService: the configuration saved for the session goes,
\* then its status is set; it throws if the constraint forbids that.
RollBack(i) ==
  /\ config' = config \ {i}
  /\ session' = IF Unique(i, "rolled_back")
                THEN [session EXCEPT ![i] = RolledBack(i)] ELSE session

-----------------------------------------------------------------------------
(* POST /                                                                  *)

\* findBySessionId finds no session of the chat in progress (otherwise 409).
BeginSetup ==
  \E i \in Setups, s \in Chats :
    /\ session[i] = NoSession
    /\ \A j \in Setups : session[j] = NoSession => i <= j
    /\ InProgress(s) = {}
    /\ Begin("setup")
    /\ session' = [session EXCEPT ![i].chat = s, ![i].req = "insert"]
    /\ UNCHANGED <<save, config>>

\* insert; a unique violation answers 409.
Insert(i) ==
  /\ session[i].req = "insert"
  /\ session' = IF Unique(i, "in_progress")
                THEN [session EXCEPT ![i].status = "in_progress", ![i].req = "inject"]
                ELSE [session EXCEPT ![i].req = "idle"]
  /\ UNCHANGED <<save, config>>

\* checkProvider and inject: they succeed, checkProvider throws and leaves
\* the session as it is, or inject fails and the session is to be rolled back.
Inject(i) ==
  /\ session[i].req = "inject"
  /\ \E next \in {"idle", "undo"} : session' = [session EXCEPT ![i].req = next]
  /\ UNCHANGED <<save, config>>

\* markRolledBack after a failed inject; it may violate the constraint.
UndoInsert(i) ==
  /\ session[i].req = "undo"
  /\ session' = [session EXCEPT ![i] =
       [(IF Unique(i, "rolled_back") THEN RolledBack(i) ELSE @) EXCEPT !.req = "idle"]]
  /\ UNCHANGED <<save, config>>

-----------------------------------------------------------------------------
(* The other routes; each finds the session or answers 404.                *)

Known(i) == session[i].status # "none"

\* POST /rollback, whatever the status.
Rollback(i) ==
  /\ Known(i)
  /\ Begin("setupCall")
  /\ RollBack(i)
  /\ UNCHANGED save

\* POST /complete, whatever the status.
Complete(i) ==
  /\ Known(i)
  /\ Unique(i, "complete")
  /\ Begin("setupCall")
  /\ session' = [session EXCEPT ![i].status = "complete"]
  /\ UNCHANGED <<save, config>>

\* POST /error: the count goes up, and the third error rolls back.
RecordError(i) ==
  LET n == session[i].errors + 1 IN
  /\ Known(i)
  /\ session[i].errors < MaxErrors
  /\ Begin("setupCall")
  /\ session' = [session EXCEPT ![i] =
       [(IF n = MaxErrors /\ Unique(i, "rolled_back") THEN RolledBack(i) ELSE @)
          EXCEPT !.errors = n]]
  /\ config' = IF n = MaxErrors THEN config \ {i} ELSE config
  /\ UNCHANGED save

\* Mutant: the status is not looked at.
SavableAlways(i) == Known(i)

Savable(i) == session[i].status = "in_progress"

\* POST /save: the session is in progress when it is read.
BeginSave(k) ==
  \E i \in Setups :
    /\ save[k] = NoSetup
    /\ Savable(i)
    /\ Begin("setupCall")
    /\ save' = [save EXCEPT ![k] = i]
    /\ UNCHANGED <<session, config>>

\* The upsert, and what comes after it: recordSuccess resets the errors,
\* unless one of the calls in between throws.
FinishSave(k) ==
  /\ save[k] # NoSetup
  /\ config' = config \cup {save[k]}
  /\ \E n \in {0, session[save[k]].errors} :
       session' = [session EXCEPT ![save[k]].errors = n]
  /\ save' = [save EXCEPT ![k] = NoSetup]

\* A call before the upsert throws.
SaveThrows(k) ==
  /\ save[k] # NoSetup
  /\ save' = [save EXCEPT ![k] = NoSetup]
  /\ UNCHANGED <<session, config>>

-----------------------------------------------------------------------------
(* The cleanup.                                                            *)

\* Thirty minutes have passed since the session was started.
GoStale(i) ==
  /\ session[i].status = "in_progress"
  /\ ~session[i].stale
  /\ session' = [session EXCEPT ![i].stale = TRUE]
  /\ UNCHANGED <<save, config>>

Stale(i) == session[i].stale /\ session[i].status = "in_progress"

\* cleanupStaleSessions, one session of its selection.
Cleanup(i) ==
  /\ Stale(i)
  /\ RollBack(i)
  /\ UNCHANGED save

\* What is left when the process ends: the tables.
SetupsCutOff ==
  /\ session' = [i \in Setups |-> [session[i] EXCEPT !.req = "idle"]]
  /\ save' = [k \in SaveSlots |-> NoSetup]
  /\ UNCHANGED config

SetupEvents ==
  /\ \/ \E i \in Setups : Insert(i) \/ Inject(i) \/ UndoInsert(i) \/ GoStale(i)
     \/ \E k \in SaveSlots : FinishSave(k) \/ SaveThrows(k)
  /\ UNCHANGED budget

SetupRequests ==
  \/ BeginSetup
  \/ \E i \in Setups : Rollback(i) \/ Complete(i) \/ RecordError(i)
  \/ \E k \in SaveSlots : BeginSave(k)

-----------------------------------------------------------------------------
(* Properties.                                                             *)

\* A setup that was rolled back leaves no configuration, unless a save that
\* had found it in progress was overtaken by the rollback, or was done before
\* the request that had started the setup failed.
RolledBackIsUnconfigured ==
  \A i \in config : session[i].status = "rolled_back" => session[i].raced

\* A stale setup does not stay in progress, if no setup of its chat has been
\* rolled back before: time and again the cleanup has got through all of them.
FirstStaleSettles ==
  []<>(\A i \in Setups : ~(Stale(i) /\ Unique(i, "rolled_back")))
=============================================================================
