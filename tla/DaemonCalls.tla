------------------------------ MODULE DaemonCalls ------------------------------
(***************************************************************************)
(* Calls that the server forwards to the daemon in a bot's container:      *)
(* installation and configuration of a plugin (api/routes/bot-plugin-proxy *)
(* .ts, and POST /save of api/routes/setup.ts), and the bot's friends      *)
(* (api/routes/friends.ts).                                                *)
(*                                                                         *)
(* A configuration is kept twice: as a row of plugin_configs, which is     *)
(* written first, and by the daemon, which is told on a best effort.  A    *)
(* rollback deletes the row of its setup and tells the daemon nothing.     *)
(* proxyToInstance may fail before or after the daemon has acted.          *)
(* One bot, one plugin, one friend; the checks of ownership are abstracted,*)
(* and so are the encrypted fields, which PUT overwrites with null.        *)
(***************************************************************************)
EXTENDS ServerLoad

CONSTANTS
  Configs,      \* configurations of the plugin
  EmptyConfig,  \* {}, what is stored in the clear when all fields are secret
  NoConfig,     \* none
  DaemonSlots   \* slots of concurrent calls

ASSUME DaemonAssumption == NoConfig \notin Configs /\ EmptyConfig \in Configs

VARIABLES
  stored,       \* the row of plugin_configs
  ofSetup,      \* it has the id of a setup
  latest,       \* the configuration stored last, its row there or not (history)
  daemon,       \* what the daemon knows
  relay,        \* calls under way
  drifted       \* the daemon may not have the latest (history)

rowVars == <<stored, ofSetup, latest>>

daemonVars == <<rowVars, daemon, relay, drifted>>

NoRelay == [at |-> "idle", config |-> NoConfig, alone |-> TRUE]

RelayStates == {"idle", "install", "find", "push", "forward", "saveInstall",
                "saveForward", "dependent"}

DaemonInit ==
  /\ stored = NoConfig
  /\ ofSetup = FALSE
  /\ latest = NoConfig
  /\ daemon = [installed |-> FALSE, enabled |-> FALSE, config |-> NoConfig,
               friend |-> "none", capable |-> FALSE, autoAccept |-> FALSE]
  /\ relay = [k \in DaemonSlots |-> NoRelay]
  /\ drifted = FALSE

DaemonTypeOK ==
  /\ stored \in Configs \cup {NoConfig}
  /\ ofSetup \in BOOLEAN
  /\ latest \in Configs \cup {NoConfig}
  /\ daemon \in [installed : BOOLEAN, enabled : BOOLEAN, config : Configs \cup {NoConfig},
                 friend : {"none", "asked", "accepted", "rejected"},
                 capable : BOOLEAN, autoAccept : BOOLEAN]
  /\ relay \in [DaemonSlots -> [at : RelayStates, config : Configs \cup {NoConfig},
                                alone : BOOLEAN]]
  /\ drifted \in BOOLEAN

-----------------------------------------------------------------------------
Relaying == {k \in DaemonSlots : relay[k] # NoRelay}

\* A call begins; neither it nor those under way are alone any more.
Enter(k, at, config) ==
  /\ relay[k] = NoRelay
  /\ Begin("daemonCall")
  /\ relay' = [j \in DaemonSlots |->
       IF j = k THEN [at |-> at, config |-> config, alone |-> Relaying = {}]
       ELSE IF j \in Relaying THEN [relay[j] EXCEPT !.alone = FALSE] ELSE relay[j]]

Proceed(k, at, config) ==
  relay' = [relay EXCEPT ![k].at = at, ![k].config = config]

Leave(k) == relay' = [relay EXCEPT ![k] = NoRelay]

\* The plugin's configuration arrives at the daemon, which must have the plugin.
Told(k) ==
  /\ daemon.installed
  /\ daemon' = [daemon EXCEPT !.config = relay[k].config]

\* Mutant: the daemon is told the configuration only when it has none.
PutForwardedOnce(k) ==
  /\ daemon.installed
  /\ IF daemon.config = NoConfig THEN Told(k) ELSE UNCHANGED daemon
  /\ drifted' = ~relay[k].alone

\* PUT /config to the daemon; it has the latest if nobody else was at it.
Put(k) ==
  /\ Told(k)
  /\ drifted' = ~relay[k].alone

\* The daemon does not get it, or the answer is lost.
NotPut(k) ==
  /\ UNCHANGED daemon \/ Told(k)
  /\ drifted' = TRUE

Installed(k) == daemon' = [daemon EXCEPT !.installed = TRUE]

-----------------------------------------------------------------------------
(* bot-plugin-proxy.ts                                                     *)

\* POST /plugins/install: the daemon first.
InstallPlugin(k) ==
  /\ Enter(k, "install", NoConfig)
  /\ UNCHANGED <<rowVars, daemon, drifted>>

\* It has installed the plugin, and may have answered; without the answer the
\* stored configuration is not sent after it.
DaemonInstalls(k) ==
  /\ relay[k].at = "install"
  /\ Installed(k)
  /\ \/ Proceed(k, "find", NoConfig) /\ UNCHANGED drifted
     \/ Leave(k) /\ drifted' = TRUE
  /\ UNCHANGED rowVars

\* It has not.
InstallFails(k) ==
  /\ relay[k].at \in {"install", "saveInstall"}
  /\ Leave(k)
  /\ drifted' = (relay[k].at = "saveInstall" \/ drifted)
  /\ UNCHANGED <<rowVars, daemon>>

\* findByBotAndPlugin: a row is to be pushed; or it throws, and the answer is
\* 500 though the plugin is there.
FindStored(k) ==
  /\ relay[k].at = "find"
  /\ \/ stored # NoConfig /\ Proceed(k, "push", stored) /\ UNCHANGED drifted
     \/ stored = NoConfig /\ Leave(k) /\ UNCHANGED drifted
     \/ Leave(k) /\ drifted' = TRUE
  /\ UNCHANGED <<rowVars, daemon>>

\* The push of a stored row, the forward of PUT, or that of POST /save.
Forward(k) ==
  /\ relay[k].at \in {"push", "forward", "saveForward"}
  /\ Put(k) \/ NotPut(k)
  /\ Leave(k)
  /\ UNCHANGED rowVars

\* upsert, by a setup or with setupSessionId null.
Upsert(config, setup) ==
  /\ stored' = config
  /\ latest' = config
  /\ ofSetup' = setup
  /\ drifted' = TRUE

\* PUT /config: upsert ("always save to DB first").
PutConfig(k) ==
  \E config \in Configs :
    /\ Enter(k, "forward", config)
    /\ Upsert(config, FALSE)
    /\ UNCHANGED daemon

\* POST /enable and /disable: the daemon's own; its answer may be lost.
EnablePlugin ==
  /\ daemon.installed
  /\ Begin("daemonCall")
  /\ daemon' = [daemon EXCEPT !.enabled = TRUE]
  /\ UNCHANGED <<rowVars, relay, drifted>>

DisablePlugin ==
  /\ daemon.installed
  /\ Begin("daemonCall")
  /\ daemon' = [daemon EXCEPT !.enabled = FALSE]
  /\ UNCHANGED <<rowVars, relay, drifted>>

-----------------------------------------------------------------------------
(* POST /save of a setup, and what undoes it.                              *)

\* The upsert; what follows it may throw before anything is dispatched.
SaveConfig(k) ==
  \E config \in Configs :
    /\ Enter(k, "saveInstall", config)
    /\ Upsert(config, TRUE)
    /\ UNCHANGED daemon

\* dispatchPluginInstall; the configuration is dispatched only after it, and
\* only if there is something in it.
SaveInstalls(k) ==
  /\ relay[k].at = "saveInstall"
  /\ Installed(k)
  /\ \/ /\ relay[k].config # EmptyConfig
        /\ Proceed(k, "saveForward", relay[k].config)
        /\ UNCHANGED drifted
     \/ Leave(k) /\ drifted' = TRUE
  /\ UNCHANGED rowVars

\* The save of a plugin that depends on this one has been dispatched.
SaveDependent(k) ==
  /\ Enter(k, "dependent", NoConfig)
  /\ UNCHANGED <<rowVars, daemon, drifted>>

\* applyDependencyConfigs reads the rows of the bot, to push this one's; or
\* there is none, or its dependencies are not to be had.
FindForDependent(k) ==
  /\ relay[k].at = "dependent"
  /\ \/ stored # NoConfig /\ Proceed(k, "push", stored)
     \/ Leave(k)
  /\ UNCHANGED <<rowVars, daemon, drifted>>

\* deleteBySetupSession, of POST /rollback, the third /error and the cleanup of
\* stale setups.  Nobody tells the daemon.
DeleteConfig ==
  /\ stored # NoConfig
  /\ ofSetup
  /\ Begin("daemonCall")
  /\ stored' = NoConfig
  /\ ofSetup' = FALSE
  /\ UNCHANGED <<latest, daemon, relay, drifted>>

-----------------------------------------------------------------------------
(* friends.ts: the daemon's own.                                           *)

Befriend(from, to) ==
  /\ daemon.friend \in from
  /\ Begin("daemonCall")
  /\ daemon' = [daemon EXCEPT !.friend = to]
  /\ UNCHANGED <<rowVars, relay, drifted>>

\* POST /requests.
SendFriendRequest == Befriend({"none", "rejected"}, "asked")

\* POST /requests/:reqId/accept.
AcceptFriendRequest == Befriend({"asked"}, "accepted")

\* POST /requests/:reqId/reject.
RejectFriendRequest == Befriend({"asked"}, "rejected")

\* PATCH /:friendId/capabilities.
SetCapabilities ==
  /\ daemon.friend = "accepted"
  /\ Begin("daemonCall")
  /\ daemon' = [daemon EXCEPT !.capable = ~@]
  /\ UNCHANGED <<rowVars, relay, drifted>>

\* PUT /auto-accept.
SetAutoAccept ==
  /\ Begin("daemonCall")
  /\ daemon' = [daemon EXCEPT !.autoAccept = ~@]
  /\ UNCHANGED <<rowVars, relay, drifted>>

-----------------------------------------------------------------------------
DaemonRequests ==
  \/ \E k \in DaemonSlots : \/ InstallPlugin(k) \/ PutConfig(k) \/ SaveConfig(k)
                            \/ SaveDependent(k)
  \/ DeleteConfig
  \/ EnablePlugin
  \/ DisablePlugin
  \/ SendFriendRequest
  \/ AcceptFriendRequest
  \/ RejectFriendRequest
  \/ SetCapabilities
  \/ SetAutoAccept

DaemonEvents ==
  /\ \E k \in DaemonSlots : \/ DaemonInstalls(k) \/ InstallFails(k) \/ FindStored(k)
                            \/ Forward(k) \/ SaveInstalls(k) \/ FindForDependent(k)
  /\ UNCHANGED budget

\* What is left when the process ends: the row and the daemon.
RelaysCutOff ==
  /\ drifted' = (drifted \/ Relaying # {})
  /\ relay' = [k \in DaemonSlots |-> NoRelay]
  /\ UNCHANGED <<rowVars, daemon>>

-----------------------------------------------------------------------------
(* Properties.                                                             *)

\* With no call under way, a daemon that has the plugin has the configuration
\* that was stored last, and so does the row unless its setup has been rolled
\* back: then the daemon keeps what is stored nowhere.  Excepted are a last call
\* that failed at the daemon, was cut off or overlapped with another, and a
\* save of nothing but secrets, which sends nothing.
ConfigReachesDaemon ==
  (Relaying = {} /\ daemon.installed /\ ~drifted) =>
    daemon.config = latest /\ stored \in {latest, NoConfig}
=============================================================================
