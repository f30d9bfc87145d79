----------------------------- MODULE BotPlugins -----------------------------
(***************************************************************************)
(* The plugin state of ONE bot and the HTTP handlers that rewrite it       *)
(* (api/routes/bot-plugins.ts, marketplace.ts, setup.ts, fleet.ts).        *)
(*                                                                         *)
(* A bot's plugin state lives in the environment of its profile:           *)
(* WOPR_PLUGINS, WOPR_PLUGINS_DISABLED, one WOPR_PLUGIN_<ID>_CONFIG per    *)
(* plugin, WOPR_HOSTED_KEYS with the credentials it lists, the map         *)
(* WOPR_CAPABILITY_PROVIDERS and the WOPR_CAP_<ID>_ACTIVE flags.  Every    *)
(* handler reads the whole environment, awaits something, and writes the   *)
(* whole environment back, either with ProfileStore.save followed by a     *)
(* best-effort dispatch to the container, or with FleetManager.update,     *)
(* which stores the profile and restarts the container.  Handlers of       *)
(* different requests interleave at every await.                           *)
(*                                                                         *)
(* Abstracted: comma-separated lists are sets, JSON values keep only the   *)
(* hosted choices, a credential is the presence of its variable.  Two ids  *)
(* that differ in letter case share one config variable; the fields shared *)
(* and lost record when that happens and are no part of the environment.   *)
(* Format validation, tenant ownership and the existence of a marketplace  *)
(* plugin reject a request before its profile matters and are left out.    *)
(* Requests that set variables by name (a PATCH, a setup form) set         *)
(* credentials and variables that are not plugin state, never WOPR_PLUGINS *)
(* and the like.                                                           *)
(***************************************************************************)
EXTENDS Naturals, FiniteSets

CONSTANTS
  Handlers,      \* concurrent request handlers
  Plugins,       \* plugin ids a request may name
  Caps,          \* capability names a request may name
  KnownCaps,     \* those CAPABILITY_ENV_MAP knows
  Keys,          \* credential variables
  EnvKey,        \* the variable of a known capability
  ConfigKeys,    \* names of WOPR_PLUGIN_<ID>_CONFIG variables
  ConfigKey,     \* the config variable of a plugin id (upper-cased, - to _)
  Provides,      \* capabilities a plugin's manifest declares
  Primaries,     \* primaryProviderOverrides a request may carry
  NoPlugin,      \* "no primary provider"
  NoOverrides,   \* the request carries no primaryProviderOverrides
  NoBot,         \* the profile has been removed
  Kinds,         \* the request kinds of this instance
  MaxRequests    \* bound: requests started

AllKinds ==
  {"install", "market", "uninstall", "toggle", "activate", "setup", "patch",
   "destroy"}

ASSUME TypeAssumption ==
  /\ Kinds \subseteq AllKinds
  /\ KnownCaps \subseteq Caps
  /\ EnvKey \in [KnownCaps -> Keys]
  /\ ConfigKey \in [Plugins -> ConfigKeys]
  /\ Provides \in [Plugins -> SUBSET Caps]
  /\ NoPlugin \notin Plugins
  /\ Primaries \subseteq [Caps -> Plugins \cup {NoPlugin}]
  /\ NoOverrides \notin Primaries
  /\ MaxRequests \in Nat

\* `shared` are the config variables that two installed plugins have come to
\* share, `lost` the credentials whose claim the config of one overwrote.
Env == [plugins    : SUBSET Plugins,
        disabled   : SUBSET Plugins,
        configured : SUBSET ConfigKeys,
        hosted     : [ConfigKeys -> SUBSET KnownCaps],
        tracked    : SUBSET Keys,
        keys       : SUBSET Keys,
        providers  : [Caps -> Plugins \cup {NoPlugin}],
        active     : SUBSET Caps,
        shared     : SUBSET ConfigKeys,
        lost       : SUBSET Keys]

ASSUME NoBotAssumption == NoBot \notin Env

\* An environment without plugin variables; `own` are the credentials its
\* owner set by hand.
PlainEnv(own) ==
  [plugins    |-> {},
   disabled   |-> {},
   configured |-> {},
   hosted     |-> [k \in ConfigKeys |-> {}],
   tracked    |-> {},
   keys       |-> own,
   providers  |-> [c \in Caps |-> NoPlugin],
   active     |-> {},
   shared     |-> {},
   lost       |-> {}]

-----------------------------------------------------------------------------
(* Requests.  `hosted` are the capabilities whose provider choice is       *)
(* "hosted"; `own` the credentials among the variables a setup form or a   *)
(* PATCH carries (it may carry others, which are not plugin state).        *)

InstallRequest == [kind : {"install"}, plugin : Plugins, hosted : SUBSET Caps,
                   primary : Primaries \cup {NoOverrides}]
MarketRequest == [kind : {"market"}, plugin : Plugins, hosted : SUBSET Caps]
UninstallRequest == [kind : {"uninstall"}, plugin : Plugins]
ToggleRequest == [kind : {"toggle"}, plugin : Plugins, enabled : BOOLEAN]
ActivateRequest == [kind : {"activate"}, cap : KnownCaps]
SetupRequest == [kind : {"setup"}, own : SUBSET Keys]
PatchRequest == [kind : {"patch"}, own : SUBSET Keys]

Request == InstallRequest \cup MarketRequest \cup UninstallRequest
           \cup ToggleRequest \cup ActivateRequest \cup SetupRequest
           \cup PatchRequest

NoRequest == [kind |-> "patch", own |-> {}]

\* Requests that name a plugin, and those that add one.
PluginKinds == {"install", "market", "uninstall", "toggle"}
InstallKinds == {"install", "market"}

\* Kinds that write with ProfileStore.save and dispatch afterwards, and kinds
\* that write with FleetManager.update.
SaveKinds == {"install", "toggle", "setup"}
UpdateKinds == {"market", "uninstall", "activate", "patch"}

Answers == {"none", "200", "400", "404", "409", "500", "503"}
Refusals == {"400", "404", "409"}

VARIABLES
  profile,    \* the stored environment, or NoBot
  container,  \* the environment of the running container, or NoBot
  pc,         \* where a handler is
  req,        \* the request a handler serves
  snap,       \* the environment a handler has read
  ans,        \* the answer to a handler's last request
  wrote,      \* has that request changed the stored profile
  metered,    \* has that request emitted hosted-activation events
  started     \* requests started

vars == <<profile, container, pc, req, snap, ans, wrote, metered, started>>

PCs == {"idle", "read", "resolve", "write", "dispatch"}

-----------------------------------------------------------------------------
(* The environment each handler computes from the one it has read.         *)

\* Mutant: the capability names are recorded, not their variables.
HostedKeysByName(caps) == caps

HostedKeys(caps) == {EnvKey[c] : c \in caps}

\* Installing p has its config overwrite that of an installed plugin of the
\* same variable, and with it what that config claims.
SharedWith(e, p) ==
  e.shared \cup ({ConfigKey[p]} \cap {ConfigKey[q] : q \in e.plugins \ {p}})

LostWith(e, p, hostedCaps) ==
  (e.lost \cup HostedKeys(e.hosted[ConfigKey[p]])) \ HostedKeys(hostedCaps)

\* Mutant: an installation does not carry the disabled list over.
WithPluginEnablingAll(e, p, hostedCaps) ==
  [e EXCEPT !.plugins = @ \cup {p},
            !.disabled = {},
            !.configured = @ \cup {ConfigKey[p]},
            !.hosted[ConfigKey[p]] = hostedCaps,
            !.tracked = @ \cup HostedKeys(hostedCaps),
            !.keys = @ \cup HostedKeys(hostedCaps),
            !.shared = SharedWith(e, p),
            !.lost = LostWith(e, p, hostedCaps)]

WithPlugin(e, p, hostedCaps) ==
  [e EXCEPT !.plugins = @ \cup {p},
            !.configured = @ \cup {ConfigKey[p]},
            !.hosted[ConfigKey[p]] = hostedCaps,
            !.tracked = @ \cup HostedKeys(hostedCaps),
            !.keys = @ \cup HostedKeys(hostedCaps),
            !.shared = SharedWith(e, p),
            !.lost = LostWith(e, p, hostedCaps)]

\* Object.assign of the overrides on the stored map.
WithPrimaries(e, primary) ==
  IF primary = NoOverrides THEN e
  ELSE [e EXCEPT !.providers =
          [c \in Caps |->
             IF primary[c] = NoPlugin THEN e.providers[c] ELSE primary[c]]]

\* The keys removed are those the deleted plugin's own config lists.
WithoutPlugin(e, p) ==
  LET dropped == HostedKeys(e.hosted[ConfigKey[p]])
  IN [e EXCEPT !.plugins = @ \ {p},
               !.disabled = @ \ {p},
               !.configured = @ \ {ConfigKey[p]},
               !.hosted[ConfigKey[p]] = {},
               !.tracked = @ \ dropped,
               !.keys = @ \ dropped,
               !.providers = [c \in Caps |->
                 IF e.providers[c] = p THEN NoPlugin ELSE e.providers[c]],
               !.shared = @ \cap {ConfigKey[q] : q \in e.plugins \ {p}},
               !.lost = @ \ dropped]

WithToggle(e, p, enabled) ==
  [e EXCEPT !.disabled = IF enabled THEN @ \ {p} ELSE @ \cup {p}]

WithCapability(e, c) == [e EXCEPT !.active = @ \cup {c}]

WithOwnKeys(e, own) == [e EXCEPT !.keys = @ \cup own]

\* What handler h is about to write.
Outcome(h) ==
  LET r == req[h] e == snap[h]
  IN CASE r.kind = "install" ->
            WithPrimaries(WithPlugin(e, r.plugin, r.hosted), r.primary)
       [] r.kind = "market"    -> WithPlugin(e, r.plugin, r.hosted)
       [] r.kind = "uninstall" -> WithoutPlugin(e, r.plugin)
       [] r.kind = "toggle"    -> WithToggle(e, r.plugin, r.enabled)
       [] r.kind = "activate"  -> WithCapability(e, r.cap)
       [] r.kind = "setup"     -> WithOwnKeys(e, r.own)
       [] r.kind = "patch"     -> PlainEnv(r.own)

-----------------------------------------------------------------------------
Init ==
  /\ profile = PlainEnv({})
  /\ container = PlainEnv({})
  /\ pc = [h \in Handlers |-> "idle"]
  /\ req = [h \in Handlers |-> NoRequest]
  /\ snap = [h \in Handlers |-> PlainEnv({})]
  /\ ans = [h \in Handlers |-> "none"]
  /\ wrote = [h \in Handlers |-> FALSE]
  /\ metered = [h \in Handlers |-> FALSE]
  /\ started = 0

\* The handler answers; its locals are gone.
Answer(h, a) ==
  /\ pc' = [pc EXCEPT ![h] = "idle"]
  /\ ans' = [ans EXCEPT ![h] = a]
  /\ snap' = [snap EXCEPT ![h] = PlainEnv({})]

Goto(h, l) ==
  /\ pc' = [pc EXCEPT ![h] = l]
  /\ UNCHANGED ans

\* A request arrives.
Begin(h) ==
  /\ pc[h] = "idle"
  /\ started < MaxRequests
  /\ started' = started + 1
  /\ \E r \in Request : r.kind \in Kinds /\ req' = [req EXCEPT ![h] = r]
  /\ pc' = [pc EXCEPT ![h] = "read"]
  /\ ans' = [ans EXCEPT ![h] = "none"]
  /\ wrote' = [wrote EXCEPT ![h] = FALSE]
  /\ metered' = [metered EXCEPT ![h] = FALSE]
  /\ UNCHANGED <<profile, container, snap>>

\* Mutant: a toggle does not check that the plugin is installed.
AfterReadUnchecked(r, e) ==
  CASE r.kind \in InstallKinds ->
         IF r.plugin \in e.plugins THEN "409" ELSE "resolve"
    [] r.kind = "uninstall" ->
         IF r.plugin \in e.plugins THEN "write" ELSE "404"
    [] r.kind = "activate" -> IF r.cap \in e.active THEN "200" ELSE "write"
    [] OTHER -> "write"

\* Where request r goes, or its answer, once its profile e is read.
AfterRead(r, e) ==
  CASE r.kind \in InstallKinds ->
         IF r.plugin \in e.plugins THEN "409" ELSE "resolve"
    [] r.kind \in {"uninstall", "toggle"} ->
         IF r.plugin \in e.plugins THEN "write" ELSE "404"
    [] r.kind = "activate" -> IF r.cap \in e.active THEN "200" ELSE "write"
    [] OTHER -> "write"

\* The handler reads the profile it will base its write on.
ReadProfile(h) ==
  /\ pc[h] = "read"
  /\ LET next == IF profile = NoBot THEN "404" ELSE AfterRead(req[h], profile)
     IN IF next \in Answers
        THEN Answer(h, next)
        ELSE Goto(h, next) /\ snap' = [snap EXCEPT ![h] = profile]
  /\ UNCHANGED <<profile, container, req, wrote, metered, started>>

\* capability-conflict.ts: another installed plugin declares a capability of p.
Conflicting(p, installed) ==
  \E q \in installed : Provides[p] \cap Provides[q] # {}

\* The install handlers refuse between the read and the write: on a conflict
\* (not looked for when the marketplace repository is down), and, per hosted
\* choice, on an unknown capability or a known one whose vault lookup fails.
RefuseInstall(h) ==
  /\ pc[h] = "resolve"
  /\ \/ /\ req[h].kind = "install"
        /\ Conflicting(req[h].plugin, snap[h].plugins)
        /\ req[h].primary = NoOverrides
        /\ Answer(h, "409")
     \/ req[h].hosted \ KnownCaps # {} /\ Answer(h, "400")
     \/ req[h].hosted \cap KnownCaps # {} /\ Answer(h, "503")
  /\ UNCHANGED <<profile, container, req, wrote, metered, started>>

\* Mutant: the activation events are emitted as the credentials resolve.
ResolveAndMeter(h) ==
  /\ pc[h] = "resolve"
  /\ req[h].hosted \subseteq KnownCaps
  /\ Goto(h, "write")
  /\ metered' = [metered EXCEPT ![h] = req[h].hosted # {}]
  /\ UNCHANGED <<profile, container, req, snap, wrote, started>>

\* Every hosted choice has its credential.
Resolve(h) ==
  /\ pc[h] = "resolve"
  /\ req[h].hosted \subseteq KnownCaps
  /\ Goto(h, "write")
  /\ UNCHANGED <<profile, container, req, snap, wrote, metered, started>>

\* ProfileStore.save: an unconditional upsert of the whole profile.
Save(h) ==
  /\ pc[h] = "write"
  /\ req[h].kind \in SaveKinds
  /\ profile' = Outcome(h)
  /\ wrote' = [wrote EXCEPT ![h] = TRUE]
  /\ Goto(h, "dispatch")
  /\ UNCHANGED <<container, req, snap, metered, started>>

\* Events are emitted once the environment with the hosted keys is stored.
Meter(h) ==
  IF req[h].kind \in InstallKinds /\ req[h].hosted # {}
  THEN \E up \in BOOLEAN : metered' = [metered EXCEPT ![h] = up]
  ELSE UNCHANGED metered

\* dispatchEnvUpdate is best-effort: it reaches the container or it does not.
\* A toggle without a bot-instance repository answers 503 at this point.
Dispatch(h) ==
  /\ pc[h] = "dispatch"
  /\ \/ /\ container' \in
              {container, IF container = NoBot THEN NoBot ELSE Outcome(h)}
        /\ Answer(h, "200")
        /\ Meter(h)
     \/ /\ req[h].kind = "toggle"
        /\ Answer(h, "503")
        /\ UNCHANGED <<container, metered>>
  /\ UNCHANGED <<profile, req, wrote, started>>

\* FleetManager.update replaces the environment and restarts the container.
Update(h) ==
  /\ pc[h] = "write"
  /\ req[h].kind \in UpdateKinds
  /\ profile # NoBot
  /\ profile' = Outcome(h)
  /\ container' = IF container = NoBot THEN NoBot ELSE Outcome(h)
  /\ wrote' = [wrote EXCEPT ![h] = TRUE]
  /\ Answer(h, "200")
  /\ Meter(h)
  /\ UNCHANGED <<req, started>>

\* Mutant: every failure of FleetManager.update is answered "bot not found".
UpdateFailsAsNotFound(h) ==
  /\ pc[h] = "write"
  /\ req[h].kind \in UpdateKinds
  /\ Answer(h, "404")
  /\ \/ UNCHANGED <<profile, wrote>>
     \/ /\ profile # NoBot
        /\ profile' = Outcome(h)
        /\ wrote' = [wrote EXCEPT ![h] = TRUE]
  /\ UNCHANGED <<container, req, metered, started>>

\* FleetManager.update throws BotNotFoundError; or it fails on the container
\* and leaves the new profile stored (Throw is the case where it does not).
UpdateFails(h) ==
  /\ pc[h] = "write"
  /\ req[h].kind \in UpdateKinds
  /\ \/ /\ profile = NoBot
        /\ Answer(h, "404")
        /\ UNCHANGED <<profile, wrote>>
     \/ /\ profile # NoBot
        /\ Answer(h, "500")
        /\ profile' = Outcome(h)
        /\ wrote' = [wrote EXCEPT ![h] = TRUE]
  /\ UNCHANGED <<container, req, metered, started>>

\* A call before the write, or the write itself, throws.
Throw(h) ==
  /\ pc[h] \in {"read", "resolve", "write"}
  /\ Answer(h, "500")
  /\ UNCHANGED <<profile, container, req, wrote, metered, started>>

\* A PATCH without an env, or a new identity: FleetManager.update restarts the
\* container with the environment as it is stored.
UpdateOther ==
  /\ profile # NoBot
  /\ container # NoBot
  /\ "patch" \in Kinds
  /\ container' = profile
  /\ UNCHANGED <<profile, pc, req, snap, ans, wrote, metered, started>>

\* DELETE /fleet/bots/:id: fleet.remove drops the profile and the container.
Destroy ==
  /\ profile # NoBot
  /\ "destroy" \in Kinds
  /\ profile' = NoBot
  /\ container' = NoBot
  /\ UNCHANGED <<pc, req, snap, ans, wrote, metered, started>>

Handle(h) ==
  \/ Begin(h)
  \/ ReadProfile(h)
  \/ RefuseInstall(h)
  \/ Resolve(h)
  \/ Save(h)
  \/ Dispatch(h)
  \/ Update(h)
  \/ UpdateFails(h)
  \/ Throw(h)

Next == UpdateOther \/ Destroy \/ \E h \in Handlers : Handle(h)

Spec == Init /\ [][Next]_vars

-----------------------------------------------------------------------------
(* Properties.                                                             *)

\* Every variable keeps its type: environments hold known plugin ids,
\* capabilities and credential variables only.
TypeOK ==
  /\ profile \in Env \cup {NoBot}
  /\ container \in Env \cup {NoBot}
  /\ pc \in [Handlers -> PCs]
  /\ req \in [Handlers -> Request]
  /\ snap \in [Handlers -> Env]
  /\ ans \in [Handlers -> Answers]
  /\ wrote \in [Handlers -> BOOLEAN]
  /\ metered \in [Handlers -> BOOLEAN]
  /\ started \in Nat

DisabledAreInstalled(e) == e.disabled \subseteq e.plugins

\* Two installed plugins of one config variable are known to share it.
SharedAreKnown(e) ==
  \A p, q \in e.plugins :
    p # q /\ ConfigKey[p] = ConfigKey[q] => ConfigKey[p] \in e.shared

\* Only installed plugins have a config, and each has one, unless another id
\* of the same variable was installed beside it.
ConfiguredAreInstalled(e) ==
  LET installed == {ConfigKey[p] : p \in e.plugins}
  IN e.configured \subseteq installed /\ installed \ e.shared \subseteq e.configured

TrackedArePresent(e) == e.tracked \subseteq e.keys

\* A platform credential is listed only while an installed plugin's own
\* config asks for it, or once the config that did was overwritten by that
\* of another id of the same variable.
TrackedAreClaimed(e) ==
  \A k \in e.tracked \ e.lost :
    \E p \in e.plugins : k \in HostedKeys(e.hosted[ConfigKey[p]])

Consistent(e) ==
  /\ DisabledAreInstalled(e)
  /\ SharedAreKnown(e)
  /\ ConfiguredAreInstalled(e)
  /\ TrackedArePresent(e)
  /\ TrackedAreClaimed(e)

\* However requests interleave, fail or lose each other's updates, the parts
\* of a bot's plugin state agree with each other, in the stored profile and in
\* the container: only installed plugins are disabled, the installed ones have
\* a config, and no platform credential stays behind the last plugin that
\* asked for it.  Only an id that differs from an installed one in letter
\* case, whose config is the same variable, can break the last two.
EnvConsistent ==
  \A e \in {profile, container} \ {NoBot} : Consistent(e)

\* A request that is refused has not touched the profile: the handlers check
\* plugins, conflicts and credentials before they write.
RefusalLeavesProfile ==
  \A h \in Handlers :
    /\ ans[h] \in Refusals => ~wrote[h]
    /\ ans[h] = "503" /\ req[h].kind \in InstallKinds => ~wrote[h]

\* hosted-activation events are billed only for keys that were stored.
MeteredIsStored == \A h \in Handlers : metered[h] => wrote[h]

\* What an environment says of one plugin: in its lists, and in its config.
Listed(e, q) == <<q \in e.plugins, q \in e.disabled>>
Config(e, q) == <<ConfigKey[q] \in e.configured, e.hosted[ConfigKey[q]]>>

\* Request r may change the lists at its own plugin only, and the config of
\* that plugin and of the ids that share its variable.
TouchesOwn(r, e, f) ==
  \A q \in Plugins :
    /\ \/ Listed(f, q) = Listed(e, q)
       \/ r.kind \in PluginKinds /\ r.plugin = q
    /\ \/ Config(f, q) = Config(e, q)
       \/ r.kind \in PluginKinds /\ ConfigKey[r.plugin] = ConfigKey[q]

\* A write based on the profile as it still stands changes no plugin but the
\* request's own, and no config but the variable of that plugin: settings of
\* another plugin are lost only when two requests overlap between a read and
\* a write, or when two ids share a config variable.
SerialWriteIsLocal ==
  [][\A h \in Handlers :
       (/\ pc[h] = "write" /\ pc'[h] # "write"
        /\ req[h].kind # "patch"
        /\ snap[h] = profile)
       => TouchesOwn(req[h], profile, profile')]_vars

\* "We must not remove keys that other remaining plugins may still need."
\* (bot-plugins.ts): every hosted key an installed plugin asked for is there.
RemainingPluginsKeepTheirKeys ==
  profile # NoBot =>
    \A p \in profile.plugins :
      HostedKeys(profile.hosted[ConfigKey[p]]) \subseteq profile.keys

\* "Re-fetch profile immediately before write to avoid clobbering concurrent
\* installs" (bot-plugins.ts): where nothing uninstalls, a plugin whose
\* installation was answered 200 is installed.
InstallIsNotClobbered ==
  \A h \in Handlers :
    pc[h] = "idle" /\ ans[h] = "200" /\ req[h].kind \in InstallKinds
      => profile # NoBot /\ req[h].plugin \in profile.plugins
=============================================================================
