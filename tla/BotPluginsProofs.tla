--------------------------- MODULE BotPluginsProofs ---------------------------
(* Theorems about BotPlugins, for every set of handlers, plugins and        *)
(* capabilities and every bound on requests.                                *)
EXTENDS BotPlugins, TLAPS

(***************************************************************************)
(* What the requests carry, and what the environments computed from them   *)
(* look like.                                                              *)
(***************************************************************************)

\* The fields of a request, by its kind.
LEMMA RequestFields ==
  ASSUME NEW r \in Request
  PROVE  /\ r.kind \in InstallKinds =>
              r.plugin \in Plugins /\ r.hosted \in SUBSET Caps
         /\ r.kind = "install" => r.primary \in Primaries \cup {NoOverrides}
         /\ r.kind \in {"uninstall", "toggle"} => r.plugin \in Plugins
         /\ r.kind = "toggle" => r.enabled \in BOOLEAN
         /\ r.kind = "activate" => r.cap \in KnownCaps
         /\ r.kind \in {"setup", "patch"} => r.own \in SUBSET Keys
         /\ r.kind \in SaveKinds \cup UpdateKinds
  BY DEF Request, InstallRequest, MarketRequest, UninstallRequest,
         ToggleRequest, ActivateRequest, SetupRequest, PatchRequest,
         InstallKinds, SaveKinds, UpdateKinds

LEMMA NoRequestType == NoRequest \in Request
  BY DEF NoRequest, Request, PatchRequest

LEMMA PlainEnvType ==
  ASSUME NEW own \in SUBSET Keys
  PROVE  PlainEnv(own) \in Env
  BY DEF PlainEnv, Env

LEMMA HostedKeysType ==
  ASSUME NEW caps \in SUBSET KnownCaps
  PROVE  HostedKeys(caps) \in SUBSET Keys
  BY TypeAssumption DEF HostedKeys

\* Each handler computes an environment from an environment.
LEMMA WithPluginType ==
  ASSUME NEW e \in Env, NEW p \in Plugins, NEW caps \in SUBSET KnownCaps
  PROVE  WithPlugin(e, p, caps) \in Env
<1> DEFINE plugins == e.plugins \cup {p}
           configured == e.configured \cup {ConfigKey[p]}
           hosted == [e.hosted EXCEPT ![ConfigKey[p]] = caps]
           tracked == e.tracked \cup HostedKeys(caps)
           keys == e.keys \cup HostedKeys(caps)
           shared == SharedWith(e, p)
           lost == LostWith(e, p, caps)
<1>1. plugins \in SUBSET Plugins /\ configured \in SUBSET ConfigKeys
  BY TypeAssumption DEF Env
<1>2. hosted \in [ConfigKeys -> SUBSET KnownCaps]
  BY DEF Env
<1>3. tracked \in SUBSET Keys /\ keys \in SUBSET Keys
  BY HostedKeysType DEF Env
<1>4. shared \in SUBSET ConfigKeys
  BY TypeAssumption DEF SharedWith, Env
<1>5. lost \in SUBSET Keys
  <2>1. HostedKeys(e.hosted[ConfigKey[p]]) \in SUBSET Keys
    BY TypeAssumption, HostedKeysType DEF Env
  <2>2. QED BY <2>1 DEF LostWith, Env
<1>6. WithPlugin(e, p, caps) =
        [e EXCEPT !.plugins = plugins, !.configured = configured, !.hosted = hosted,
                  !.tracked = tracked, !.keys = keys, !.shared = shared, !.lost = lost]
  BY DEF WithPlugin, Env
<1> HIDE DEF plugins, configured, hosted, tracked, keys, shared, lost
<1>7. QED BY <1>1, <1>2, <1>3, <1>4, <1>5, <1>6 DEF Env

LEMMA WithPrimariesType ==
  ASSUME NEW e \in Env, NEW m \in Primaries \cup {NoOverrides}
  PROVE  WithPrimaries(e, m) \in Env
  BY TypeAssumption DEF WithPrimaries, Env

LEMMA WithoutPluginType ==
  ASSUME NEW e \in Env, NEW p \in Plugins
  PROVE  WithoutPlugin(e, p) \in Env
  BY TypeAssumption DEF WithoutPlugin, Env

LEMMA WithToggleType ==
  ASSUME NEW e \in Env, NEW p \in Plugins, NEW b \in BOOLEAN
  PROVE  WithToggle(e, p, b) \in Env
  BY DEF WithToggle, Env

LEMMA WithCapabilityType ==
  ASSUME NEW e \in Env, NEW c \in KnownCaps
  PROVE  WithCapability(e, c) \in Env
  BY TypeAssumption DEF WithCapability, Env

LEMMA WithOwnKeysType ==
  ASSUME NEW e \in Env, NEW own \in SUBSET Keys
  PROVE  WithOwnKeys(e, own) \in Env
  BY DEF WithOwnKeys, Env

(***************************************************************************)
(* ... and that they agree with themselves when what was read did.         *)
(***************************************************************************)

LEMMA PlainEnvConsistent ==
  ASSUME NEW own \in SUBSET Keys
  PROVE  Consistent(PlainEnv(own))
  BY DEF PlainEnv, Consistent, DisabledAreInstalled, SharedAreKnown, ConfiguredAreInstalled,
         TrackedArePresent, TrackedAreClaimed

\* Whoever shares the config variable of an installation loses a claim on a
\* tracked key, and nobody else does.
LEMMA WithPluginConsistent ==
  ASSUME NEW e \in Env, Consistent(e),
         NEW p \in Plugins, p \notin e.plugins,
         NEW caps \in SUBSET KnownCaps
  PROVE  Consistent(WithPlugin(e, p, caps))
<1> DEFINE n == WithPlugin(e, p, caps)
           claimed == HostedKeys(e.hosted[ConfigKey[p]])
<1>1. /\ n.plugins = e.plugins \cup {p}
      /\ n.disabled = e.disabled
      /\ n.configured = e.configured \cup {ConfigKey[p]}
      /\ n.tracked = e.tracked \cup HostedKeys(caps)
      /\ n.keys = e.keys \cup HostedKeys(caps)
      /\ n.hosted = [e.hosted EXCEPT ![ConfigKey[p]] = caps]
      /\ n.shared = SharedWith(e, p)
      /\ n.lost = (e.lost \cup claimed) \ HostedKeys(caps)
  BY DEF WithPlugin, LostWith, Env
<1>2. /\ e.hosted \in [ConfigKeys -> SUBSET KnownCaps]
      /\ e.plugins \subseteq Plugins
  BY DEF Env
<1> HIDE DEF n
<1>3. n.hosted[ConfigKey[p]] = caps
  BY <1>1, <1>2, TypeAssumption
<1>4. \A q \in e.plugins :
        ConfigKey[q] # ConfigKey[p] => n.hosted[ConfigKey[q]] = e.hosted[ConfigKey[q]]
  BY <1>1, <1>2, TypeAssumption
<1>5. DisabledAreInstalled(n)
  BY <1>1 DEF Consistent, DisabledAreInstalled
<1>6. SharedAreKnown(n)
  <2>1. e.shared \subseteq n.shared
    BY <1>1 DEF SharedWith
  <2>2. \A q \in e.plugins : ConfigKey[q] = ConfigKey[p] => ConfigKey[p] \in n.shared
    BY <1>1 DEF SharedWith
  <2>3. QED BY <1>1, <2>1, <2>2 DEF Consistent, SharedAreKnown
<1>7. ConfiguredAreInstalled(n)
  BY <1>1 DEF Consistent, ConfiguredAreInstalled, SharedWith
<1>8. TrackedArePresent(n)
  BY <1>1 DEF Consistent, TrackedArePresent
<1>9. TrackedAreClaimed(n)
  <2> SUFFICES ASSUME NEW k \in n.tracked \ n.lost
               PROVE  \E q \in n.plugins :
                        k \in HostedKeys(n.hosted[ConfigKey[q]])
    BY DEF TrackedAreClaimed
  <2>1. CASE k \in HostedKeys(caps)
    BY <2>1, <1>1, <1>3
  <2>2. CASE k \notin HostedKeys(caps)
    <3>1. k \in e.tracked \ e.lost /\ k \notin claimed
      BY <2>2, <1>1
    <3>2. PICK q \in e.plugins : k \in HostedKeys(e.hosted[ConfigKey[q]])
      BY <3>1 DEF Consistent, TrackedAreClaimed
    <3>3. ConfigKey[q] # ConfigKey[p]
      BY <3>1, <3>2
    <3>4. QED BY <3>2, <3>3, <1>1, <1>4
  <2>3. QED BY <2>1, <2>2
<1>10. QED BY <1>5, <1>6, <1>7, <1>8, <1>9 DEF Consistent, n

\* Consistency does not look at the provider map.
LEMMA WithPrimariesConsistent ==
  ASSUME NEW e \in Env, Consistent(e), NEW m \in Primaries \cup {NoOverrides}
  PROVE  Consistent(WithPrimaries(e, m))
<1> DEFINE n == WithPrimaries(e, m)
<1>1. /\ n.plugins = e.plugins
      /\ n.disabled = e.disabled
      /\ n.configured = e.configured
      /\ n.tracked = e.tracked
      /\ n.keys = e.keys
      /\ n.hosted = e.hosted
      /\ n.shared = e.shared /\ n.lost = e.lost
  BY DEF WithPrimaries, Env
<1>2. QED
  BY <1>1 DEF Consistent, DisabledAreInstalled, SharedAreKnown,
              ConfiguredAreInstalled, TrackedArePresent, TrackedAreClaimed

\* The keys an uninstalled plugin's config asks for go with it, so whatever
\* stays tracked is claimed by the config of another variable.
LEMMA WithoutPluginConsistent ==
  ASSUME NEW e \in Env, Consistent(e), NEW p \in Plugins, p \in e.plugins
  PROVE  Consistent(WithoutPlugin(e, p))
<1> DEFINE n == WithoutPlugin(e, p)
           dropped == HostedKeys(e.hosted[ConfigKey[p]])
<1>1. /\ n.plugins = e.plugins \ {p}
      /\ n.disabled = e.disabled \ {p}
      /\ n.configured = e.configured \ {ConfigKey[p]}
      /\ n.tracked = e.tracked \ dropped
      /\ n.keys = e.keys \ dropped
      /\ n.hosted = [e.hosted EXCEPT ![ConfigKey[p]] = {}]
      /\ n.shared = e.shared \cap {ConfigKey[q] : q \in e.plugins \ {p}}
      /\ n.lost = e.lost \ dropped
  BY DEF WithoutPlugin, Env
<1>2. /\ e.hosted \in [ConfigKeys -> SUBSET KnownCaps]
      /\ e.plugins \subseteq Plugins
  BY DEF Env
<1> HIDE DEF n
<1>3. \A q \in e.plugins :
        ConfigKey[q] # ConfigKey[p] => n.hosted[ConfigKey[q]] = e.hosted[ConfigKey[q]]
  BY <1>1, <1>2, TypeAssumption
<1>4. DisabledAreInstalled(n)
  BY <1>1 DEF Consistent, DisabledAreInstalled
<1>5. SharedAreKnown(n)
  BY <1>1 DEF Consistent, SharedAreKnown
<1>6. ConfiguredAreInstalled(n)
  <2>1. n.configured \subseteq {ConfigKey[q] : q \in n.plugins}
    BY <1>1 DEF Consistent, ConfiguredAreInstalled
  <2>2. ASSUME NEW q \in n.plugins, ConfigKey[q] \notin n.shared
        PROVE  ConfigKey[q] \in n.configured
    <3>1. q \in e.plugins /\ q # p /\ ConfigKey[q] \notin e.shared
      BY <1>1, <2>2
    <3>2. ConfigKey[q] # ConfigKey[p]
      BY <3>1 DEF Consistent, SharedAreKnown
    <3>3. ConfigKey[q] \in e.configured
      BY <3>1 DEF Consistent, ConfiguredAreInstalled
    <3>4. QED BY <3>2, <3>3, <1>1
  <2>3. QED BY <2>1, <2>2 DEF ConfiguredAreInstalled
<1>7. TrackedArePresent(n)
  BY <1>1 DEF Consistent, TrackedArePresent
<1>8. TrackedAreClaimed(n)
  <2> SUFFICES ASSUME NEW k \in n.tracked \ n.lost
               PROVE  \E q \in n.plugins :
                        k \in HostedKeys(n.hosted[ConfigKey[q]])
    BY DEF TrackedAreClaimed
  <2>1. k \in e.tracked \ e.lost /\ k \notin dropped
    BY <1>1
  <2>2. PICK q \in e.plugins : k \in HostedKeys(e.hosted[ConfigKey[q]])
    BY <2>1 DEF Consistent, TrackedAreClaimed
  <2>3. ConfigKey[q] # ConfigKey[p]
    BY <2>1, <2>2
  <2>4. QED BY <2>2, <2>3, <1>1, <1>3
<1>9. QED BY <1>4, <1>5, <1>6, <1>7, <1>8 DEF Consistent, n

LEMMA WithToggleConsistent ==
  ASSUME NEW e \in Env, Consistent(e),
         NEW p \in Plugins, p \in e.plugins, NEW b \in BOOLEAN
  PROVE  Consistent(WithToggle(e, p, b))
<1> DEFINE n == WithToggle(e, p, b)
<1>1. /\ n.plugins = e.plugins
      /\ n.disabled \subseteq e.disabled \cup {p}
      /\ n.configured = e.configured
      /\ n.tracked = e.tracked
      /\ n.keys = e.keys
      /\ n.hosted = e.hosted
      /\ n.shared = e.shared /\ n.lost = e.lost
  BY DEF WithToggle, Env
<1>2. QED
  BY <1>1 DEF Consistent, DisabledAreInstalled, SharedAreKnown,
              ConfiguredAreInstalled, TrackedArePresent, TrackedAreClaimed

LEMMA WithCapabilityConsistent ==
  ASSUME NEW e \in Env, Consistent(e), NEW c \in KnownCaps
  PROVE  Consistent(WithCapability(e, c))
<1> DEFINE n == WithCapability(e, c)
<1>1. /\ n.plugins = e.plugins
      /\ n.disabled = e.disabled
      /\ n.configured = e.configured
      /\ n.tracked = e.tracked
      /\ n.keys = e.keys
      /\ n.hosted = e.hosted
      /\ n.shared = e.shared /\ n.lost = e.lost
  BY DEF WithCapability, Env
<1>2. QED
  BY <1>1 DEF Consistent, DisabledAreInstalled, SharedAreKnown,
              ConfiguredAreInstalled, TrackedArePresent, TrackedAreClaimed

LEMMA WithOwnKeysConsistent ==
  ASSUME NEW e \in Env, Consistent(e), NEW own \in SUBSET Keys
  PROVE  Consistent(WithOwnKeys(e, own))
<1> DEFINE n == WithOwnKeys(e, own)
<1>1. /\ n.plugins = e.plugins
      /\ n.disabled = e.disabled
      /\ n.configured = e.configured
      /\ n.tracked = e.tracked
      /\ n.keys = e.keys \cup own
      /\ n.hosted = e.hosted
      /\ n.shared = e.shared /\ n.lost = e.lost
  BY DEF WithOwnKeys, Env
<1>2. QED
  BY <1>1 DEF Consistent, DisabledAreInstalled, SharedAreKnown,
              ConfiguredAreInstalled, TrackedArePresent, TrackedAreClaimed


(***************************************************************************)
(* The inductive invariant.  What a handler is about to write agrees with  *)
(* itself because what it has read did, and because the checks it made on  *)
(* that environment still hold of it, however stale it has become.         *)
(***************************************************************************)

\* The environment handler h has read passed the checks of its request.
ReadChecked(h) ==
  /\ Consistent(snap[h])
  /\ (pc[h] = "resolve" => req[h].kind \in InstallKinds)
  /\ pc[h] \in {"resolve", "write", "dispatch"} =>
       /\ req[h].kind \in InstallKinds => req[h].plugin \notin snap[h].plugins
       /\ req[h].kind \in {"uninstall", "toggle"} =>
            req[h].plugin \in snap[h].plugins
  /\ pc[h] \in {"write", "dispatch"} =>
       (req[h].kind \in InstallKinds => req[h].hosted \subseteq KnownCaps)

\* A handler writes once and answers last.
WritesOnce(h) ==
  /\ pc[h] \in {"read", "resolve", "write"} => ~wrote[h] /\ ~metered[h]
  /\ pc[h] = "dispatch" => wrote[h] /\ req[h].kind \in SaveKinds
  /\ pc[h] # "idle" => ans[h] = "none"

IndInv ==
  /\ TypeOK
  /\ EnvConsistent
  /\ RefusalLeavesProfile
  /\ MeteredIsStored
  /\ \A h \in Handlers : ReadChecked(h) /\ WritesOnce(h)

\* Whatever a handler writes is an environment that agrees with itself.
LEMMA OutcomeConsistent ==
  ASSUME NEW h \in Handlers, req[h] \in Request, snap[h] \in Env,
         ReadChecked(h), pc[h] \in {"write", "dispatch"}
  PROVE  Outcome(h) \in Env /\ Consistent(Outcome(h))
<1> DEFINE r == req[h]
           e == snap[h]
<1>1. Consistent(e)
  BY DEF ReadChecked
<1>2. CASE r.kind \in InstallKinds
  <2>1. r.plugin \in Plugins /\ r.hosted \in SUBSET KnownCaps
        /\ r.plugin \notin e.plugins
    BY <1>2, RequestFields DEF ReadChecked
  <2> DEFINE n == WithPlugin(e, r.plugin, r.hosted)
  <2>2. n \in Env /\ Consistent(n)
    BY <2>1, <1>1, WithPluginType, WithPluginConsistent
  <2>3. CASE r.kind = "install"
    <3>1. r.primary \in Primaries \cup {NoOverrides}
      BY <2>3, RequestFields
    <3>2. Outcome(h) = WithPrimaries(n, r.primary)
      BY <2>3 DEF Outcome
    <3> HIDE DEF n
    <3>3. QED
      BY <3>1, <3>2, <2>2, WithPrimariesType, WithPrimariesConsistent
  <2>4. CASE r.kind = "market"
    BY <2>2, <2>4 DEF Outcome
  <2>5. QED BY <1>2, <2>3, <2>4 DEF InstallKinds
<1>3. CASE r.kind = "uninstall"
  <2>1. r.plugin \in Plugins /\ r.plugin \in e.plugins
    BY <1>3, RequestFields DEF ReadChecked
  <2>2. Outcome(h) = WithoutPlugin(e, r.plugin)
    BY <1>3 DEF Outcome
  <2>3. QED BY <1>1, <2>1, <2>2, WithoutPluginType, WithoutPluginConsistent
<1>4. CASE r.kind = "toggle"
  <2>1. /\ r.plugin \in Plugins
        /\ r.plugin \in e.plugins
        /\ r.enabled \in BOOLEAN
    BY <1>4, RequestFields DEF ReadChecked
  <2>2. Outcome(h) = WithToggle(e, r.plugin, r.enabled)
    BY <1>4 DEF Outcome
  <2>3. QED
    BY <1>1, <2>1, <2>2, WithToggleType, WithToggleConsistent
<1>5. CASE r.kind = "activate"
  BY <1>1, <1>5, RequestFields, WithCapabilityType, WithCapabilityConsistent
     DEF Outcome
<1>6. CASE r.kind = "setup"
  BY <1>1, <1>6, RequestFields, WithOwnKeysType, WithOwnKeysConsistent
     DEF Outcome
<1>7. CASE r.kind = "patch"
  BY <1>7, RequestFields, PlainEnvType, PlainEnvConsistent DEF Outcome
<1>8. QED
  BY <1>2, <1>3, <1>4, <1>5, <1>6, <1>7, RequestFields
     DEF SaveKinds, UpdateKinds, InstallKinds

LEMMA InitEstablishes == Init => IndInv
<1> SUFFICES ASSUME Init PROVE IndInv
  OBVIOUS
<1>1. {} \in SUBSET Keys
  OBVIOUS
<1>2. PlainEnv({}) \in Env /\ Consistent(PlainEnv({}))
  BY <1>1, PlainEnvType, PlainEnvConsistent
<1>3. TypeOK
  BY <1>2, NoRequestType DEF Init, TypeOK, PCs, Answers
<1>4. EnvConsistent
  BY <1>2 DEF Init, EnvConsistent
<1>5. RefusalLeavesProfile /\ MeteredIsStored
  BY DEF Init, RefusalLeavesProfile, MeteredIsStored, Refusals
<1>6. \A h \in Handlers : ReadChecked(h) /\ WritesOnce(h)
  BY <1>2 DEF Init, ReadChecked, WritesOnce
<1>7. QED BY <1>3, <1>4, <1>5, <1>6 DEF IndInv


\* Answering keeps the types and forgets what was read.
LEMMA AnswerTypes ==
  ASSUME TypeOK, NEW h \in Handlers, NEW a \in Answers, Answer(h, a)
  PROVE  /\ pc' \in [Handlers -> PCs]
         /\ ans' \in [Handlers -> Answers]
         /\ snap' \in [Handlers -> Env]
         /\ pc'[h] = "idle" /\ ans'[h] = a
         /\ Consistent(snap'[h])
         /\ \A g \in Handlers \ {h} :
              pc'[g] = pc[g] /\ ans'[g] = ans[g] /\ snap'[g] = snap[g]
<1>1. {} \in SUBSET Keys
  OBVIOUS
<1>2. PlainEnv({}) \in Env /\ Consistent(PlainEnv({}))
  BY <1>1, PlainEnvType, PlainEnvConsistent
<1>3. QED BY <1>2 DEF Answer, TypeOK, PCs

LEMMA GotoTypes ==
  ASSUME TypeOK, NEW h \in Handlers, NEW l \in PCs, Goto(h, l)
  PROVE  /\ pc' \in [Handlers -> PCs]
         /\ ans' = ans
         /\ pc'[h] = l
         /\ \A g \in Handlers \ {h} : pc'[g] = pc[g]
  BY DEF Goto, TypeOK

\* A handler's facts are its own: another handler's step keeps them.
LEMMA OthersKeepFacts ==
  ASSUME NEW g \in Handlers,
         ReadChecked(g), WritesOnce(g),
         pc'[g] = pc[g], req'[g] = req[g], snap'[g] = snap[g],
         ans'[g] = ans[g], wrote'[g] = wrote[g], metered'[g] = metered[g]
  PROVE  ReadChecked(g)' /\ WritesOnce(g)'
  BY DEF ReadChecked, WritesOnce

LEMMA BeginPreserves ==
  ASSUME IndInv, NEW h \in Handlers, Begin(h)
  PROVE  IndInv'
<1> USE DEF IndInv
<1>1. PICK r \in Request : req' = [req EXCEPT ![h] = r]
  BY DEF Begin
<1>2. TypeOK'
  BY <1>1 DEF Begin, TypeOK, PCs, Answers
<1>3. EnvConsistent'
  BY DEF Begin, EnvConsistent
<1>4. RefusalLeavesProfile' /\ MeteredIsStored'
  BY <1>1 DEF Begin, RefusalLeavesProfile, MeteredIsStored, TypeOK, Refusals
<1>5. ReadChecked(h)' /\ WritesOnce(h)'
  BY <1>1 DEF Begin, ReadChecked, WritesOnce, TypeOK
<1>6. ASSUME NEW g \in Handlers \ {h}
      PROVE  ReadChecked(g)' /\ WritesOnce(g)'
  BY <1>1, OthersKeepFacts DEF Begin, TypeOK
<1>7. QED BY <1>2, <1>3, <1>4, <1>5, <1>6

LEMMA ReadProfilePreserves ==
  ASSUME IndInv, NEW h \in Handlers, ReadProfile(h)
  PROVE  IndInv'
<1> USE DEF IndInv
<1> DEFINE next == IF profile = NoBot THEN "404" ELSE AfterRead(req[h], profile)
<1>1. /\ pc[h] = "read"
      /\ UNCHANGED <<profile, container, req, wrote, metered, started>>
      /\ ~wrote[h] /\ ~metered[h] /\ ans[h] = "none"
  BY DEF ReadProfile, WritesOnce
<1>2. req[h] \in Request /\ profile \in Env \cup {NoBot}
  BY DEF TypeOK
<1>3. EnvConsistent' /\ MeteredIsStored'
  BY <1>1 DEF EnvConsistent, MeteredIsStored
<1>4. CASE next \in Answers
  <2>1. Answer(h, next)
    BY <1>4 DEF ReadProfile
  <2>2. TypeOK'
    BY <1>1, <1>4, <2>1, AnswerTypes DEF TypeOK
  <2>3. RefusalLeavesProfile'
    BY <1>1, <1>4, <2>1, AnswerTypes DEF RefusalLeavesProfile
  <2>4. ReadChecked(h)' /\ WritesOnce(h)'
    BY <1>4, <2>1, AnswerTypes DEF ReadChecked, WritesOnce
  <2>5. ASSUME NEW g \in Handlers \ {h}
        PROVE  ReadChecked(g)' /\ WritesOnce(g)'
    BY <1>1, <1>4, <2>1, AnswerTypes, OthersKeepFacts
  <2>6. QED BY <1>3, <2>2, <2>3, <2>4, <2>5
<1>5. CASE next \notin Answers
  <2>1. Goto(h, next) /\ snap' = [snap EXCEPT ![h] = profile]
    BY <1>5 DEF ReadProfile
  <2>2. profile \in Env /\ next = AfterRead(req[h], profile)
    BY <1>2, <1>5 DEF Answers
  <2>3. /\ next \in {"resolve", "write"}
        /\ next = "resolve" => req[h].kind \in InstallKinds
        /\ next = "write" => req[h].kind \notin InstallKinds
        /\ req[h].kind \in InstallKinds => req[h].plugin \notin profile.plugins
        /\ req[h].kind \in {"uninstall", "toggle"} =>
             req[h].plugin \in profile.plugins
    BY <2>2, <1>5 DEF AfterRead, Answers, InstallKinds
  <2>4. next \in PCs
    BY <2>3 DEF PCs
  <2> HIDE DEF next
  <2>5. /\ pc' \in [Handlers -> PCs] /\ pc'[h] = next /\ ans' = ans
        /\ \A g \in Handlers \ {h} : pc'[g] = pc[g]
    BY <2>1, <2>4, GotoTypes
  <2>6. TypeOK'
    BY <1>1, <2>1, <2>2, <2>5 DEF TypeOK
  <2>7. RefusalLeavesProfile'
    BY <1>1, <2>5 DEF RefusalLeavesProfile
  <2>8. Consistent(profile) /\ snap'[h] = profile
    BY <2>1, <2>2, NoBotAssumption DEF EnvConsistent, TypeOK
  <2>9. ReadChecked(h)' /\ WritesOnce(h)'
    BY <1>1, <2>3, <2>5, <2>8 DEF ReadChecked, WritesOnce
  <2>10. ASSUME NEW g \in Handlers \ {h}
         PROVE  ReadChecked(g)' /\ WritesOnce(g)'
    <3>1. snap'[g] = snap[g]
      BY <2>1 DEF TypeOK
    <3>2. QED BY <1>1, <2>5, <3>1, OthersKeepFacts
  <2>11. QED BY <1>3, <2>6, <2>7, <2>9, <2>10
<1>6. QED BY <1>4, <1>5

LEMMA RefuseInstallPreserves ==
  ASSUME IndInv, NEW h \in Handlers, RefuseInstall(h)
  PROVE  IndInv'
<1> USE DEF IndInv
<1>1. /\ pc[h] = "resolve"
      /\ UNCHANGED <<profile, container, req, wrote, metered, started>>
      /\ ~wrote[h] /\ ~metered[h]
  BY DEF RefuseInstall, WritesOnce
<1>2. PICK a \in {"409", "400", "503"} : Answer(h, a)
  BY DEF RefuseInstall
<1>3. a \in Answers
  BY DEF Answers
<1>4. TypeOK'
  BY <1>1, <1>2, <1>3, AnswerTypes DEF TypeOK
<1>5. EnvConsistent' /\ MeteredIsStored'
  BY <1>1 DEF EnvConsistent, MeteredIsStored
<1>6. RefusalLeavesProfile'
  BY <1>1, <1>2, <1>3, AnswerTypes DEF RefusalLeavesProfile
<1>7. ReadChecked(h)' /\ WritesOnce(h)'
  BY <1>2, <1>3, AnswerTypes DEF ReadChecked, WritesOnce
<1>8. ASSUME NEW g \in Handlers \ {h}
      PROVE  ReadChecked(g)' /\ WritesOnce(g)'
  BY <1>1, <1>2, <1>3, AnswerTypes, OthersKeepFacts
<1>9. QED BY <1>4, <1>5, <1>6, <1>7, <1>8

LEMMA ResolvePreserves ==
  ASSUME IndInv, NEW h \in Handlers, Resolve(h)
  PROVE  IndInv'
<1> USE DEF IndInv
<1>1. /\ pc[h] = "resolve"
      /\ req[h].hosted \subseteq KnownCaps
      /\ UNCHANGED <<profile, container, req, snap, wrote, metered, started>>
      /\ Goto(h, "write")
  BY DEF Resolve
<1>2. "write" \in PCs
  BY DEF PCs
<1>3. /\ pc' \in [Handlers -> PCs] /\ pc'[h] = "write" /\ ans' = ans
      /\ \A g \in Handlers \ {h} : pc'[g] = pc[g]
  BY <1>1, <1>2, GotoTypes
<1>4. TypeOK'
  BY <1>1, <1>3 DEF TypeOK
<1>5. EnvConsistent' /\ MeteredIsStored' /\ RefusalLeavesProfile'
  BY <1>1, <1>3 DEF EnvConsistent, MeteredIsStored, RefusalLeavesProfile
<1>6. ReadChecked(h)' /\ WritesOnce(h)'
  BY <1>1, <1>3 DEF ReadChecked, WritesOnce
<1>7. ASSUME NEW g \in Handlers \ {h}
      PROVE  ReadChecked(g)' /\ WritesOnce(g)'
  BY <1>1, <1>3, OthersKeepFacts
<1>8. QED BY <1>4, <1>5, <1>6, <1>7

LEMMA SavePreserves ==
  ASSUME IndInv, NEW h \in Handlers, Save(h)
  PROVE  IndInv'
<1> USE DEF IndInv
<1>1. /\ pc[h] = "write"
      /\ req[h].kind \in SaveKinds
      /\ profile' = Outcome(h)
      /\ wrote' = [wrote EXCEPT ![h] = TRUE]
      /\ UNCHANGED <<container, req, snap, metered, started>>
      /\ Goto(h, "dispatch")
  BY DEF Save
<1>2. "dispatch" \in PCs
  BY DEF PCs
<1>3. /\ pc' \in [Handlers -> PCs] /\ pc'[h] = "dispatch" /\ ans' = ans
      /\ \A g \in Handlers \ {h} : pc'[g] = pc[g]
  BY <1>1, <1>2, GotoTypes
<1>4. Outcome(h) \in Env /\ Consistent(Outcome(h))
  BY <1>1, OutcomeConsistent DEF TypeOK
<1>5. /\ wrote' \in [Handlers -> BOOLEAN] /\ wrote'[h] = TRUE
      /\ \A g \in Handlers \ {h} : wrote'[g] = wrote[g]
  BY <1>1 DEF TypeOK
<1>6. TypeOK'
  BY <1>1, <1>3, <1>4, <1>5 DEF TypeOK
<1>7. EnvConsistent'
  BY <1>1, <1>4 DEF EnvConsistent
<1>8. ans[h] = "none"
  BY <1>1 DEF WritesOnce
<1>9. RefusalLeavesProfile' /\ MeteredIsStored'
  BY <1>1, <1>3, <1>5, <1>8
     DEF RefusalLeavesProfile, MeteredIsStored, Refusals
<1>10. ReadChecked(h)' /\ WritesOnce(h)'
  BY <1>1, <1>3, <1>5, <1>8 DEF ReadChecked, WritesOnce
<1>11. ASSUME NEW g \in Handlers \ {h}
       PROVE  ReadChecked(g)' /\ WritesOnce(g)'
  BY <1>1, <1>3, <1>5, OthersKeepFacts
<1>12. QED BY <1>6, <1>7, <1>9, <1>10, <1>11

\* Events are emitted for h alone.
LEMMA MeterTypes ==
  ASSUME TypeOK, NEW h \in Handlers, Meter(h)
  PROVE  /\ metered' \in [Handlers -> BOOLEAN]
         /\ \A g \in Handlers \ {h} : metered'[g] = metered[g]
  BY DEF Meter, TypeOK

LEMMA DispatchPreserves ==
  ASSUME IndInv, NEW h \in Handlers, Dispatch(h)
  PROVE  IndInv'
<1> USE DEF IndInv
<1>1. /\ pc[h] = "dispatch"
      /\ UNCHANGED <<profile, req, wrote, started>>
      /\ container' \in
           {container, IF container = NoBot THEN NoBot ELSE Outcome(h)}
  BY DEF Dispatch
<1>2. Meter(h) \/ UNCHANGED metered
  BY DEF Dispatch
<1>3. PICK a \in {"200", "503"} :
        Answer(h, a) /\ (a = "503" => req[h].kind = "toggle")
  BY DEF Dispatch
<1>4. a \in Answers
  BY DEF Answers
<1>5. Outcome(h) \in Env /\ Consistent(Outcome(h))
  BY <1>1, OutcomeConsistent DEF TypeOK
<1>6. /\ metered' \in [Handlers -> BOOLEAN]
      /\ \A g \in Handlers \ {h} : metered'[g] = metered[g]
  BY <1>2, MeterTypes DEF TypeOK
<1>7. TypeOK'
  BY <1>1, <1>3, <1>4, <1>5, <1>6, AnswerTypes DEF TypeOK
<1>8. EnvConsistent'
  BY <1>1, <1>5 DEF EnvConsistent
<1>9. RefusalLeavesProfile'
  BY <1>1, <1>3, <1>4, AnswerTypes
     DEF RefusalLeavesProfile, Refusals, InstallKinds
<1>10. MeteredIsStored'
  BY <1>1, <1>6 DEF MeteredIsStored, WritesOnce
<1>11. ReadChecked(h)' /\ WritesOnce(h)'
  BY <1>3, <1>4, AnswerTypes DEF ReadChecked, WritesOnce
<1>12. ASSUME NEW g \in Handlers \ {h}
       PROVE  ReadChecked(g)' /\ WritesOnce(g)'
  BY <1>1, <1>3, <1>4, <1>6, AnswerTypes, OthersKeepFacts
<1>13. QED BY <1>7, <1>8, <1>9, <1>10, <1>11, <1>12

LEMMA UpdatePreserves ==
  ASSUME IndInv, NEW h \in Handlers, Update(h)
  PROVE  IndInv'
<1> USE DEF IndInv
<1>1. /\ pc[h] = "write"
      /\ profile' = Outcome(h)
      /\ container' = IF container = NoBot THEN NoBot ELSE Outcome(h)
      /\ wrote' = [wrote EXCEPT ![h] = TRUE]
      /\ UNCHANGED <<req, started>>
      /\ Answer(h, "200")
      /\ Meter(h)
  BY DEF Update
<1>2. "200" \in Answers
  BY DEF Answers
<1>3. Outcome(h) \in Env /\ Consistent(Outcome(h))
  BY <1>1, OutcomeConsistent DEF TypeOK
<1>4. /\ wrote' \in [Handlers -> BOOLEAN] /\ wrote'[h] = TRUE
      /\ \A g \in Handlers \ {h} : wrote'[g] = wrote[g]
  BY <1>1 DEF TypeOK
<1>5. /\ metered' \in [Handlers -> BOOLEAN]
      /\ \A g \in Handlers \ {h} : metered'[g] = metered[g]
  BY <1>1, MeterTypes
<1>6. TypeOK'
  BY <1>1, <1>2, <1>3, <1>4, <1>5, AnswerTypes DEF TypeOK
<1>7. EnvConsistent'
  BY <1>1, <1>3 DEF EnvConsistent
<1>8. RefusalLeavesProfile'
  BY <1>1, <1>2, <1>4, AnswerTypes DEF RefusalLeavesProfile, Refusals
<1>9. MeteredIsStored'
  BY <1>4, <1>5 DEF MeteredIsStored
<1>10. ReadChecked(h)' /\ WritesOnce(h)'
  BY <1>1, <1>2, AnswerTypes DEF ReadChecked, WritesOnce
<1>11. ASSUME NEW g \in Handlers \ {h}
       PROVE  ReadChecked(g)' /\ WritesOnce(g)'
  BY <1>1, <1>2, <1>4, <1>5, AnswerTypes, OthersKeepFacts
<1>12. QED BY <1>6, <1>7, <1>8, <1>9, <1>10, <1>11

LEMMA UpdateFailsPreserves ==
  ASSUME IndInv, NEW h \in Handlers, UpdateFails(h)
  PROVE  IndInv'
<1> USE DEF IndInv
<1>1. /\ pc[h] = "write"
      /\ UNCHANGED <<container, req, metered, started>>
      /\ ~wrote[h] /\ ~metered[h]
  BY DEF UpdateFails, WritesOnce
<1>2. PICK a \in {"404", "500"} :
        /\ Answer(h, a)
        /\ \/ UNCHANGED <<profile, wrote>>
           \/ /\ a = "500"
              /\ profile' = Outcome(h)
              /\ wrote' = [wrote EXCEPT ![h] = TRUE]
  BY DEF UpdateFails
<1>3. a \in Answers
  BY DEF Answers
<1>4. Outcome(h) \in Env /\ Consistent(Outcome(h))
  BY <1>1, OutcomeConsistent DEF TypeOK
<1>5. /\ wrote' \in [Handlers -> BOOLEAN]
      /\ a = "404" => ~wrote'[h]
      /\ \A g \in Handlers \ {h} : wrote'[g] = wrote[g]
  BY <1>1, <1>2 DEF TypeOK
<1>6. profile' \in Env \cup {NoBot}
  BY <1>2, <1>4 DEF TypeOK
<1>7. TypeOK'
  BY <1>1, <1>2, <1>3, <1>5, <1>6, AnswerTypes DEF TypeOK
<1>8. EnvConsistent'
  BY <1>1, <1>2, <1>4 DEF EnvConsistent
<1>9. RefusalLeavesProfile'
  BY <1>1, <1>2, <1>3, <1>5, AnswerTypes DEF RefusalLeavesProfile, Refusals
<1>10. MeteredIsStored'
  BY <1>1, <1>5 DEF MeteredIsStored
<1>11. ReadChecked(h)' /\ WritesOnce(h)'
  BY <1>2, <1>3, AnswerTypes DEF ReadChecked, WritesOnce
<1>12. ASSUME NEW g \in Handlers \ {h}
       PROVE  ReadChecked(g)' /\ WritesOnce(g)'
  BY <1>1, <1>2, <1>3, <1>5, AnswerTypes, OthersKeepFacts
<1>13. QED BY <1>7, <1>8, <1>9, <1>10, <1>11, <1>12

LEMMA ThrowPreserves ==
  ASSUME IndInv, NEW h \in Handlers, Throw(h)
  PROVE  IndInv'
<1> USE DEF IndInv
<1>1. /\ UNCHANGED <<profile, container, req, wrote, metered, started>>
      /\ Answer(h, "500")
  BY DEF Throw
<1>2. "500" \in Answers
  BY DEF Answers
<1>3. TypeOK'
  BY <1>1, <1>2, AnswerTypes DEF TypeOK
<1>4. EnvConsistent' /\ MeteredIsStored'
  BY <1>1 DEF EnvConsistent, MeteredIsStored
<1>5. RefusalLeavesProfile'
  BY <1>1, <1>2, AnswerTypes DEF RefusalLeavesProfile, Refusals
<1>6. ReadChecked(h)' /\ WritesOnce(h)'
  BY <1>1, <1>2, AnswerTypes DEF ReadChecked, WritesOnce
<1>7. ASSUME NEW g \in Handlers \ {h}
      PROVE  ReadChecked(g)' /\ WritesOnce(g)'
  BY <1>1, <1>2, AnswerTypes, OthersKeepFacts
<1>8. QED BY <1>3, <1>4, <1>5, <1>6, <1>7

LEMMA DestroyPreserves ==
  ASSUME IndInv, Destroy
  PROVE  IndInv'
  BY DEF IndInv, Destroy, TypeOK, EnvConsistent, RefusalLeavesProfile,
         MeteredIsStored, ReadChecked, WritesOnce

LEMMA UpdateOtherPreserves ==
  ASSUME IndInv, UpdateOther
  PROVE  IndInv'
  BY DEF IndInv, UpdateOther, TypeOK, EnvConsistent, RefusalLeavesProfile,
         MeteredIsStored, ReadChecked, WritesOnce

LEMMA StutterPreserves ==
  ASSUME IndInv, UNCHANGED vars
  PROVE  IndInv'
  BY DEF vars, IndInv, TypeOK, EnvConsistent, RefusalLeavesProfile,
         MeteredIsStored, ReadChecked, WritesOnce

LEMMA NextPreserves == IndInv /\ [Next]_vars => IndInv'
<1> SUFFICES ASSUME IndInv, [Next]_vars
             PROVE  IndInv'
  OBVIOUS
<1>1. CASE UpdateOther \/ Destroy
  BY <1>1, UpdateOtherPreserves, DestroyPreserves
<1>2. ASSUME NEW h \in Handlers, Handle(h)
      PROVE  IndInv'
  BY <1>2, BeginPreserves, ReadProfilePreserves, RefuseInstallPreserves,
     ResolvePreserves, SavePreserves, DispatchPreserves, UpdatePreserves,
     UpdateFailsPreserves, ThrowPreserves
     DEF Handle
<1>3. CASE UNCHANGED vars
  BY <1>3, StutterPreserves
<1>4. QED BY <1>1, <1>2, <1>3 DEF Next

THEOREM IndInvHolds == Spec => []IndInv
<1>1. Init => IndInv
  BY InitEstablishes
<1>2. IndInv /\ [Next]_vars => IndInv'
  BY NextPreserves
<1>3. QED BY <1>1, <1>2, PTL DEF Spec

(***************************************************************************)
(* The theorems.                                                           *)
(***************************************************************************)

\* Every variable keeps its type: no request, lost update or failed update
\* puts an unknown plugin, capability or credential into an environment.
THEOREM TypeCorrect == Spec => []TypeOK
<1>1. IndInv => TypeOK
  BY DEF IndInv
<1>2. QED BY <1>1, IndInvHolds, PTL

\* The plugin list, the disabled list, the per-plugin configs and the tracked
\* credentials of a bot always agree, in the stored profile and in the
\* container, for any number of concurrent requests of every kind,
\* and of any plugin ids: ids of one config variable break the agreement of
\* that variable and of the credentials it claimed, and no other.
THEOREM EnvironmentsAgree == Spec => []EnvConsistent
<1>1. IndInv => EnvConsistent
  BY DEF IndInv
<1>2. QED BY <1>1, IndInvHolds, PTL

\* A refused request has not written: whoever is answered 400, 404 or 409 finds
\* the profile as the others have left it.
THEOREM RefusalsWriteNothing == Spec => []RefusalLeavesProfile
<1>1. IndInv => RefusalLeavesProfile
  BY DEF IndInv
<1>2. QED BY <1>1, IndInvHolds, PTL

\* Hosted activations are billed only after the environment that holds their
\* keys was stored.
THEOREM BilledIsStored == Spec => []MeteredIsStored
<1>1. IndInv => MeteredIsStored
  BY DEF IndInv
<1>2. QED BY <1>1, IndInvHolds, PTL

\* What a handler writes differs from what it has read in the lists at its
\* own plugin, and in the config of that plugin's variable.
LEMMA OutcomeIsLocal ==
  ASSUME NEW h \in Handlers, req[h] \in Request, snap[h] \in Env,
         req[h].kind # "patch"
  PROVE  TouchesOwn(req[h], snap[h], Outcome(h))
<1> DEFINE r == req[h]
           e == snap[h]
           n == Outcome(h)
           named(q) == r.kind \in PluginKinds /\ r.plugin = q
           sharing(q) == r.kind \in PluginKinds /\ ConfigKey[r.plugin] = ConfigKey[q]
           listed(q) == (q \in n.plugins <=> q \in e.plugins)
                        /\ (q \in n.disabled <=> q \in e.disabled)
           config(q) == (ConfigKey[q] \in n.configured <=> ConfigKey[q] \in e.configured)
                        /\ n.hosted[ConfigKey[q]] = e.hosted[ConfigKey[q]]
<1>1. e.hosted \in [ConfigKeys -> SUBSET KnownCaps] /\ e.plugins \subseteq Plugins
  BY DEF Env
<1> SUFFICES ASSUME NEW q \in Plugins
             PROVE  (named(q) \/ listed(q)) /\ (sharing(q) \/ config(q))
  <2>1. ASSUME NEW q \in Plugins, listed(q)
        PROVE  Listed(n, q) = Listed(e, q)
    BY <2>1 DEF Listed
  <2>2. ASSUME NEW q \in Plugins, config(q)
        PROVE  Config(n, q) = Config(e, q)
    BY <2>2 DEF Config
  <2>3. QED BY <2>1, <2>2, Zenon DEF TouchesOwn
<1>2. ConfigKey[q] \in ConfigKeys
  BY TypeAssumption
<1>3. CASE r.kind \in InstallKinds
  <2>1. r.plugin \in Plugins /\ r.kind \in PluginKinds /\ ConfigKey[r.plugin] \in ConfigKeys
    BY <1>3, RequestFields, TypeAssumption DEF InstallKinds, PluginKinds
  <2> DEFINE w == WithPlugin(e, r.plugin, r.hosted)
  <2>2. /\ w.plugins = e.plugins \cup {r.plugin}
        /\ w.disabled = e.disabled
        /\ w.configured = e.configured \cup {ConfigKey[r.plugin]}
        /\ w.hosted = [e.hosted EXCEPT ![ConfigKey[r.plugin]] = r.hosted]
    BY DEF WithPlugin, Env
  <2>3. /\ n.plugins = w.plugins /\ n.disabled = w.disabled
        /\ n.configured = w.configured /\ n.hosted = w.hosted
    <3>1. w \in [plugins : {w.plugins}, disabled : {w.disabled},
                 configured : {w.configured}, hosted : {w.hosted},
                 tracked : {w.tracked}, keys : {w.keys},
                 providers : {w.providers}, active : {w.active},
                 shared : {w.shared}, lost : {w.lost}]
      BY DEF WithPlugin, Env
    <3>2. n = w \/ n = WithPrimaries(w, r.primary)
      BY <1>3 DEF Outcome, InstallKinds
    <3> HIDE DEF w
    <3>3. QED BY <3>1, <3>2 DEF WithPrimaries
  <2> HIDE DEF w, n
  <2>4. QED BY <1>1, <1>2, <2>1, <2>2, <2>3
<1>4. CASE r.kind = "uninstall"
  <2>1. r.plugin \in Plugins /\ r.kind \in PluginKinds /\ ConfigKey[r.plugin] \in ConfigKeys
    BY <1>4, RequestFields, TypeAssumption DEF PluginKinds
  <2>2. n = WithoutPlugin(e, r.plugin)
    BY <1>4 DEF Outcome
  <2>3. /\ n.plugins = e.plugins \ {r.plugin}
        /\ n.disabled = e.disabled \ {r.plugin}
        /\ n.configured = e.configured \ {ConfigKey[r.plugin]}
        /\ n.hosted = [e.hosted EXCEPT ![ConfigKey[r.plugin]] = {}]
    BY <2>2 DEF WithoutPlugin, Env
  <2> HIDE DEF n
  <2>4. QED BY <1>1, <1>2, <2>1, <2>3
<1>5. CASE r.kind = "toggle"
  <2>1. r.kind \in PluginKinds
    BY <1>5 DEF PluginKinds
  <2>2. n = WithToggle(e, r.plugin, r.enabled)
    BY <1>5 DEF Outcome
  <2>3. QED BY <2>1, <2>2 DEF WithToggle, Env
<1>6. CASE r.kind = "activate"
  BY <1>6 DEF Outcome, WithCapability, Env
<1>7. CASE r.kind = "setup"
  BY <1>7 DEF Outcome, WithOwnKeys, Env
<1>8. QED
  BY <1>3, <1>4, <1>5, <1>6, <1>7, RequestFields
     DEF SaveKinds, UpdateKinds, InstallKinds

\* A handler leaves "write" by writing what it has computed, or nothing.
LEMMA LeavingWrite ==
  ASSUME TypeOK, NEW h \in Handlers, pc[h] = "write", pc'[h] # "write", Next
  PROVE  profile' \in {profile, Outcome(h)}
<1>1. CASE UpdateOther \/ Destroy
  BY <1>1 DEF UpdateOther, Destroy
<1>2. CASE Handle(h)
  BY <1>2 DEF Handle, Begin, ReadProfile, RefuseInstall, Resolve, Save,
              Dispatch, Update, UpdateFails, Throw, Answer
<1>3. ASSUME NEW g \in Handlers \ {h}, Handle(g)
      PROVE  FALSE
  <2>1. pc'[h] = pc[h]
    BY <1>3 DEF Handle, Begin, ReadProfile, RefuseInstall, Resolve, Save,
                Dispatch, Update, UpdateFails, Throw, Answer, Goto, TypeOK
  <2>2. QED BY <2>1
<1>4. QED BY <1>1, <1>2, <1>3 DEF Next

\* A write that is not overtaken between its read and itself touches no plugin
\* but the request's own, and no config but its variable: another plugin's
\* settings are lost only to an overlapping request or to an id that shares
\* the plugin's variable.
THEOREM SerialWritesAreLocal == Spec => SerialWriteIsLocal
<1> DEFINE Local(h) ==
      (/\ pc[h] = "write" /\ pc'[h] # "write"
       /\ req[h].kind # "patch"
       /\ snap[h] = profile)
      => TouchesOwn(req[h], profile, profile')
<1>1. ASSUME TypeOK, Next, NEW h \in Handlers
      PROVE  Local(h)
  <2> SUFFICES ASSUME pc[h] = "write", pc'[h] # "write",
                      req[h].kind # "patch", snap[h] = profile
               PROVE  TouchesOwn(req[h], profile, profile')
    OBVIOUS
  <2>1. profile' \in {profile, Outcome(h)}
    BY <1>1, LeavingWrite
  <2>2. TouchesOwn(req[h], profile, Outcome(h))
    BY <1>1, OutcomeIsLocal DEF TypeOK
  <2>3. TouchesOwn(req[h], profile, profile)
    BY DEF TouchesOwn
  <2>4. QED BY <2>1, <2>2, <2>3
<1>2. TypeOK /\ [Next]_vars => [\A h \in Handlers : Local(h)]_vars
  BY <1>1
<1>3. QED BY <1>2, TypeCorrect, PTL DEF Spec, SerialWriteIsLocal

=============================================================================
