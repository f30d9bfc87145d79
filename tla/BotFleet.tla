------------------------------- MODULE BotFleet -------------------------------
(***************************************************************************)
(* The bots of a tenant: creation, control, removal, image updates and     *)
(* changes of the resource tier (api/routes/fleet.ts, trpc/routers/fleet   *)
(* .ts, fleet/fleet-remove.ts) over the FleetManager and the gateway keys  *)
(* of platform-core.                                                       *)
(*                                                                         *)
(* A tier change removes the bot and creates it again under the same id,   *)
(* with the new limits or, if that fails, with those of the previous tier. *)
(* As index.ts wires the router there is no repository of instances: the   *)
(* tier is not recorded, and the previous one counts as "standard".        *)
(*                                                                         *)
(* A call that throws has done nothing.  A call for a bot that is not      *)
(* there throws; creating a bot that is there throws or replaces it.       *)
(* Abstracted: the payment gate, the quota (unlimited by default) and the  *)
(* placement, which refuse before anything is done; volumes, environments  *)
(* (BotPlugins) and the registration with the billing.                     *)
(***************************************************************************)
EXTENDS ServerLoad

CONSTANTS
  Bots,         \* bound: bots, numbered as they are created
  FleetSlots    \* slots of concurrent requests on bots

ASSUME FleetAssumption ==
  /\ Bots \subseteq Nat \ {0}
  /\ FleetSlots \subseteq Nat

VARIABLES
  bot,          \* profiles, containers and keys of the bots
  task,         \* what a request is doing
  noted         \* how a bot came to what it is (history)

fleetVars == <<bot, task, noted>>

NoBot == 0

Tiers == {"standard", "pro"}

Containers == {"none", "stopped", "running"}

\* `there`: FleetManager knows the bot; `key`: its gateway key is valid.
Absent == [there |-> FALSE, container |-> "none", tier |-> "standard", key |-> FALSE]

TaskStates == {"idle", "start", "key", "remove", "revoke", "status", "stop",
               "unmake", "make", "startAgain", "remake", "restored"}

\* A tier change keeps the tier it is to set and whether the bot was running.
\* History: `was`, the tier when it began.
NoTask == [at |-> "idle", bot |-> NoBot, tier |-> "standard", running |-> FALSE,
           was |-> "standard"]

\* The bot has been "made" and "keyed", a user has "removed" it, its key could
\* not be revoked or was made "late", or it "failed" to be created again.
Notes == {"made", "keyed", "removed", "unrevoked", "late", "failed"}

FleetInit ==
  /\ bot = [b \in Bots |-> Absent]
  /\ task = [h \in FleetSlots |-> NoTask]
  /\ noted = [b \in Bots |-> {}]

FleetTypeOK ==
  /\ bot \in [Bots -> [there : BOOLEAN, container : Containers, tier : Tiers,
                       key : BOOLEAN]]
  /\ task \in [FleetSlots -> [at : TaskStates, bot : Bots \cup {NoBot}, tier : Tiers,
                              running : BOOLEAN, was : Tiers]]
  /\ noted \in [Bots -> SUBSET Notes]

-----------------------------------------------------------------------------
Goto(h, at) == task' = [task EXCEPT ![h].at = at]

Done(h) == task' = [task EXCEPT ![h] = NoTask]

Note(b, what) == noted' = [noted EXCEPT ![b] = @ \cup {what}]

\* The slots are alike: a request takes the first that is free.
Free(h) ==
  /\ task[h] = NoTask
  /\ \A g \in FleetSlots : task[g] = NoTask => h <= g

Of(h) == task[h].bot

There(h) == bot[Of(h)].there

Created(b, tier) ==
  bot' = [bot EXCEPT ![b].there = TRUE, ![b].container = "stopped", ![b].tier = tier]

Removed(b) == bot' = [bot EXCEPT ![b].there = FALSE, ![b].container = "none"]

-----------------------------------------------------------------------------
(* Creation.                                                               *)

\* createInstance, which starts the bot, and POST /bots, which does not:
\* fleet.create.
CreateBot(h) ==
  \E b \in Bots, at \in {"start", "key"} :
    /\ Free(h)
    /\ noted[b] = {}
    /\ \A c \in Bots : noted[c] = {} => b <= c
    /\ Begin("bot")
    /\ Created(b, "standard")
    /\ task' = [task EXCEPT ![h].at = at, ![h].bot = b]
    /\ Note(b, "made")

\* profile.start; its failure is swallowed.
StartNew(h) ==
  /\ task[h].at = "start"
  /\ \/ There(h) /\ bot' = [bot EXCEPT ![Of(h)].container = "running"]
     \/ UNCHANGED bot
  /\ Goto(h, "key")
  /\ UNCHANGED noted

\* keyRepo.generate, for whatever has become of the bot; its failure is
\* swallowed.
MakeKey(h) ==
  /\ task[h].at = "key"
  /\ \/ /\ bot' = [bot EXCEPT ![Of(h)].key = TRUE]
        /\ Note(Of(h), IF "removed" \in noted[Of(h)] THEN "late" ELSE "keyed")
     \/ UNCHANGED <<bot, noted>>
  /\ Done(h)

-----------------------------------------------------------------------------
(* Control.                                                                *)

\* start.
StartBot(b) ==
  /\ bot[b].there
  /\ bot[b].container = "stopped"
  /\ bot' = [bot EXCEPT ![b].container = "running"]
  /\ UNCHANGED <<task, noted>>

\* stop; so may a crash of the bot leave it.
StopBot(b) ==
  /\ bot[b].there
  /\ bot[b].container = "running"
  /\ bot' = [bot EXCEPT ![b].container = "stopped"]
  /\ UNCHANGED <<task, noted>>

RestartBot(b) ==
  /\ bot[b].there
  /\ bot[b].container # "none"
  /\ bot' = [bot EXCEPT ![b].container = "running"]
  /\ UNCHANGED <<task, noted>>

\* updater.updateBot, for a request or for the poller: the container is made
\* anew from the new image, or from the old one if that fails.
UpdateImage(b) ==
  /\ bot[b].there
  /\ \E container \in Containers \ {"none"} : bot' = [bot EXCEPT ![b].container = container]
  /\ UNCHANGED <<task, noted>>

\* The container is gone, or out of the manager's sight.
ContainerVanishes(b) ==
  /\ bot[b].container # "none"
  /\ bot' = [bot EXCEPT ![b].container = "none"]
  /\ UNCHANGED <<task, noted>>

-----------------------------------------------------------------------------
(* Removal.                                                                *)

\* removeInstance, destroy, DELETE /bots/:id: the profile is there.
BeginRemove(h) ==
  \E b \in Bots :
    /\ Free(h)
    /\ bot[b].there
    /\ Begin("botCall")
    /\ task' = [task EXCEPT ![h].at = "remove", ![h].bot = b]
    /\ UNCHANGED <<bot, noted>>

\* Mutant: the key is revoked whether or not the bot could be removed.
AfterRemoveFailsAnyway(h) ==
  /\ bot' = [bot EXCEPT ![Of(h)].key = FALSE]
  /\ Done(h)

\* fleet.remove throws: so does removeInstance.
AfterRemoveFails(h) == Done(h) /\ UNCHANGED bot

\* fleet.remove.
RemoveBot(h) ==
  /\ task[h].at = "remove"
  /\ \/ /\ There(h)
        /\ Removed(Of(h))
        /\ Note(Of(h), "removed")
        /\ Goto(h, "revoke")
     \/ AfterRemoveFails(h) /\ UNCHANGED noted

\* Mutant: the keys of the bot stay valid.
RevokedNever(b) == bot[b]

\* revokeByInstance.
Revoked(b) == [bot[b] EXCEPT !.key = FALSE]

\* The revocation; its failure is swallowed.
RevokeKey(h) ==
  /\ task[h].at = "revoke"
  /\ \/ bot' = [bot EXCEPT ![Of(h)] = Revoked(Of(h))] /\ UNCHANGED noted
     \/ Note(Of(h), "unrevoked") /\ UNCHANGED bot
  /\ Done(h)

-----------------------------------------------------------------------------
(* Change of the resource tier.                                            *)

\* setResourceTier: the profile is there, and the credits suffice.
BeginTier(h) ==
  \E b \in Bots, tier \in Tiers :
    /\ Free(h)
    /\ bot[b].there
    /\ Begin("botCall")
    /\ task' = [task EXCEPT ![h].at = "status", ![h].bot = b, ![h].tier = tier,
                  ![h].was = bot[b].tier]
    /\ UNCHANGED <<bot, noted>>

\* A call before the removal throws: the tier stays, as does what was stopped.
TierFails(h) ==
  /\ task[h].at \in {"status", "stop", "unmake"}
  /\ Done(h)
  /\ UNCHANGED <<bot, noted>>

\* fleet.status.
ReadStatus(h) ==
  LET container == bot[Of(h)].container IN
  /\ task[h].at = "status"
  /\ There(h)
  /\ task' = [task EXCEPT ![h].running = container = "running",
       ![h].at = CASE container = "running" -> "stop"
                   [] container = "stopped" -> "unmake"
                   [] container = "none" -> "make"]
  /\ UNCHANGED <<bot, noted>>

\* instance.stop.
StopForTier(h) ==
  /\ task[h].at = "stop"
  /\ There(h)
  /\ bot' = [bot EXCEPT ![Of(h)].container = IF @ = "running" THEN "stopped" ELSE @]
  /\ Goto(h, "unmake")
  /\ UNCHANGED noted

\* fleet.remove, which keeps the volumes; the key stays.
Unmake(h) ==
  /\ task[h].at = "unmake"
  /\ There(h)
  /\ Removed(Of(h))
  /\ Goto(h, "make")
  /\ UNCHANGED noted

\* Mutant: a failed creation is the end of the change.
AfterMakeFailsNothing(h) == Done(h)

AfterMakeFails(h) == Goto(h, "remake")

\* fleet.create with the new limits, from the profile read at the start.
Make(h) ==
  /\ task[h].at = "make"
  /\ \/ /\ Created(Of(h), task[h].tier)
        /\ IF task[h].running THEN Goto(h, "startAgain") ELSE Done(h)
     \/ AfterMakeFails(h) /\ UNCHANGED bot
  /\ UNCHANGED noted

\* instance.start; if it fails, the bot is to be created once more.
StartAgain(h) ==
  /\ task[h].at = "startAgain"
  /\ \/ /\ There(h)
        /\ bot' = [bot EXCEPT ![Of(h)].container = "running"]
        /\ Done(h)
     \/ AfterMakeFails(h) /\ UNCHANGED bot
  /\ UNCHANGED noted

\* repo?.getResourceTier(id) ?? "standard", without a repository.
PreviousTier == "standard"

\* fleet.create with the limits of the previous tier; if it fails, "manual
\* recovery required" is logged.
Remake(h) ==
  /\ task[h].at = "remake"
  /\ \/ /\ Created(Of(h), PreviousTier)
        /\ Goto(h, "restored")
        /\ UNCHANGED noted
     \/ /\ Note(Of(h), "failed")
        /\ Done(h)
        /\ UNCHANGED bot

\* instance.start if it was running, and the answer: "rolled back".
StartRestored(h) ==
  /\ task[h].at = "restored"
  /\ \/ task[h].running /\ There(h) /\ bot' = [bot EXCEPT ![Of(h)].container = "running"]
     \/ UNCHANGED bot
  /\ Done(h)
  /\ UNCHANGED noted

-----------------------------------------------------------------------------
\* Between its removal and its creation the bot exists in the change alone.
Changing(b) == \E h \in FleetSlots : task[h].at \in {"make", "remake"} /\ Of(h) = b

Revoking(b) == \E h \in FleetSlots : task[h].at = "revoke" /\ Of(h) = b

\* What is left when the process ends: profiles, containers and keys.
FleetCutOff ==
  /\ task' = [h \in FleetSlots |-> NoTask]
  /\ noted' = [b \in Bots |-> noted[b]
       \cup (IF Changing(b) THEN {"failed"} ELSE {})
       \cup (IF Revoking(b) THEN {"unrevoked"} ELSE {})]
  /\ UNCHANGED bot

FleetRequests ==
  \E h \in FleetSlots : CreateBot(h) \/ BeginRemove(h) \/ BeginTier(h)

FleetEvents ==
  /\ \/ \E h \in FleetSlots :
          \/ StartNew(h)
          \/ MakeKey(h)
          \/ RemoveBot(h)
          \/ RevokeKey(h)
          \/ TierFails(h)
          \/ ReadStatus(h)
          \/ StopForTier(h)
          \/ Unmake(h)
          \/ Make(h)
          \/ StartAgain(h)
          \/ Remake(h)
          \/ StartRestored(h)
     \/ \E b \in Bots :
          StartBot(b) \/ StopBot(b) \/ RestartBot(b) \/ UpdateImage(b) \/ ContainerVanishes(b)
  /\ UNCHANGED budget

-----------------------------------------------------------------------------
(* Properties.                                                             *)

\* A bot that nobody has removed is there, or a tier change is about to create
\* it again, or the creations with new and old limits have both failed, or the
\* process has ended in between: overlapping changes do not lose it.
LostNeedsTwoFailures ==
  \A b \in Bots :
    (noted[b] # {} /\ ~bot[b].there) =>
      noted[b] \cap {"removed", "failed"} # {} \/ Changing(b)

\* "revoking before removal risks leaving a running instance without
\* credentials" (fleet-remove.ts): a bot nobody has removed keeps its key, also
\* through tier changes.  The key of a removed bot is revoked, unless the
\* revocation failed or was cut off, or the request that had created the bot
\* made its key after the removal.
KeysFollowBots ==
  \A b \in Bots :
    /\ (bot[b].there /\ "keyed" \in noted[b] /\ "removed" \notin noted[b]) => bot[b].key
    /\ ("removed" \in noted[b] /\ ~bot[b].there /\ bot[b].key) =>
         noted[b] \cap {"unrevoked", "late"} # {} \/ Revoking(b)

\* No bot is lost, and the keys go with the bots.
BotsAndKeysSurvive == LostNeedsTwoFailures /\ KeysFollowBots

\* "attempt to re-create with old tier limits to restore service" (trpc/routers
\* /fleet.ts): a bot that is restored after a failed change has the tier it had.
RestoredTierIsPrevious ==
  \A h \in FleetSlots :
    (task[h].at = "restored" /\ There(h)) => bot[Of(h)].tier = task[h].was
=============================================================================
