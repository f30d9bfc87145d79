# TLA+ models of wopr-platform

wopr-platform is the control plane of hosted WOPR bots: a Hono HTTP server and
a tRPC router over PostgreSQL (`src/src`, about 19,800 lines).  Fleet
management, the credit ledger, the node registrar and other engines live in
the package `@wopr-network/platform-core` and are seen here only through the
calls this repository makes.  Paths below are relative to `src/src`.

Nearly all of the program's own logic has one shape: a handler reads a row,
awaits something, decides, and later writes a row, without a transaction or a
condition on the write.  Node runs one handler at a time but switches at every
`await`, and several processes may share the database.  The models therefore
have one state machine per request, one step per await, and every interleaving
of the requests.

## Inventory

| Component | State | Operations | What is hard | What makes it correct |
|---|---|---|---|---|
| Bot plugin state (`api/routes/bot-plugins.ts`, `marketplace.ts`, `setup.ts`, `fleet.ts`, `trpc/routers/fleet.ts`) | environment of a bot's profile and of its container | install, channel connect and disconnect, uninstall, toggle, marketplace install, capability activation, setup save, profile PATCH, removal | whole-profile read-modify-write across awaits; store and container updated apart; shared credentials; ids that share a config variable | lists agree with each other; a refused request writes nothing; only stored keys are billed; a serial write is local |
| Channel OAuth (`api/routes/channel-oauth.ts`, `api/drizzle-oauth-state-repository.ts`) | `oauth_states` | initiate, callback, poll, purge | SELECT then DELETE; repeated redirects and polls; expiry; un-awaited purge | a token reaches its owner, once, and is not lost |
| Tenant status (`admin/tenant-status/*`, `trpc/routers/admin.ts`, `admin/bulk/*`) | `tenant_status`, and bots, ledger, auto-topup, cards of a tenant | suspend, reactivate, ban, bulk forms, grace period and sweep | check then unconditional write; a ban is six calls | columns agree; a ban stays; a ban leaves nothing |
| Bulk grants (`admin/bulk/*`) | undoable grants, ledger | grant, undo | record after the credits; repeated and concurrent undo; crash | a credit is taken back at most once, from those who had it |
| Organisations (`org/*`, `trpc/routers/org.ts`, `api/routes/orgs.ts`) | tenant row with owner, member rows, invites, linked login accounts | create, personal org, invite, change role, remove, transfer, delete, unlink | owner kept in two tables, written apart; last-admin count | owner and owner row agree; somebody administers; nobody locks itself out |
| Account deletion (`account/*`, `trpc/routers/account.ts`) | deletion requests, a tenant's data in some forty tables | request, cancel, cron, executor, archive of the ledger | crash between executor and completion; cancel during a run; a table that fails; errors kept in memory | a cancelled request deletes nothing; a completed deletion leaves only what failed or was written meanwhile |
| Chat streams (`chat/*`, `api/routes/chat.ts`) | writers, session index, session owners | open stream, POST message, event, done, disconnect | owner cleared while a message is processed; done of one message ends another | events reach the owner of the session; streams end |
| Setup sessions (`api/routes/setup.ts`) | setup session, plugin config | start, save, complete, rollback, errors, cleanup | status checked before a dozen awaits; a status is unique per chat | a rolled-back setup leaves nothing; a stale one is settled |
| Bots (`trpc/routers/fleet.ts`, `api/routes/fleet.ts`, `fleet/fleet-remove.ts`) | profiles, containers, gateway keys | create, control, update, resource tier, remove, log stream | compensation that may fail; key made or revoked apart; chunks of a log | no bot is lost; keys go with bots; a restored bot is what it was; a log arrives whole |
| Payments (`api/routes/billing.ts`, `trpc/routers/billing.ts`) | purchases, penalties of senders, cards, debts, top-ups | checkouts, webhooks, card removal, top-up settings | retries and backoff; charge before record; card checked, then removed | what is acknowledged is handled; every payment gets through; a debt keeps a card |
| Nodes, jobs, start and stop (`index.ts`, `trpc/routers/nodes.ts`) | connection registry, timers | accept, close, remove node, periodic jobs, shutdown, restart | late close of an old socket; timers that start anew | a connected node is registered; every day is covered |
| Daemon calls (`api/routes/bot-plugin-proxy.ts`, `friends.ts`, `setup.ts`) | `plugin_configs`, the daemon's copy, friends | install, configure, enable, friend requests | stored, then sent on a best effort; rolled back without a word | the daemon has what was stored last |
| Checked calls (`trpc/routers/org.ts`, `fleet.ts`, `nodes.ts`, `api/routes/snapshots.ts`, `fleet.ts`) | logins, subscriptions, storage, nodes, snapshots | unlink, VPS upgrade, storage tier, removal of a node, snapshots | what was checked changes before it is acted upon | it fails only if overtaken |
| Row changes (`trpc/routers/admin.ts`, `billing.ts`, `settings.ts`, `profile.ts`, `org-keys.ts`, `addons.ts`, `admin/notes/store.ts`) | single rows and the audit log | thirty-three procedures | stores and audit log that are not awaited | answer and log say what has happened |
| Sign-up (`index.ts`, `api/routes/verify-email.ts`) | a user's credit and workspace | hook, verification link | best-effort steps | who has verified has the credit, but for two failures |
| Wiring, configuration, analytics, users, roles, promotions, onboarding, proxies, audit | single rows or none | queries, forwarding | | |

Components meet in the database, in `FleetManager` and in the process itself;
no handler calls another.  The meeting points that matter: plugin requests,
setup, capability activation and tier changes all rewrite one bot's profile;
status procedures, bulk procedures and tenants all change one account; grants
and account deletion post to and erase the same ledger; whatever a process is
doing ends with it.

## What is modelled

**BotPlugins** is the plugin state of one bot and every handler that rewrites
it.  `profile` and `container` are environments; a handler `h` has a program
counter `pc[h]`, its request `req[h]` and the environment it has read
`snap[h]`.  The handlers' steps are the awaits: `ReadProfile` (the read a write
will be based on; an earlier read only for ownership has no effect), `RefuseInstall`
and `Resolve` (repository and vault), `Save` and `Dispatch` for handlers that
write with `ProfileStore.save`, `Update` and `UpdateFails` for those that write
with `FleetManager.update`, `Throw` for a failing call, `UpdateOther` for an
update without an environment and `Destroy` for the bot's removal.  `Outcome(h)`
is the environment the handler computes.  Lists are sets, a credential is the
presence of its variable, of a plugin's config only the hosted choices are
kept.  The code upper-cases an id to name its config variable but compares ids
as they are, so two ids may share a variable; `shared` and `lost` record when
that has happened and which credentials lost their claim by it.  They are
history, not part of the environment.  `FleetManager.update`, `ProfileStore.save`, `dispatchEnvUpdate`,
`detectCapabilityConflicts` and `CAPABILITY_ENV_MAP` are external.  A
resource-tier change also writes back the profile it read at its start; BotFleet
models it, without the environment.

**OAuthStates** is the table `oauth_states` and the requests that use it.
`Initiate`, `Expire`, `CallbackRead`, `CallbackConsume`, `CallbackExchange`,
`CallbackComplete`, `Purge`, `PollRead` and `PollConsume` are the statements
and the provider's answer, in the order the code awaits them.

**TenantStatus** is the status table and what a tenant owns, with the
procedures that change them: one step per await, `Throw` where one fails (and
where the process dies), `TenantActs` for the tenant going about its business.
`setGracePeriod` and `expireGracePeriods` have no caller in the repository;
they are part of the store and included.  `createTenantStatusGate` is not
mounted by `index.ts`, so a tenant's own actions are not gated on the status.
Optional dependencies (bot billing, topup settings, card detachment) are taken
to be configured, as `fleet/services.ts` does.

**OrgMembership** is one organisation, a team or its founder's personal org:
`owner` is `tenants.ownerId`, `role` the member rows, `invites` the invites.
A request goes through the awaits of its `OrgService` method: `Gate`
(`orgMemberProcedure`), `Authorize` (`requireAdminOrOwner`), `LoadOrg`,
`FindMember`, `CountAdmins`, `FindInvite`, and then its write; a transfer is
the three writes `Promote`, `Demote`, `SetOwner`, a creation `InsertOrg` and
`AddOwner` with the compensating `Compensate`.  `Throw` ends a request anywhere.
The member repository and the procedure's gate are platform-core's, and so is
accepting an invite (`Join`), which nothing in the repository calls.  Bots and
subscriptions that `deleteOrg` removes with the organisation are left out.

**AccountLedger** composes two components over **TenantLedger**, one ledger per
tenant (`ledger`: cents, fresh and archived entries, accounts) with the requests
under way (`req`).  **BulkGrant** is `bulkGrant` and `undoGrant`: one step per
credit, debit and record, each of which may fail.  **UndoableGrant** is what a
grant promises: given while it is under way, recorded, taken back from those
that were given, undone when all are.  BulkGrant implements it
(`GrantKeepsPromise`) under the mapping `Stage` of its rows and requests.
**AccountDeletion** has the procedures that file and cancel a request, the cron
(`sweep`) and the executor, whose `Plan` lists its statements in the order of the
code; the three statements of the archive are steps of their own because
postings may come in between.  `errors` are those of the run under way: they live
in the executor's result, of which `markCompleted` gets only the counts, and a run
that ends or is cut off forgets them (`ForgetErrors`).  `written` and `earlier` are
history: what was written to a tenant while a run for it went on, and what of
the customer and the objects, which are found through rows erased later, an
earlier run failed to erase.  `Crash` ends every request and the sweep.
`runDeletionCron` and `setAccountRouterDeps` have no caller in the repository;
the module says what they do once they are called, and claims nothing about
whether an expired request is ever settled.

**ServerProcess** is the process of `index.ts` (`server`: up, closing, down) and
composes all that lives in it.  `Crash`, `Shutdown`, `Close`, `ForceExit` and
`Restart` cut every part off, and each part's `...CutOff` says what stays.

- **ChatStreams**: `owner` and `stream` are the maps of `ChatStreamRegistry`,
  `message` what the backend works on.  Text and "done" are emitted without an
  await in between and are one step.
- **NodeConnections**: `registry` is the connection registry, `socket` the
  sockets with their upgrade, which awaits a secret's check.
- **SetupSessions**: `session` and `config` are the tables, `save` the saves
  between their check and their end.  The unique constraint is that of
  `drizzle/migrations/0000_init.sql:831`.
- **BotFleet**: `bot` is profile, container and key of a bot, `task` the
  requests, one step per await of creation, removal and tier change.  REST and
  tRPC forms of a request are one action where they make the same calls.
- **Payments**: `payment` is a purchase from its checkout to the webhook that is
  acknowledged, `penalty` the backoff of a sender.  **PaymentMethods**: `account`
  with cards, hold and balance, `call` the removals and top-up settings.
- **Backoffice** joins **RowChanges** (each procedure is a shape: awaited, passed
  on or left floating, and what it logs), **DaemonCalls** (`stored`, the row, and
  `daemon`; saves of setups, whose configuration is sent only if it has a field
  that is not secret, the push to a dependency of a saved plugin, and the rollback,
  which deletes a setup's row and leaves the daemon's copy; `latest` is history),
  **StaleChecks** (`rows` checked and later changed), **LogStream**
  (chunks in, lines out) and **SignUp**.
- **DailyJobs**: `due` is each job's timer, `covered` the days it was run for.
- **ServerLoad** is not code: `budget` bounds what an instance lets happen.

## Runs

| Run | Instance | Shows |
|---|---|---|
| `bot_plugins` | 2 handlers, 3 plugins sharing a capability, 2 of them a config variable, 1 known and 1 unknown capability, 3 requests, all kinds | types, consistent environments, refusals without a write, billing after the write, local serial writes |
| `bot_plugins_shared_key` | same, marketplace installs and uninstalls | uninstalling removes a key another plugin asked for (finding) |
| `bot_plugins_clobber` | same, 2 installs | two installs answered 200, one lost (finding) |
| `oauth_states` | 2 flows, 2 users, 2 redirects, 2 polls | a token reaches its owner, is not stored once answered, waits for its owner; a consumed state stays consumed |
| `oauth_token_once` | same | two overlapping polls get the same token (finding) |
| `tenant_status` | 2 tenants, 2 concurrent procedures, balance up to 2 | columns agree; only overlapping procedures lift a ban; a ban leaves nothing |
| `tenant_ban_permanent` | same, suspensions and bans | a suspension that read first overwrites a ban (finding) |
| `org_membership` | 3 users, 2 concurrent requests, any owner and members to start from | the owner administers, a deleted organisation is empty, one owner row, role changes come from administrators |
| `org_owner_role` | same | a role change overtaken by a transfer demotes the new owner (finding) |
| `account_ledger` | 2 tenants, 1 deletable, 2 concurrent requests, 2 faults or crashes | the refinement of the abstract grant; debited twice only after an undo went wrong; deletion loses only late entries, spares what was cancelled in time, and leaves only what it failed to erase or what was written meanwhile |
| `server_process` | see the loads below | fourteen properties, three of them liveness, of the parts, under crash, shutdown, forced exit and restart |
| `bot_tier_restored` | same | a bot restored after a failed tier change has not its former tier (finding) |

Bounds.  Every lost update, double read and stale write needs two requests, and
a third to observe or prepare it: two handlers that serve up to three requests
one after another give each of them.  Two plugins on one capability are the
smallest instance with a conflict and a shared key, a third, of the first one's
variable, the smallest in which a config is overwritten; an unknown capability is
needed for the refusal after a hosted choice has been resolved.  Two redirects
and two polls of possibly the same flow give each repetition; a second flow and
a second user are what a token could be misdirected to.  `MaxRequests`
(BotPlugins, TenantStatus, OrgMembership) and `MaxBalance` are the only numeric bounds; the
theorems hold without them.  Handlers, states, users, callbacks, polls and the two
ids of one variable are interchangeable, which is the symmetry the runs use.  A system whose requests
are used up stops, so deadlock is not checked.

`AccountLedger` and `ServerProcess` are bounded by loads: sets of budgets, one
of which an instance chooses at its start, so that the bound of each part does
not multiply with those of the others.  In `server_process` every part is run to
its own bounds, with a crash or shutdown where it keeps something across one:
three streams and two messages (two users, so that an owner may be replaced
while a message is processed); three sockets of one node; two setups with three
calls; one bot with its creation and two more calls; two payments and two faults of any
sender; two cards, three calls and two debts; two calls on rows; three daemon
calls; three checked calls with one disturbance, or two with two; three lines of
three pieces; two users signing up; four days with two restarts.  The last load
mixes streams, messages, sockets and a crash.  Nothing but the process itself is
shared between the parts, which is why they may be bounded apart.  A job that
runs daily and one that runs every other day stand for the daily and weekly
ones.  All procedures of RowChanges are taken to be wired, though `index.ts`
leaves the stores of rates, notes, roles, restores and the notification queue
out.  `account_ledger` has four calls about grants, three about deletions, or
one of each.  A fault or crash may happen anywhere; a second one, which it takes
to fail in a run and then cut it off, only where all calls are about grants, or
at most two and about deletions (`FewWithFaults`).

Properties on histories that restrict themselves to what the code can promise
(`SerialWriteIsLocal`, `OnlyOverlapsLiftBans`, the un-repeated redirect in
`TokenWaits`) are deliberate: the stronger statement of the comments is false,
and the violation runs show how.  In OrgMembership `faults` records whether an
overlapping request has written (`overlap`) and whether a request has stopped
between two of its writes (`torn`): `OwnerAdministers` holds in spite of `torn`,
because a transfer promotes first and demotes before it moves `ownerId`, and
`OneOwnerRow` needs both absent.  Three users are the owner, the user ownership
goes to and an actor besides them; starting from any owner and any members
stands for the requests that came before the two that may overlap.

Each property of a passing run has a mutant, an operator next to the one it
replaces, that breaks it.

## Fairness

BotPlugins, OAuthStates, TenantStatus, OrgMembership and AccountLedger are safety
only: their requests end with the database, and nothing in the repository calls
the cron of the deletions, though a comment has it "called on a timer".
ServerProcess assumes that

- the backend answers a message or fails (`chat/wopr-chat-backend.ts` has a
  catch for both, and sends "done" in either case);
- the cleanup of setups runs on its timer (`index.ts:1335`);
- a sender reports a payment until it is acknowledged, which is what payment
  processors do, a webhook under way is answered, and the backoff, a point in
  time, passes;
- a shutdown is forced after ten seconds (`index.ts:1456`) and the container is
  started again (`docker-compose.yml:95`, `restart: unless-stopped`).

Nothing is assumed of clients, tenants, administrators or of the order of
requests.  `StreamsEnd`, `FirstStaleSettles` and `PaymentsGetThrough` rest on
these.  `FirstStaleSettles` is about the first stale setup of a chat: the unique
constraint keeps a second one from ever being rolled back.

## Proofs

Eight modules prove theorems for every value of the constants; each `...Proofs`
module is about the specification of the module it is named after, BulkGrantProofs
and AccountDeletionProofs about that of AccountLedger.  They state every
property of the passing runs but the liveness properties.
The assumptions are those of the modules: the types of the constants, values
standing for "none" that are not members of the sets they are added to, and those
named below.

**BotPluginsProofs**: `TypeCorrect`, `EnvironmentsAgree`, `RefusalsWriteNothing`,
`BilledIsStored` and the action property `SerialWritesAreLocal`.  It assumes the
types of the constants only: any ids may share a config variable, and the theorems
say how far that reaches.  An installation beside an id of its variable takes that
id's config and the claims in it (`lost`), an uninstall the config of both
(`shared`), and all other configs and credentials stay as they should
(`WithPluginConsistent`, `WithoutPluginConsistent`).  `EnvConsistent` is not
inductive: a handler writes what it computed from a snapshot, and nothing in it
says that the snapshot was consistent, nor that a toggled or uninstalled plugin is in it.  `IndInv` adds
`ReadChecked` (a handler past its read holds a consistent environment that passed
the checks of its kind) and `WritesOnce` (a handler before its write has changed
nothing and billed nothing).  One lemma per environment operator shows that it
preserves consistency, `OutcomeConsistent` combines them, and one lemma per action
shows that `IndInv` is preserved.  So consistency survives lost updates: every
value ever written was computed from one that was consistent.

**OAuthStatesProofs**: `TokensReachTheirOwners`, `AnsweredTokensAreGone`,
`TokensWait`, and `ConsumedStays` for the action property.  The invariants speak of
answers, but an answer is given from a row read two statements before.  `IInv`
therefore follows the token: a stored one came from a callback of the row's own
flow and user (`RowsBelong`), a callback past its read holds the user that
initiated its state (`CallbackHolds`), and a poll past its read holds a completed
row of its own user (`PollHolds`), whatever has become of the table meanwhile.

**TenantStatusProofs**: `RowsAgree`, and the action properties
`BansAreLiftedByOverlaps` and `BansLeaveNothing`.  `IInv` adds what a procedure
knows on its way: it has a target, it goes on only for a tenant it has not read to
be banned (`SeenUnbanned`), and what the steps of a ban have taken stays taken
unless the tenant acts (`Cleared`), which holds because every other procedure takes
away too.  The account and the row are treated apart: a step either leaves the
one alone (`OthersUnmoved`, `NothingGiven`) or writes the other.

**OrgMembershipProofs**: `OwnersAdminister`, `DeletedAreEmpty`,
`OwnerRowsAreOwners`, and the action property `RolesAreChangedByAdministrators`.
`IInv` says which places a request of each kind passes (`Shape`), that what a
request has found out still holds unless another has written since (`Knows`), that
an organisation with members is administered by its owner (`Populated`), and whose
owner rows are (`OwnerRows`, which includes the second of the two rows while a
transfer is between its writes).  A team has one creation, before which nothing
else touches it (`BornOnce`).

**AccountLedgerProofs**: `TypeCorrect`, with `TInv` adding that ids under way are
issued and that what the sweep has selected was filed (without which the sweep's
target has no type).  The module holds the lemmas on how a step moves one
request, one ledger or the sweep that the next two modules build on.

**BulkGrantProofs**: `UndosDebitOnce` and the refinement
`GrantsKeepTheirPromise`.  `GInv`: a grant under way is alone with its id and
remembers whom it has credited (`GrantLocal`); an undo has debited whom it has
passed unless a debit failed (`UndoLocal`); a record names exactly those who were
credited (`RowOK`); and of a grant that is not unclean no undo is beside another
(`CleanOK`).  `UndoneOnce` alone is not inductive: the next debit of an undo may
find its tenant debited already.  The refinement maps initial states to initial
states, and each step, under `GInv`, to the abstract step that `Stage` names or to a
stutter: a credit, a debit and the two records are steps of the promise; a step of
the deletion, of another request or a failure changes neither `Stage` nor who was
given and taken.  Only a crash moves several grants at once, and only ends those
whose record is not stored.

**AccountDeletionProofs**, one invariant for each of its three theorems:
`CancelledInTimeAreKept` needs that a kept tenant has nothing pending (`KInv`), for
the sweep selects whatever is.  `OnlyLateOnesAreLost` needs that between the two
statements of the archive the entries without a copy are no more than those posted
late (`LInv`).  `OnlyFailuresStay`, an action property, needs for each place of
the sweep's plan that what the earlier statements should have erased is gone, among
the errors of this very run, written since, or without the rows that name it
because an earlier run failed on it (`CInv`).  That the last may be more than the
result says is among the observations below.  Trying to prove the first of them corrected
the model: `kept` used to be set although an earlier, cancelled request of the
same tenant was still selected by the sweep, which takes two requests of one
tenant beside a sweep and is beyond the bounds of the run.  A tenant is kept only
if the sweep has selected none of its requests when it cancels.

**ServerProcessProofs** proves every invariant of the process, and
`ChecksFailOnlyWhenOvertaken`, about the specification of the whole.  `PartSteps`,
`DeskSteps` and `JobSteps` say what a step of the process is for a part: a step of
its own, being cut off, or nothing.  Each part has an inductive invariant of its own,
and `TypesAreKept` takes the types of all variables from all of them.

- `ListenersOwnTheirSession`, `AnswersReachTheirAskers`: an owner is cleared only
  with its last stream, so a message that is processed without having been
  orphaned has its owner on record (`OwnerAwaitsAnswer`), and what was heard is
  answered (`HeardIsAnswered`).  `ChatAssumption` has that no user is called
  `NoOwner`.
- `ConnectedAreRegistered`: a node that has never connected over an older
  connection has one socket (`OneConnection`), so no late close removes another.
- `RolledBackAreUnconfigured`: a save still under way when its session is rolled
  back counts as overtaken from then on (`OvertakenSave`).
- `AcknowledgedAreHandled`: a payment is acknowledged a step after it is handled,
  and at different places by the two senders (`PaymentOK`): a Stripe payment that
  clears the penalty has been handled, a crypto payment was known at its checkout.
- `BotsAndKeysLast`: the two parts of the property are inductive only together
  with what a request knows of its bot (`TasksOK`: a bot in a request was made,
  one whose key is being revoked was removed by its user) and with the keys of bots that
  are absent for the length of a tier change (`KeyedHasKey`, `RemovedHasNoKey`, which
  are not restricted to bots that are there).  `SlotKeeps` reduces each step of a
  request to its effect on one bot and what it owes to it.
- `AwaitedCallsDoNotMislead`: `ShapesAreFine` reads off the table of procedures
  what each may do; a call that awaits its store says nothing before it knows
  (`CallMade`), and whoever was answered before a call was made is settled, or
  floats (`AfterSettled`), so changes apply in the order of the answers
  (`InOrder`).  `WiredAssumption`: the procedures that are wired are in the table.
- `ContainersAreInTouch`: a call to the daemon that nothing has overlapped
  forwards what was stored last (`AloneOK`), and the row is that or, deleted by a
  rollback, none (`ConfigsReachTheDaemon`).  For the lines of a log the module proves what
  division does (`DivisionIsUnique`, `DivisionGrows`, `DivisionOfSum`), the provers
  knowing only that it has a remainder; with it `LogInv` says what is held of the
  line that is not complete yet, and when that is spoilt.
- `LastCardsStay`: what a call has checked holds until it has seen a debt or a
  removal (`CardCallOK`); of the cards it must be that there is another one, not
  how many there are, for cards are added meanwhile.  `CardsAssumption`: there is a
  card, which an idle call names.
- `ChecksStayTrue`: likewise until the call is raced (`Undisturbed`), and each rule
  of the tables holds or its check is on record as overtaken.  For subscriptions
  that takes the sessions that are open as well (`UpgradeHolds`), and for snapshots
  that a set is no larger than the retention has left it (`LatestAreFew`, by the least
  element of what is kept).  `ChecksAssumption`: there are a lowest and a highest
  tier.
- `DaysAreCovered`: `DayIsCovered` is inductive once it speaks of the period of the
  next run while the process is up, and of all days before today while it is not:
  a process that ends leaves the day it ended on as the reason for its last
  period, and every day that it is not there is one (`JobsInv`).
  `VerifiedAreCredited` follows each user's two grants (`UserOK`).

What remains with TLC: all liveness (`StreamsEnd`, `FirstStaleSettles`,
`PaymentsGetThrough`), since neither fairness nor ENABLED is
within the prover's reach, and every violation.

## Findings

1. `bot-plugins.ts:460`: an uninstall deletes keys that remaining plugins need,
   contrary to the comment at line 447.
2. `bot-plugins.ts:218`: concurrent installs are clobbered in spite of the
   second read at line 101.
3. `drizzle-oauth-state-repository.ts:78`: the token can be returned twice.
4. `tenant-status-store.ts:62`: a ban can be overwritten by a suspension.
5. `org-service.ts:207`: a role change can be applied to a new owner.
6. `trpc/routers/fleet.ts:632`: a failed tier change restores the standard tier
   instead of the former one, because `index.ts:1060` wires no repository for it.

Further observations, stated in the properties rather than as findings:

- `cancelDeletion` does not look at the grace period; a repeated run of the
  executor after a crash fails on the archive's primary key and leaves entries;
  objects of a snapshot whose removal failed are orphaned.  Such a failure is neither
  logged, as `account/deletion-executor.ts:39` has it, nor stored: a run that is cut
  off once the snapshot rows are deleted is repeated without errors, and completes
  while the objects stay.  `OnlyFailuresAreLeft` admits exactly that (`earlier`).
- Plugin ids that differ in letter case share a config variable
  (`bot-plugins.ts:198`): with a hosted installation of one and another of the
  other, uninstalling both leaves the credential in the environment.
  `EnvConsistent` admits exactly that (`lost`).
- The owner of a chat session stays recorded after its streams ended with "done"
  or if it never opened one.  The late close of a node's old socket removes the
  newer one.
- A start that fails after a tier change's creation leads to a second creation;
  if that is refused the log says that the container is lost, though it exists.
- Only bots created through the REST route are registered with the billing.
- Stripe's webhook counts every error as a signature failure; the crypto webhook
  clears the penalty before it handles, and acknowledges whatever comes of it.
  REST removal of a payment method checks nothing; `updateAutoTopupSettings` may
  enable a schedule without a next time.
- Several procedures of `trpc/routers/admin.ts` answer or log before their store
  has done anything (rates, notes, roles, notifications), which makes the error
  branches of `notesUpdate` and `notesDelete` unreachable;
  `updateNotificationPreferences` reads beside its own update.
- A setup that is rolled back after a save leaves its configuration with the
  daemon, though the row is deleted.
- PUT of a plugin's configuration overwrites the encrypted fields of a setup
  with null.  An install that has succeeded answers 500 if the stored
  configuration cannot be read; so does a snapshot whose retention fails.
- A process that is restarted every day never runs the dividend and the
  reconciliation, one restarted every week never sends the digest.
- Chunks of a log are decoded one by one: a character across two is spoilt.  A
  container's stream that closes without an "end" leaves the client waiting.

## Plan

1. Every safety property of the passing runs is a theorem.  Left to prove are facts
   that no run states yet: that the parts of the back office promise more than the
   runs ask (what a restored snapshot is, what a daemon is told after a failure),
   and abstract specifications of chat and of the payments, with the refinements.
   Liveness and ENABLED stay with TLC, as does anything that needs induction over
   data.
2. What is left of the code is listed below.

## Not modelled

- `trpc/routers/promotions.ts` (`setPromotionsRouterDeps` is never called),
  `api/routes/bot-snapshots.ts` (`initBotSnapshotRoutes` is never called): they
  answer with an error in this deployment.
- `api/routes/onboarding.ts`, `tenant-proxy.ts`, `audit.ts`, `secrets.ts`,
  `fleet-resources.ts`: they authorise and forward to a service of platform-core
  or to a container.
- Analytics, exports, user lists, resource and health reads: queries.
- `fleet/services.ts`, `api/app.ts`, `trpc/index.ts`, `config`, `validate-env`:
  lazily built singletons, routing and configuration read once at start.
- Hourly jobs (credit expiry, trial balance), the runtime deduction, heartbeat
  and recovery of nodes: started here, carried out in platform-core.
- The seed of demo bots, model selection and page context: single calls into a
  store.  The two-factor mandate and plugin versions: their routers are never
  given their dependencies.

Formatting, validation of input shapes, authentication and ownership checks that
reject a request before it changes anything, logging, e-mail and the engines in
platform-core beyond what their callers rely on are left out throughout.
`PROJECT.json` lists every component with its status, and every hazard found
with the properties that cover it.
