----------------------------- MODULE TenantStatus -----------------------------
(***************************************************************************)
(* Account status of tenants: the status table                             *)
(* (admin/tenant-status/tenant-status-store.ts), the admin procedures that *)
(* suspend, reactivate and ban (trpc/routers/admin.ts), their bulk forms   *)
(* (admin/bulk/bulk-operations-store.ts) and the sweep of expired grace    *)
(* periods.                                                                *)
(*                                                                         *)
(* Every procedure reads the status, decides, and later writes it          *)
(* unconditionally; a ban suspends the bots, refunds the balance, disables *)
(* auto-topup and detaches the cards, each in a call of its own, before it *)
(* writes "banned".  Any call may throw, which ends a single-tenant        *)
(* procedure where it stands; a bulk one notes the error and goes on.  A   *)
(* process that dies ends its procedures the same way.                     *)
(*                                                                         *)
(* Abstracted: the reason, actor and audit columns; ensureExists with the  *)
(* UPDATE after it is one step, for the row it inserts says what a missing *)
(* row says.                                                               *)
(***************************************************************************)
EXTENDS Naturals, FiniteSets

CONSTANTS
  Tenants,
  Spenders,     \* tenants that use their account in this instance
  Handlers,     \* concurrent procedures
  NoTenant,
  Kinds,        \* procedures of this instance
  MaxBalance,   \* bound: cents a tenant holds
  MaxRequests   \* bound: procedures started

SingleKinds == {"suspend", "reactivate", "ban"}
BulkKinds == {"bulkSuspend", "bulkReactivate"}

ASSUME TypeAssumption ==
  /\ NoTenant \notin Tenants
  /\ Spenders \subseteq Tenants
  /\ Kinds \subseteq SingleKinds \cup BulkKinds \cup {"expire", "grace"}
  /\ MaxBalance \in Nat
  /\ MaxRequests \in Nat

Statuses == {"active", "grace_period", "suspended", "banned"}

\* A row of tenant_status: `deadline` is graceDeadline, null, ahead or past;
\* `erase` is whether dataDeleteAfter is set.
StatusRow == [status : Statuses, deadline : {"none", "ahead", "past"},
              erase : BOOLEAN]

\* getStatus defaults to active: a missing row reads like this one.
ActiveRow == [status |-> "active", deadline |-> "none", erase |-> FALSE]

VARIABLES
  row,        \* tenant_status
  bots,       \* has the tenant a bot that is not suspended
  balance,    \* ledger balance
  topup,      \* is an auto-topup of the tenant enabled
  cards,      \* has the tenant a payment method attached
  pc, kind,   \* where a procedure is, and which one it is
  todo,       \* the tenants it has still to handle
  at,         \* the tenant it is handling
  seen,       \* the status it has read
  refund,     \* the balance a ban has read
  disturbed,  \* has the tenant acted since the status was read (history)
  started     \* procedures started

account == <<bots, balance, topup, cards>>
locals == <<kind, todo, at, seen, refund, disturbed>>
vars == <<row, account, pc, locals, started>>

PCs == {"idle", "check", "write", "bots", "balance", "debit", "topup", "cards",
        "ban", "select"}

-----------------------------------------------------------------------------
(* The store's statements: the row each leaves.                            *)

\* Mutant: the grace deadline survives a suspension.
SuspendedKeepingDeadline(r) == [r EXCEPT !.status = "suspended"]

Suspended(r) == [r EXCEPT !.status = "suspended", !.deadline = "none"]

Reactivated(r) == [r EXCEPT !.status = "active", !.deadline = "none"]

Banned(r) ==
  [r EXCEPT !.status = "banned", !.deadline = "none", !.erase = TRUE]

InGrace(r) == [r EXCEPT !.status = "grace_period", !.deadline = "ahead"]

-----------------------------------------------------------------------------
Init ==
  /\ row = [t \in Tenants |-> ActiveRow]
  /\ bots = [t \in Tenants |-> t \in Spenders]
  /\ balance = [t \in Tenants |-> 0]
  /\ topup = [t \in Tenants |-> FALSE]
  /\ cards = [t \in Tenants |-> FALSE]
  /\ pc = [h \in Handlers |-> "idle"]
  /\ kind = [h \in Handlers |-> "suspend"]
  /\ todo = [h \in Handlers |-> {}]
  /\ at = [h \in Handlers |-> NoTenant]
  /\ seen = [h \in Handlers |-> "active"]
  /\ refund = [h \in Handlers |-> 0]
  /\ disturbed = [h \in Handlers |-> FALSE]
  /\ started = 0

\* The procedure answers or throws; its locals are gone.
Done(h) ==
  /\ pc' = [pc EXCEPT ![h] = "idle"]
  /\ kind' = [kind EXCEPT ![h] = "suspend"]
  /\ todo' = [todo EXCEPT ![h] = {}]
  /\ at' = [at EXCEPT ![h] = NoTenant]
  /\ seen' = [seen EXCEPT ![h] = "active"]
  /\ refund' = [refund EXCEPT ![h] = 0]
  /\ disturbed' = [disturbed EXCEPT ![h] = FALSE]

Goto(h, l) ==
  /\ pc' = [pc EXCEPT ![h] = l]
  /\ UNCHANGED locals

\* A loop over tenants is through with t: the next one, or the answer.
NextTenant(h, t, l) ==
  IF todo[h] = {t} THEN Done(h)
  ELSE /\ pc' = [pc EXCEPT ![h] = l]
       /\ todo' = [todo EXCEPT ![h] = @ \ {t}]
       /\ at' = [at EXCEPT ![h] = NoTenant]
       /\ seen' = [seen EXCEPT ![h] = "active"]
       /\ UNCHANGED <<kind, refund, disturbed>>

\* suspendTenant, reactivateTenant, banTenant, bulkSuspend, bulkReactivate,
\* expireGracePeriods.
Begin(h) ==
  /\ pc[h] = "idle"
  /\ started < MaxRequests
  /\ started' = started + 1
  /\ \E k \in Kinds \ {"grace"}, ts \in SUBSET Tenants :
       /\ k \in SingleKinds => Cardinality(ts) = 1
       /\ k \in BulkKinds => ts # {}
       /\ k = "expire" => ts = {}
       /\ kind' = [kind EXCEPT ![h] = k]
       /\ todo' = [todo EXCEPT ![h] = ts]
       /\ pc' = [pc EXCEPT ![h] = IF k = "expire" THEN "select" ELSE "check"]
  /\ UNCHANGED <<row, account, at, seen, refund, disturbed>>

\* Mutant: the bulk reactivation only skips active tenants.
RefusedUnlessBulk(k) ==
  CASE k \in {"suspend", "bulkSuspend"}       -> {"banned", "suspended"}
    [] k = "reactivate"                       -> {"banned", "active"}
    [] k = "bulkReactivate"                   -> {"active"}
    [] OTHER                                  -> {"banned"}

\* The statuses a procedure refuses.
Refused(k) ==
  CASE k \in {"suspend", "bulkSuspend"}       -> {"banned", "suspended"}
    [] k \in {"reactivate", "bulkReactivate"} -> {"banned", "active"}
    [] OTHER                                  -> {"banned"}

\* getStatus, and the refusal.
Check(h) ==
  /\ pc[h] = "check"
  /\ \E t \in todo[h] :
       IF row[t].status \in Refused(kind[h])
       THEN NextTenant(h, t, "check")
       ELSE /\ at' = [at EXCEPT ![h] = t]
            /\ seen' = [seen EXCEPT ![h] = row[t].status]
            /\ disturbed' = [disturbed EXCEPT ![h] = FALSE]
            /\ pc' = [pc EXCEPT ![h] =
                 IF kind[h] = "ban" THEN "bots" ELSE "write"]
            /\ UNCHANGED <<kind, todo, refund>>
  /\ UNCHANGED <<row, account, started>>

\* store.suspend or store.reactivate.  suspendTenant goes on to the bots; the
\* bulk forms and a reactivation do not touch them.
WriteStatus(h) ==
  /\ pc[h] = "write"
  /\ kind[h] # "expire"
  /\ row' = [row EXCEPT ![at[h]] =
       IF kind[h] \in {"suspend", "bulkSuspend"}
       THEN Suspended(@) ELSE Reactivated(@)]
  /\ IF kind[h] = "suspend" THEN Goto(h, "bots")
     ELSE NextTenant(h, at[h], "check")
  /\ UNCHANGED <<account, started>>

\* BotBilling.suspendAllForTenant.
SuspendBots(h) ==
  /\ pc[h] = "bots"
  /\ bots' = [bots EXCEPT ![at[h]] = FALSE]
  /\ IF kind[h] = "suspend" THEN Done(h) ELSE Goto(h, "balance")
  /\ UNCHANGED <<row, balance, topup, cards, started>>

\* banTenant reads the balance; nothing is refunded from an empty one.
ReadBalance(h) ==
  /\ pc[h] = "balance"
  /\ refund' = [refund EXCEPT ![h] = balance[at[h]]]
  /\ pc' = [pc EXCEPT ![h] = IF balance[at[h]] > 0 THEN "debit" ELSE "topup"]
  /\ UNCHANGED <<row, account, kind, todo, at, seen, disturbed, started>>

\* Mutant: one cent is left.
RefundShort(h) ==
  /\ pc[h] = "debit"
  /\ refund[h] <= balance[at[h]]
  /\ balance' = [balance EXCEPT ![at[h]] = @ - (refund[h] - 1)]
  /\ Goto(h, "topup")
  /\ UNCHANGED <<row, bots, topup, cards, started>>

\* Mutant: the debit may leave a negative balance.
RefundUnchecked(h) ==
  /\ pc[h] = "debit"
  /\ balance' = [balance EXCEPT ![at[h]] = @ - refund[h]]
  /\ Goto(h, "topup")
  /\ UNCHANGED <<row, bots, topup, cards, started>>

\* The whole balance that was read is debited; the ledger refuses more than
\* there is (see Throw).
Refund(h) ==
  /\ pc[h] = "debit"
  /\ refund[h] <= balance[at[h]]
  /\ balance' = [balance EXCEPT ![at[h]] = @ - refund[h]]
  /\ Goto(h, "topup")
  /\ UNCHANGED <<row, bots, topup, cards, started>>

DisableTopup(h) ==
  /\ pc[h] = "topup"
  /\ topup' = [topup EXCEPT ![at[h]] = FALSE]
  /\ Goto(h, "cards")
  /\ UNCHANGED <<row, bots, balance, cards, started>>

DetachCards(h) ==
  /\ pc[h] = "cards"
  /\ cards' = [cards EXCEPT ![at[h]] = FALSE]
  /\ Goto(h, "ban")
  /\ UNCHANGED <<row, bots, balance, topup, started>>

\* store.ban.
Ban(h) ==
  /\ pc[h] = "ban"
  /\ row' = [row EXCEPT ![at[h]] = Banned(@)]
  /\ Done(h)
  /\ UNCHANGED <<account, started>>

\* Tenants the sweep finds.
Due ==
  {t \in Tenants : row[t].status = "grace_period" /\ row[t].deadline = "past"}

\* expireGracePeriods: the SELECT, then one UPDATE per tenant it has found.
SelectExpired(h) ==
  /\ pc[h] = "select"
  /\ IF Due = {} THEN Done(h)
     ELSE /\ todo' = [todo EXCEPT ![h] = Due]
          /\ pc' = [pc EXCEPT ![h] = "write"]
          /\ UNCHANGED <<kind, at, seen, refund, disturbed>>
  /\ UNCHANGED <<row, account, started>>

SuspendExpired(h) ==
  /\ pc[h] = "write"
  /\ kind[h] = "expire"
  /\ \E t \in todo[h] :
       /\ row' = [row EXCEPT ![t] = Suspended(@)]
       /\ NextTenant(h, t, "write")
  /\ UNCHANGED <<account, started>>

\* A call throws, or the process dies.  In the bulk forms a tenant's error is
\* noted and the loop goes on.
Throw(h) ==
  /\ pc[h] # "idle"
  /\ \/ Done(h)
     \/ kind[h] \in BulkKinds /\ \E t \in todo[h] :
          /\ at[h] \in {t, NoTenant}
          /\ NextTenant(h, t, "check")
  /\ UNCHANGED <<row, account, started>>

\* setGracePeriod, whatever the status is.
SetGracePeriod(t) ==
  /\ "grace" \in Kinds
  /\ row' = [row EXCEPT ![t] = InGrace(@)]
  /\ UNCHANGED <<account, pc, locals, started>>

GraceRunsOut(t) ==
  /\ row[t].deadline = "ahead"
  /\ row' = [row EXCEPT ![t].deadline = "past"]
  /\ UNCHANGED <<account, pc, locals, started>>

\* A tenant launches a bot, earns or spends credits, enables auto-topup or
\* attaches a card: none of these paths looks at the status.
TenantActs(t) ==
  /\ \/ bots' = [bots EXCEPT ![t] = TRUE] /\ UNCHANGED <<balance, topup, cards>>
     \/ /\ \E b \in 0..MaxBalance : balance' = [balance EXCEPT ![t] = b]
        /\ UNCHANGED <<bots, topup, cards>>
     \/ topup' = [topup EXCEPT ![t] = TRUE] /\ UNCHANGED <<bots, balance, cards>>
     \/ cards' = [cards EXCEPT ![t] = TRUE] /\ UNCHANGED <<bots, balance, topup>>
  /\ disturbed' = [h \in Handlers |-> disturbed[h] \/ at[h] = t]
  /\ UNCHANGED <<row, pc, kind, todo, at, seen, refund, started>>

Procedure(h) ==
  \/ Begin(h)
  \/ Check(h)
  \/ WriteStatus(h)
  \/ SuspendBots(h)
  \/ ReadBalance(h)
  \/ Refund(h)
  \/ DisableTopup(h)
  \/ DetachCards(h)
  \/ Ban(h)
  \/ SelectExpired(h)
  \/ SuspendExpired(h)
  \/ Throw(h)

Next ==
  \/ \E h \in Handlers : Procedure(h)
  \/ \E t \in Tenants : SetGracePeriod(t) \/ GraceRunsOut(t)
  \/ \E t \in Spenders : TenantActs(t)

Spec == Init /\ [][Next]_vars

-----------------------------------------------------------------------------
(* Properties.                                                             *)

\* Every variable keeps its type.
TypeOK ==
  /\ row \in [Tenants -> StatusRow]
  /\ bots \in [Tenants -> BOOLEAN]
  /\ balance \in [Tenants -> Nat]
  /\ topup \in [Tenants -> BOOLEAN]
  /\ cards \in [Tenants -> BOOLEAN]
  /\ pc \in [Handlers -> PCs]
  /\ kind \in [Handlers -> SingleKinds \cup BulkKinds \cup {"expire"}]
  /\ todo \in [Handlers -> SUBSET Tenants]
  /\ at \in [Handlers -> Tenants \cup {NoTenant}]
  /\ seen \in [Handlers -> Statuses]
  /\ refund \in [Handlers -> Nat]
  /\ disturbed \in [Handlers -> BOOLEAN]
  /\ started \in Nat

\* However the writers of a row interleave, its columns agree: there is a
\* grace deadline exactly while the tenant is in its grace period, and a
\* banned tenant's data has a deletion date.
RowAgrees ==
  \A t \in Tenants :
    /\ row[t].deadline = "none" <=> row[t].status # "grace_period"
    /\ row[t].status = "banned" => row[t].erase

\* A ban is lifted only by a procedure that overlaps it, having read the
\* status or selected the tenant before, or by a new grace period: no
\* procedure that starts afterwards lifts it.
OnlyOverlapsLiftBans ==
  [][\A t \in Tenants :
       (row[t].status = "banned" /\ row'[t].status # "banned") =>
         \/ row'[t].status = "grace_period"
         \/ \E h \in Handlers :
              /\ pc[h] = "write"
              /\ \/ at[h] = t /\ seen[h] # "banned"
                 \/ kind[h] = "expire" /\ t \in todo[h]]_vars

\* A tenant that did nothing while it was being banned is left with no
\* running bot, no credits, no auto-topup and no card, also when other
\* procedures run beside the ban or earlier attempts to ban it have failed.
BanLeavesNothing ==
  [][\A h \in Handlers :
       LET t == at[h]
       IN (pc[h] = "ban" /\ pc'[h] # "ban" /\ row' # row /\ ~disturbed[h]) =>
            /\ row'[t].status = "banned"
            /\ ~bots[t]
            /\ balance[t] = 0
            /\ ~topup[t]
            /\ ~cards[t]]_vars

\* "Ban a tenant account permanently." (tenant-status-store.ts): nothing
\* takes a banned tenant to another status.
BanIsPermanent ==
  [][\A t \in Tenants :
       row[t].status = "banned" => row'[t].status = "banned"]_vars
=============================================================================
