------------------------------ MODULE StaleChecks ------------------------------
(***************************************************************************)
(* Procedures that check a condition and act upon it some awaits later:    *)
(* unlinking a login (trpc/routers/org.ts), the upgrade of a bot to a VPS  *)
(* (api/routes/fleet.ts, trpc/routers/fleet.ts), storage tiers             *)
(* (trpc/routers/fleet.ts), removal of a node (trpc/routers/nodes.ts) and  *)
(* snapshots (api/routes/snapshots.ts).                                    *)
(*                                                                         *)
(* One user, bot, node and instance, owned by the caller.  The tables,     *)
(* Stripe and the snapshot manager of platform-core are modelled from how  *)
(* the procedures use them; storage is counted in units of the smaller     *)
(* tier, and a tenant's tier in the snapshots that it keeps.  Abstracted:  *)
(* the payment method and the balance that an upgrade asks for.            *)
(***************************************************************************)
EXTENDS ServerLoad, FiniteSets, FiniteSetsExt

CONSTANTS
  Logins,       \* providers of logins
  Limits,       \* of storage, and of snapshots, by tier
  Shots,        \* bound: snapshots, numbered as they are made
  CheckSlots    \* slots of concurrent calls

ASSUME ChecksAssumption ==
  /\ Logins # {}
  /\ Limits \subseteq Nat \ {0}
  /\ \E least, most \in Limits : \A n \in Limits : least <= n /\ n <= most
  /\ Shots \subseteq Nat

VARIABLES
  rows,         \* what is checked and changed
  check,        \* calls under way
  overtaken     \* the checks that did not hold any more when they were acted
                \* upon, or that cannot tell (history)

checkVars == <<rows, check, overtaken>>

Checked == {"unlink", "upgrade", "storage", "node", "snapshot"}

Steps == {"idle", "unlink", "upgrade", "storage", "close", "node", "snapshot",
          "retention", "delete", "restore"}

\* `on`: the provider, limit or snapshot a call is about.  History: `raced`,
\* what it has checked was changed after it.
NoCheck == [at |-> "idle", on |-> 0, raced |-> FALSE]

ChecksInit ==
  /\ rows = [logins |-> Logins, offered |-> 0, paid |-> 0,
             storage |-> Min(Limits), used |-> 0, squeezed |-> FALSE,
             node |-> TRUE, connected |-> TRUE, placed |-> FALSE,
             keeps |-> Min(Limits), shots |-> {}, next |-> 1, home |-> 0]
  /\ check = [k \in CheckSlots |-> NoCheck]
  /\ overtaken = {}

ChecksTypeOK ==
  /\ rows \in [logins : SUBSET Logins, offered : Nat, paid : Nat,
               storage : Limits, used : 0..Max(Limits), squeezed : BOOLEAN,
               node : BOOLEAN, connected : BOOLEAN, placed : BOOLEAN,
               keeps : Limits, shots : SUBSET Shots, next : Nat,
               home : Shots \cup {0}]
  /\ check \in [CheckSlots -> [at : Steps, on : Logins \cup Nat, raced : BOOLEAN]]
  /\ overtaken \subseteq Checked

-----------------------------------------------------------------------------
Starts(k, at, on, raced) ==
  /\ check[k] = NoCheck
  /\ \A j \in CheckSlots : check[j] = NoCheck => k <= j
  /\ Begin("checkedCall")
  /\ check' = [check EXCEPT ![k] = [at |-> at, on |-> on, raced |-> raced]]

\* The call at step `at` is done, and calls at the steps `others` had checked
\* what it has changed.
Ends(k, others) ==
  check' = [j \in CheckSlots |->
    IF j = k THEN NoCheck
    ELSE [check[j] EXCEPT !.raced = @ \/ check[j].at \in others]]

\* Somebody else changes what calls at these steps have checked.
Disturbs(at) ==
  /\ Begin("change")
  /\ check' = [j \in CheckSlots |-> [check[j] EXCEPT !.raced = @ \/ check[j].at \in at]]

Overtakes(what, raced) == overtaken' = IF raced THEN overtaken \cup {what} ELSE overtaken

-----------------------------------------------------------------------------
(* disconnectOauthProvider.                                                *)

\* Mutant: off by one.
OthersLeftLate == Cardinality(rows.logins) >= 1

\* accounts.length <= 1 is refused.
OthersLeft == Cardinality(rows.logins) > 1

\* listAccounts: the provider is linked, and not the only one.
CheckUnlink(k) ==
  \E p \in rows.logins :
    /\ OthersLeft
    /\ Starts(k, "unlink", p, FALSE)
    /\ UNCHANGED <<rows, overtaken>>

\* unlinkAccount removes it, if it is still there.
Unlink(k) ==
  /\ check[k].at = "unlink"
  /\ rows' = [rows EXCEPT !.logins = @ \ {check[k].on}]
  /\ Overtakes("unlink", check[k].raced)
  /\ Ends(k, {"unlink"})

-----------------------------------------------------------------------------
(* upgradeToVps.                                                           *)

\* The bot has no active subscription; sessions of checkouts are not looked at.
CheckUpgrade(k) ==
  /\ rows.paid = 0
  /\ Starts(k, "upgrade", 0, FALSE)
  /\ UNCHANGED <<rows, overtaken>>

\* createVpsCheckoutSession; it may throw.
OfferUpgrade(k) ==
  /\ check[k].at = "upgrade"
  /\ \/ /\ rows' = [rows EXCEPT !.offered = @ + 1]
        /\ Overtakes("upgrade", check[k].raced \/ rows.offered > 0)
     \/ UNCHANGED <<rows, overtaken>>
  /\ Ends(k, {})

\* A session is paid for, and Stripe reports the subscription.
PayUpgrade ==
  /\ rows.offered > 0
  /\ Disturbs({"upgrade"})
  /\ rows' = [rows EXCEPT !.offered = @ - 1, !.paid = @ + 1]
  /\ UNCHANGED overtaken

\* A session expires.
ExpireUpgrade ==
  /\ rows.offered > 0
  /\ Disturbs({})
  /\ rows' = [rows EXCEPT !.offered = @ - 1]
  /\ UNCHANGED overtaken

-----------------------------------------------------------------------------
(* setStorageTier.                                                         *)

\* A downgrade asks for the usage, which nobody may know; it must fit.
CheckStorage(k) ==
  \E limit \in Limits, known \in BOOLEAN :
    /\ (limit < rows.storage /\ known) => rows.used <= limit
    /\ Starts(k, "storage", limit, limit < rows.storage /\ ~known)
    /\ UNCHANGED <<rows, overtaken>>

\* The tier is set, whatever it was set to in between.
SetStorage(k) ==
  LET limit == check[k].on
      shrinks == limit < rows.storage IN
  /\ check[k].at = "storage"
  /\ rows' = [rows EXCEPT !.storage = limit,
                          !.squeezed = @ \/ (shrinks /\ rows.used > limit)]
  /\ Overtakes("storage", check[k].raced)
  /\ Ends(k, IF limit > rows.storage THEN {"storage"} ELSE {})

\* The bot writes, or frees storage; nothing holds it to its tier.
UseStorage ==
  \E used \in 0..Max(Limits) :
    /\ used # rows.used
    /\ Disturbs(IF used > rows.used THEN {"storage"} ELSE {})
    /\ rows' = [rows EXCEPT !.used = used]
    /\ UNCHANGED overtaken

-----------------------------------------------------------------------------
(* nodes.remove.                                                           *)

\* listByNode finds no bot.
CheckNode(k) ==
  /\ rows.node
  /\ ~rows.placed
  /\ Starts(k, "close", 0, FALSE)
  /\ UNCHANGED <<rows, overtaken>>

\* registry.close, before anything is deleted.
CloseNode(k) ==
  /\ check[k].at = "close"
  /\ rows' = [rows EXCEPT !.connected = FALSE]
  /\ check' = [check EXCEPT ![k].at = "node"]
  /\ UNCHANGED overtaken

\* nodeRepo.delete; or it throws, and the node is left, disconnected.
DeleteNode(k) ==
  /\ check[k].at = "node"
  /\ \/ rows' = [rows EXCEPT !.node = FALSE] /\ Overtakes("node", check[k].raced)
     \/ UNCHANGED <<rows, overtaken>>
  /\ Ends(k, {})

\* A bot is placed on the node, whose row is there; or it is moved away.
PlaceBot ==
  /\ rows.node
  /\ Disturbs({"close", "node"})
  /\ rows' = [rows EXCEPT !.placed = ~@]
  /\ UNCHANGED overtaken

-----------------------------------------------------------------------------
(* Snapshots.                                                              *)

Creating == {"snapshot", "retention"}

\* POST /: the tenant's tier is read.
CheckSnapshot(k) ==
  /\ Starts(k, "snapshot", rows.keeps, FALSE)
  /\ UNCHANGED <<rows, overtaken>>

\* manager.create; or it throws.
CreateSnapshot(k) ==
  /\ check[k].at = "snapshot"
  /\ \/ /\ rows.next \in Shots
        /\ rows' = [rows EXCEPT !.shots = @ \cup {rows.next}, !.next = @ + 1]
        /\ check' = [check EXCEPT ![k].at = "retention"]
     \/ UNCHANGED rows /\ Ends(k, {})
  /\ UNCHANGED overtaken

\* What is kept: the latest.
Latest(n) ==
  {s \in rows.shots : Cardinality({t \in rows.shots : t > s}) < n}

\* enforceRetention: the oldest go; or it throws, and the answer is 500.
Retain(k) ==
  /\ check[k].at = "retention"
  /\ \/ /\ rows' = [rows EXCEPT !.shots = Latest(check[k].on)]
        /\ overtaken' = IF check[k].raced THEN overtaken \cup {"snapshot"}
                        ELSE overtaken \ {"snapshot"}
     \/ UNCHANGED rows /\ Overtakes("snapshot", TRUE)
  /\ Ends(k, {})

\* DELETE /:sid: the snapshot is found,
CheckDelete(k) ==
  \E s \in rows.shots :
    /\ Starts(k, "delete", s, FALSE)
    /\ UNCHANGED <<rows, overtaken>>

\* and deleted, unless it is gone (404).
DeleteSnapshot(k) ==
  /\ check[k].at = "delete"
  /\ rows' = [rows EXCEPT !.shots = @ \ {check[k].on}]
  /\ Ends(k, {})
  /\ UNCHANGED overtaken

\* POST /:sid/restore: the snapshot is found,
CheckRestore(k) ==
  \E s \in rows.shots :
    /\ Starts(k, "restore", s, FALSE)
    /\ UNCHANGED <<rows, overtaken>>

\* and restored, unless it is gone (404) or that fails (500).
RestoreSnapshot(k) ==
  /\ check[k].at = "restore"
  /\ \/ check[k].on \in rows.shots /\ rows' = [rows EXCEPT !.home = check[k].on]
     \/ UNCHANGED rows
  /\ Ends(k, {})
  /\ UNCHANGED overtaken

\* The tenant's tier changes; what is kept already is left alone.
ChangeTier ==
  \E n \in Limits :
    /\ n # rows.keeps
    /\ Disturbs(Creating)
    /\ rows' = [rows EXCEPT !.keeps = n]
    /\ overtaken' = overtaken \cup {"snapshot"}

-----------------------------------------------------------------------------
ChecksRequests ==
  \/ \E k \in CheckSlots : \/ CheckUnlink(k) \/ CheckUpgrade(k) \/ CheckStorage(k)
                           \/ CheckNode(k) \/ CheckSnapshot(k) \/ CheckDelete(k)
                           \/ CheckRestore(k)
  \/ PayUpgrade
  \/ ExpireUpgrade
  \/ UseStorage
  \/ PlaceBot
  \/ ChangeTier

ChecksEvents ==
  /\ \E k \in CheckSlots : \/ Unlink(k) \/ OfferUpgrade(k) \/ SetStorage(k)
                           \/ CloseNode(k) \/ DeleteNode(k) \/ CreateSnapshot(k)
                           \/ Retain(k) \/ DeleteSnapshot(k) \/ RestoreSnapshot(k)
  /\ UNCHANGED budget

\* What is left when the process ends: the tables; a retention cut off is one
\* that has failed.
ChecksCutOff ==
  /\ overtaken' = IF \E k \in CheckSlots : check[k].at = "retention"
                  THEN overtaken \cup {"snapshot"} ELSE overtaken
  /\ check' = [k \in CheckSlots |-> NoCheck]
  /\ UNCHANGED rows

-----------------------------------------------------------------------------
(* Properties.                                                             *)

\* Nobody is locked out of an account (only two unlinks that overlap can do
\* that); no bot is paid for twice (only if two sessions of its were open, or
\* one was paid while the next was made); no downgrade squeezes what the bot
\* holds (only if it grew, the tier was raised, or the usage was unknown); no
\* node is deleted under a bot that is placed on it (only if it was placed
\* during the removal); and no more snapshots stay than the tier keeps (only
\* if a retention failed, or the tier has changed).
ChecksHold ==
  /\ rows.logins = {} => "unlink" \in overtaken
  /\ rows.paid > 1 => "upgrade" \in overtaken
  /\ rows.squeezed => "storage" \in overtaken
  /\ (rows.placed /\ ~rows.node) => "node" \in overtaken
  /\ (Cardinality(rows.shots) > rows.keeps /\ \A k \in CheckSlots : check[k].at \notin Creating)
       => "snapshot" \in overtaken
=============================================================================
