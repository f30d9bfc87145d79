--------------------------- MODULE AccountDeletion ---------------------------
(***************************************************************************)
(* Deletion of accounts: the requests (account/deletion-store.ts), the     *)
(* procedures that file and cancel them (trpc/routers/account.ts for the   *)
(* tenant, trpc/routers/admin.ts for administrators), the sweep of expired *)
(* ones (account/deletion-cron.ts), the executor that erases a tenant      *)
(* (account/deletion-executor.ts) and the archive of its journal           *)
(* (account/ledger-deletion-repository.ts).                                *)
(*                                                                         *)
(* The executor goes through the tenant's tables in a fixed order.  A      *)
(* table that fails is noted in the result's errors and skipped; only the  *)
(* list of snapshot objects is read outside that net, and its failure ends *)
(* the run, whose request stays pending for the next sweep.  The errors    *)
(* are in memory: of a completed run the store gets the counts alone, of   *)
(* one that was cut short nothing.                                         *)
(*                                                                         *)
(* Abstracted: the tables erased by one independent statement each (bots,  *)
(* legacy credits, metering, notifications, audit, notes, backups,         *)
(* charges, status, roles, sign-in) are one, "records", and the statement  *)
(* for it stands early, as the first of them does; the suspension that     *)
(* filing calls for and the reactivation that cancelling calls for write   *)
(* the status row, one of the records.  The snapshot objects are one.      *)
(***************************************************************************)
EXTENDS TenantLedger, Sequences

CONSTANTS
  Deletable     \* tenants that may be deleted in this instance

ASSUME DeletionAssumption ==
  /\ Tenants # {}
  /\ Deletable \subseteq Tenants

\* What there is of a tenant outside the ledger: "customer" is the payment
\* processor's, "mapping" the row that leads to it, "objects" are the stored
\* snapshots, "snapshots" the rows that name them.
Kinds == {"customer", "records", "objects", "snapshots", "mapping"}

\* What a run finds through the rows that name it, and not without them.
Named == {"customer", "objects"}

VARIABLES
  rows,         \* what is left of a tenant outside the ledger
  deletion,     \* account_deletion_requests
  sweep,        \* the run of the cron
  errors,       \* result.errors of the run under way
  written,      \* what was written to a tenant's rows while the run for it
                \* went on, and of Named while any did (history)
  earlier,      \* what of Named an earlier run failed to erase (history)
  kept          \* tenants whose only request was cancelled in time (history)

noteVars == <<errors, written, earlier>>

deletionVars == <<rows, deletion, sweep, noteVars, kept>>

Statuses == {"none", "pending", "cancelled", "completed"}

\* Mutant: the snapshot rows go before they have named the objects.
PlanRowsFirst == <<"customer", "records", "balances", "insert", "lines",
  "entries", "accounts", "snapshots", "list", "objects", "mapping", "complete">>

\* The steps of a run, in the order of executeDeletion; "insert", "lines" and
\* "entries" are archiveJournalEntries.
Plan == <<"customer", "records", "balances", "insert", "lines", "entries",
          "accounts", "list", "objects", "snapshots", "mapping", "complete">>

Parts == {Plan[i] : i \in DOMAIN Plan}

\* `at` is 0 between runs; `found` says that the list has named the objects.
NoSweep == [queue |-> {}, id |-> NoId, at |-> 0, found |-> FALSE]

Pending(t) ==
  {r \in Ids : deletion[r].tenant = t /\ deletion[r].status = "pending"}

\* A run of the executor for t is under way.
Erasing(t) == sweep.at > 0 /\ deletion[sweep.id].tenant = t

\* A run for t is under way, or the sweep has one before it.
Selected(t) == Erasing(t) \/ \E r \in sweep.queue : deletion[r].tenant = t

DeletionInit ==
  /\ rows = [t \in Tenants |-> Kinds]
  /\ deletion = [r \in Ids |->
       [tenant |-> CHOOSE t \in Tenants : TRUE, status |-> "none", due |-> FALSE]]
  /\ sweep = NoSweep
  /\ errors = {}
  /\ written = [t \in Tenants |-> {}]
  /\ earlier = [t \in Tenants |-> {}]
  /\ kept = {}

DeletionTypeOK ==
  /\ rows \in [Tenants -> SUBSET Kinds]
  /\ deletion \in [Ids -> [tenant : Tenants, status : Statuses, due : BOOLEAN]]
  /\ sweep \in [queue : SUBSET Ids, id : Ids \cup {NoId}, at : 0..Len(Plan),
                found : BOOLEAN]
  /\ errors \subseteq Parts
  /\ written \in [Tenants -> SUBSET Kinds]
  /\ earlier \in [Tenants -> SUBSET Named]
  /\ kept \subseteq Tenants

-----------------------------------------------------------------------------
(* Filing and cancelling.                                                  *)

Write(t, ks) ==
  /\ rows' = [rows EXCEPT ![t] = @ \cup ks]
  /\ written' = [written EXCEPT ![t] = IF Erasing(t) THEN @ \cup ks ELSE @]
  /\ UNCHANGED <<errors, earlier>>

\* requestDeletion by the tenant, complianceTriggerDeletion by an
\* administrator: no request of the tenant is pending.
BeginRequest(h) ==
  \E t \in Deletable, u \in BOOLEAN :
    /\ Pending(t) = {}
    /\ Begin("deletion", h, [Idle EXCEPT !.at = "create", !.todo = {t}, !.user = u])
    /\ UNCHANGED <<ledger, faults, deletionVars>>

\* The password does not match, or a call throws before anything is stored.
Refuse(h) ==
  /\ req[h].at \in {"create", "cancel"}
  /\ Answer(h)
  /\ UNCHANGED <<ledger, faults, deletionVars>>

\* store.create; the tenant's own request suspends the tenant at once.
Create(h) ==
  /\ req[h].at = "create"
  /\ \E r \in Fresh({i \in Ids : deletion[i].status # "none"}),
        t \in req[h].todo :
       /\ deletion' = [deletion EXCEPT ![r] =
            [tenant |-> t, status |-> "pending", due |-> FALSE]]
       /\ kept' = kept \ {t}
       /\ Write(t, IF req[h].user THEN {"records"} ELSE {})
  /\ Answer(h)
  /\ UNCHANGED <<ledger, faults, sweep>>

\* cancelDeletion, complianceCancelDeletion: the request is still pending,
\* and nobody asks whether its grace period is over.
BeginCancel(h) ==
  \E r \in Ids, u \in BOOLEAN :
    /\ deletion[r].status = "pending"
    /\ Begin("deletion", h, [Idle EXCEPT !.at = "cancel", !.id = r,
                   !.todo = {deletion[r].tenant}, !.user = u])
    /\ UNCHANGED <<ledger, faults, deletionVars>>

\* store.cancel, which leaves a request that is not pending alone; the
\* tenant's own cancellation reactivates the tenant in any case.
Cancel(h) ==
  LET r == req[h].id
      t == deletion[r].tenant IN
  /\ req[h].at = "cancel"
  /\ IF deletion[r].status = "pending"
     THEN /\ deletion' = [deletion EXCEPT ![r].status = "cancelled"]
          /\ kept' = IF Pending(t) = {r} /\ ~Selected(t)
                     THEN kept \cup {t} ELSE kept
     ELSE UNCHANGED <<deletion, kept>>
  /\ Write(t, IF req[h].user THEN {"records"} ELSE {})
  /\ Answer(h)
  /\ UNCHANGED <<ledger, faults, sweep>>

\* Thirty days are over.
GraceEnds(r) ==
  /\ deletion[r].status = "pending"
  /\ ~deletion[r].due
  /\ deletion' = [deletion EXCEPT ![r].due = TRUE]
  /\ UNCHANGED <<baseVars, rows, sweep, noteVars, kept>>

\* Somebody still signed in creates a bot, uses it or takes a snapshot.
TenantActs(t) ==
  /\ Erasing(t)
  /\ \E ks \in {{"records"}, {"objects", "snapshots"}} :
       /\ ~ks \subseteq rows[t]
       /\ Write(t, ks)
  /\ UNCHANGED <<baseVars, deletion, sweep, kept>>

-----------------------------------------------------------------------------
(* The sweep.                                                              *)

\* Mutant: requests are selected whatever has become of them.
DueWhatever(r) == deletion[r].due /\ deletion[r].status # "completed"

Due(r) == deletion[r].due /\ deletion[r].status = "pending"

\* findExpired.
FindExpired ==
  /\ sweep = NoSweep
  /\ \E r \in Ids : Due(r)
  /\ sweep' = [sweep EXCEPT !.queue = {r \in Ids : Due(r)}]
  /\ UNCHANGED <<baseVars, rows, deletion, noteVars, kept>>

\* The next request of the selection, whatever has become of it.
NextRun ==
  /\ sweep.at = 0
  /\ \E r \in sweep.queue :
       LET t == deletion[r].tenant IN
       /\ sweep' = [queue |-> sweep.queue \ {r}, id |-> r, at |-> 1,
                    found |-> FALSE]
       /\ ledger' = [ledger EXCEPT ![t].touched = FALSE]
       /\ written' = [written EXCEPT ![t] = @ \cap Named]
  /\ UNCHANGED <<req, started, faults, rows, deletion, errors, earlier, kept>>

Step == IF sweep.at = 0 THEN "none" ELSE Plan[sweep.at]

Target == deletion[sweep.id].tenant

Advance == sweep' = [sweep EXCEPT !.at = @ + 1]

\* A run is over or cut short, and its errors with it.
ForgetErrors ==
  /\ errors' = {}
  /\ earlier' = [earlier EXCEPT ![Target] = @ \cup (errors \cap Named)]
  /\ UNCHANGED written

\* The sweep goes on with the next request.
EndRun ==
  /\ sweep' = [sweep EXCEPT !.id = NoId, !.at = 0, !.found = FALSE]
  /\ ForgetErrors

\* result.errors.push.
Note(part) ==
  /\ errors' = errors \cup {part}
  /\ UNCHANGED <<written, earlier>>

ledgerOnly == <<req, started, rows, deletion, kept>>
rowsOnly == <<ledger, req, started, deletion, kept>>

Erase(kind) ==
  /\ rows' = [rows EXCEPT ![Target] = @ \ {kind}]
  /\ Advance
  /\ UNCHANGED <<rowsOnly, noteVars, faults>>

\* A table that one statement erases.
EraseTable ==
  /\ Step \in {"records", "snapshots", "mapping"}
  /\ Erase(Step)

\* The processor's customer is found through the mapping.
EraseCustomer ==
  /\ Step = "customer"
  /\ IF "mapping" \in rows[Target] THEN Erase("customer")
     ELSE Advance /\ UNCHANGED <<rowsOnly, rows, noteVars, faults>>

\* listSnapshotS3Keys reads the snapshot rows.
ListObjects ==
  /\ Step = "list"
  /\ sweep' = [sweep EXCEPT !.at = @ + 1, !.found = "snapshots" \in rows[Target]]
  /\ UNCHANGED <<rowsOnly, rows, noteVars, faults>>

\* It throws: so does the executor, and the cron goes on to the next request.
ListThrows ==
  /\ Step = "list"
  /\ Fault
  /\ EndRun
  /\ UNCHANGED <<rowsOnly, rows>>

EraseObjects ==
  /\ Step = "objects"
  /\ IF sweep.found THEN Erase("objects")
     ELSE Advance /\ UNCHANGED <<rowsOnly, rows, noteVars, faults>>

EraseBalances ==
  /\ Step = "balances"
  /\ ledger' = [ledger EXCEPT ![Target].row = FALSE, ![Target].cents = 0]
  /\ Advance
  /\ UNCHANGED <<ledgerOnly, noteVars, faults>>

\* Mutant: each statement of the archive is caught by itself.
NextStatement == sweep.at + 1

\* A statement of the archive throws: the next step is behind all of them.
AfterArchiveFails == 7

\* Archive, step 1: every live entry is copied; one whose id is in the
\* archive already violates its primary key, and nothing is archived.
CopyEntries ==
  /\ Step = "insert"
  /\ IF ledger[Target].copied = 0
     THEN /\ ledger' = [ledger EXCEPT ![Target].copied = @ + ledger[Target].fresh,
                          ![Target].fresh = 0, ![Target].window = TRUE]
          /\ Advance
          /\ UNCHANGED noteVars
     ELSE /\ Note("entries")
          /\ sweep' = [sweep EXCEPT !.at = AfterArchiveFails]
          /\ UNCHANGED ledger
  /\ UNCHANGED <<ledgerOnly, faults>>

\* Step 2.
EraseLines ==
  /\ Step = "lines"
  /\ ledger' = [ledger EXCEPT ![Target].lined = FALSE]
  /\ Advance
  /\ UNCHANGED <<ledgerOnly, noteVars, faults>>

\* Step 3: every live entry, copied or not; lines written since step 2 still
\* refer to their entries, and nothing is deleted.
EraseEntries ==
  /\ Step = "entries"
  /\ IF ~ledger[Target].lined
     THEN /\ ledger' = [ledger EXCEPT ![Target].lost = @ + ledger[Target].fresh,
               ![Target].copied = 0, ![Target].fresh = 0, ![Target].window = FALSE]
          /\ UNCHANGED noteVars
     ELSE /\ Note("entries")
          /\ ledger' = [ledger EXCEPT ![Target].window = FALSE]
  /\ Advance
  /\ UNCHANGED <<ledgerOnly, faults>>

\* The tenant's accounts; a balance row or a line may still refer to one.
EraseAccounts ==
  /\ Step = "accounts"
  /\ IF ~ledger[Target].row /\ ~ledger[Target].lined
     THEN /\ ledger' = [ledger EXCEPT ![Target].account = FALSE]
          /\ UNCHANGED noteVars
     ELSE Note("accounts") /\ UNCHANGED ledger
  /\ Advance
  /\ UNCHANGED <<ledgerOnly, faults>>

\* A statement throws: it is noted, and the run goes on behind it, behind the
\* whole archive when it is one of the archive's.
StepThrows ==
  LET archive == Step \in {"insert", "lines", "entries"} IN
  /\ Step \notin {"none", "list", "complete"}
  /\ Step = "customer" => "mapping" \in rows[Target]
  /\ Step = "objects" => sweep.found
  /\ Fault
  /\ Note(IF archive THEN "entries" ELSE Step)
  /\ sweep' = [sweep EXCEPT !.at = IF archive THEN AfterArchiveFails ELSE @ + 1]
  /\ ledger' = [ledger EXCEPT ![Target].window = FALSE]
  /\ UNCHANGED ledgerOnly

\* markCompleted goes by the id alone: a request cancelled meanwhile is
\* completed too.
Completed(r) == [deletion[r] EXCEPT !.status = "completed"]

\* The counts are stored, whatever errors there are; these go to the cron's
\* result, which nothing stores or logs.
Complete ==
  /\ Step = "complete"
  /\ deletion' = [deletion EXCEPT ![sweep.id] = Completed(sweep.id)]
  /\ EndRun
  /\ UNCHANGED <<baseVars, rows, kept>>

CompleteThrows ==
  /\ Step = "complete"
  /\ Fault
  /\ EndRun
  /\ UNCHANGED <<rowsOnly, rows>>

\* What a crash leaves of the run under way: nothing of the run, its errors
\* least of all, and what it has erased so far stays erased.
SweepCutOff ==
  /\ sweep' = NoSweep
  /\ IF sweep.at > 0 THEN ForgetErrors ELSE UNCHANGED noteVars
  /\ ledger' = [t \in Tenants |-> [ledger[t] EXCEPT !.window = FALSE]]
  /\ UNCHANGED <<rows, deletion, kept>>

SweepStep ==
  \/ FindExpired
  \/ NextRun
  \/ EraseCustomer
  \/ EraseTable
  \/ EraseBalances
  \/ CopyEntries
  \/ EraseLines
  \/ EraseEntries
  \/ EraseAccounts
  \/ ListObjects
  \/ ListThrows
  \/ EraseObjects
  \/ StepThrows
  \/ Complete
  \/ CompleteThrows

DeletionNext ==
  \/ \E h \in Handlers :
       \/ BeginRequest(h)
       \/ Refuse(h)
       \/ Create(h)
       \/ BeginCancel(h)
       \/ Cancel(h)
  \/ \E r \in Ids : GraceEnds(r)
  \/ \E t \in Deletable : TenantActs(t)
  \/ SweepStep

-----------------------------------------------------------------------------
(* Properties.                                                             *)

\* What is left of a tenant.
Left(t) ==
  LET l == ledger[t] IN
  rows[t] \cup (IF l.account \/ l.row THEN {"accounts"} ELSE {})
          \cup (IF l.fresh + l.copied > 0 THEN {"entries"} ELSE {})

\* When a request is completed, all that is left of its tenant is what this
\* very run failed to erase, what was written while it went on, accounts and
\* entries posted to since it began, and, of what earlier runs failed to erase
\* or did not find, nothing but the processor's customer and snapshot objects,
\* whose names are gone (executeDeletion, also when a run that was cut short is
\* repeated).
OnlyFailuresAreLeft ==
  [][\A r \in Ids :
       (deletion[r].status # "completed" /\ deletion'[r].status = "completed") =>
         LET t == deletion[r].tenant
         IN Left(t) \subseteq errors \cup written[t] \cup earlier[t] \cup
              (IF ledger[t].touched THEN {"accounts", "entries"} ELSE {})
    ]_<<baseVars, deletionVars>>

\* An entry leaves the books without a copy in the archive only if it was
\* posted between the archive's INSERT and its last DELETE.
OnlyLateEntriesAreLost ==
  \A t \in Tenants : ledger[t].lost <= ledger[t].late

\* A tenant whose only pending request was cancelled while the sweep had not
\* selected any request of that tenant is not erased, until a new one is filed.
CancelledInTimeIsKept == \A t \in kept : ~Selected(t)
=============================================================================
