------------------------------ MODULE RowChanges ------------------------------
(***************************************************************************)
(* Changes of single rows by administrators (trpc/routers/admin.ts) and by *)
(* tenants (trpc/routers/billing.ts, settings.ts, profile.ts, org-keys.ts, *)
(* addons.ts): how each procedure waits for the store, what it writes into *)
(* the audit log, and what it answers.                                     *)
(*                                                                         *)
(* The stores are asynchronous.  A procedure may await its store, answer   *)
(* with the store's promise ("passes"), or answer without it ("floats").   *)
(* The audit log is never awaited.                                         *)
(* Stores are optional dependencies: a procedure without its store refuses *)
(* (index.ts leaves those of rates, notes, roles, restores and the queue   *)
(* of notifications out).  What a change does to its row is abstracted,    *)
(* as are the procedures on a tenant's status (TenantStatus), on many      *)
(* tenants (BulkGrant) and on deletion requests (AccountDeletion).         *)
(***************************************************************************)
EXTENDS ServerLoad, Sequences

CONSTANTS
  AdminCalls,   \* bound: calls, numbered
  Wired         \* the procedures whose stores the router is given

ASSUME AdminAssumption == AdminCalls \subseteq Nat \ {0}

VARIABLES
  admin,        \* the calls
  applied       \* the calls whose changes have been made, in that order

adminVars == <<admin, applied>>

-----------------------------------------------------------------------------
(* The procedures.                                                         *)

\* How the store is called; what is logged when it has done as it was told,
\* and when it throws; and whether it may have nothing to change.
Shape(waits, onSuccess, onFailure, finds) ==
  [waits |-> waits, onSuccess |-> onSuccess, onFailure |-> onFailure, finds |-> finds]

Audited == Shape("awaits", "success", "failure", FALSE)

\* Mutant: the ledger is not awaited.
CreditsGrantFloating == Shape("floats", "success", "none", FALSE)

CreditsGrant == Audited

CreditsRefund == Audited

CreditsCorrection == Audited

UpdateGpuAllocation == Audited

UpdateGpuConfiguration == Audited

\* The entry says "success" before anything is known.
RatesCreateSell == Shape("passes", "success", "none", FALSE)

RatesUpdateSell == Shape("passes", "success", "none", TRUE)

RatesDeleteSell == Shape("floats", "success", "none", TRUE)

RatesCreateProvider == RatesCreateSell

RatesUpdateProvider == RatesUpdateSell

RatesDeleteProvider == RatesDeleteSell

\* The entry has no outcome.
NotesCreate == Shape("awaits", "plain", "none", FALSE)

NotesUpdate == Shape("passes", "success", "none", TRUE)

NotesDelete == Shape("floats", "success", "none", TRUE)

TenantChangeRole == Shape("floats", "plain", "none", FALSE)

NotificationSend == Shape("floats", "plain", "none", FALSE)

NotificationSendCustom == Shape("floats", "plain", "none", FALSE)

AffiliateBlockFingerprint == Shape("awaits", "none", "none", FALSE)

ComplianceTriggerExport == Shape("awaits", "plain", "none", FALSE)

\* Tenants' own procedures write no entry.
ChangePlan == Shape("awaits", "none", "none", FALSE)

SetInferenceMode == ChangePlan

UpdateSpendingLimits == ChangePlan

UpdateBillingEmail == ChangePlan

UpdateProfile == ChangePlan

StoreOrgKey == ChangePlan

EnableAddon == ChangePlan

DisableAddon == ChangePlan

\* The password is wrong, or the key is not there.
ChangePassword == Shape("awaits", "none", "none", TRUE)

DeleteOrgKey == ChangePassword

\* A referral that is there already is no error.
AffiliateRecordReferral == ChangePlan

RecordReferralRoute == ChangePlan

\* Updated without a wait, and read for the answer at once.
UpdateNotificationPreferences == Shape("floats", "none", "none", FALSE)

\* The service says whether it has restored; that is logged and then thrown.
RestoreFromSnapshot == Shape("awaits", "plain", "none", TRUE)

Procedures == [
  creditsGrant |-> CreditsGrant,
  creditsRefund |-> CreditsRefund,
  creditsCorrection |-> CreditsCorrection,
  updateGpuAllocation |-> UpdateGpuAllocation,
  updateGpuConfiguration |-> UpdateGpuConfiguration,
  ratesCreateSell |-> RatesCreateSell,
  ratesUpdateSell |-> RatesUpdateSell,
  ratesDeleteSell |-> RatesDeleteSell,
  ratesCreateProvider |-> RatesCreateProvider,
  ratesUpdateProvider |-> RatesUpdateProvider,
  ratesDeleteProvider |-> RatesDeleteProvider,
  notesCreate |-> NotesCreate,
  notesUpdate |-> NotesUpdate,
  notesDelete |-> NotesDelete,
  tenantChangeRole |-> TenantChangeRole,
  notificationSend |-> NotificationSend,
  notificationSendCustom |-> NotificationSendCustom,
  affiliateBlockFingerprint |-> AffiliateBlockFingerprint,
  complianceTriggerExport |-> ComplianceTriggerExport,
  restoreFromSnapshot |-> RestoreFromSnapshot,
  changePlan |-> ChangePlan,
  setInferenceMode |-> SetInferenceMode,
  updateSpendingLimits |-> UpdateSpendingLimits,
  updateBillingEmail |-> UpdateBillingEmail,
  affiliateRecordReferral |-> AffiliateRecordReferral,
  recordReferralRoute |-> RecordReferralRoute,
  updateProfile |-> UpdateProfile,
  changePassword |-> ChangePassword,
  storeOrgKey |-> StoreOrgKey,
  deleteOrgKey |-> DeleteOrgKey,
  enableAddon |-> EnableAddon,
  disableAddon |-> DisableAddon,
  updateNotificationPreferences |-> UpdateNotificationPreferences]

ASSUME WiredAssumption == Wired \subseteq DOMAIN Procedures

-----------------------------------------------------------------------------
Entries == {"none", "plain", "success", "failure"}

\* `shape`: that of the procedure called, NoShape before the call.
\* `change`: what has become of the change; `writing`: the entry that is being
\* inserted into the log, `entry`: the one that is there.  History: `after`,
\* the calls that had been answered when this one was made.
NoShape == Shape("none", "none", "none", FALSE)

NoCallYet == [shape |-> NoShape, change |-> "none", answer |-> "none",
              writing |-> "none", entry |-> "none", after |-> {}]

AdminInit ==
  /\ admin = [i \in AdminCalls |-> NoCallYet]
  /\ applied = <<>>

AdminTypeOK ==
  /\ admin \in [AdminCalls ->
       [shape : {Procedures[p] : p \in DOMAIN Procedures} \cup {NoShape},
        change : {"none", "asked", "made", "missed", "failed", "cut off"},
        answer : {"none", "ok", "error"},
        writing : Entries, entry : Entries, after : SUBSET AdminCalls]]
  /\ applied \in Seq(AdminCalls)

\* The store is called; whoever does not wait goes on to the log at once, and
\* answers at once unless the answer is the store's.
Ask(i) ==
  \E p \in Wired :
    LET shape == Procedures[p]
        waits == shape.waits = "awaits" IN
    /\ admin[i] = NoCallYet
    /\ \A j \in AdminCalls : admin[j] = NoCallYet => i <= j
    /\ Begin("adminCall")
    /\ admin' = [admin EXCEPT ![i] =
         [shape |-> shape, change |-> "asked", entry |-> "none",
          answer |-> IF shape.waits = "floats" THEN "ok" ELSE "none",
          writing |-> IF waits THEN "none" ELSE shape.onSuccess,
          after |-> {j \in AdminCalls : admin[j].answer # "none"}]]
    /\ UNCHANGED applied

\* The store has done as it was told.  Whoever awaits it logs that and answers.
Apply(i) ==
  LET shape == admin[i].shape IN
  /\ admin[i].change = "asked"
  /\ applied' = Append(applied, i)
  /\ admin' = [admin EXCEPT
       ![i].change = "made",
       ![i].answer = "ok",
       ![i].writing = IF shape.waits = "awaits" THEN shape.onSuccess ELSE @]

\* It finds nothing to change, or the restore was not successful: a promise is
\* no reason to refuse.
Miss(i) ==
  LET shape == admin[i].shape IN
  /\ admin[i].change = "asked"
  /\ shape.finds
  /\ admin' = [admin EXCEPT
       ![i].change = "missed",
       ![i].answer = IF shape.waits = "awaits" THEN "error" ELSE "ok",
       ![i].writing = IF shape.waits = "awaits" THEN shape.onSuccess ELSE @]
  /\ UNCHANGED applied

\* It throws: without a wait, an unhandled rejection, which is logged.
Throw(i) ==
  LET shape == admin[i].shape IN
  /\ admin[i].change = "asked"
  /\ admin' = [admin EXCEPT
       ![i].change = "failed",
       ![i].answer = IF shape.waits = "floats" THEN @ ELSE "error",
       ![i].writing = IF shape.waits = "awaits" THEN shape.onFailure ELSE @]
  /\ UNCHANGED applied

\* The audit log inserts its entry, or fails to.
WriteEntry(i) ==
  /\ admin[i].writing # "none"
  /\ \E entry \in {admin[i].writing, "none"} :
       admin' = [admin EXCEPT ![i].entry = entry, ![i].writing = "none"]
  /\ UNCHANGED applied

\* What is left when the process ends: rows and entries.
AdminCutOff ==
  /\ admin' = [i \in AdminCalls |->
       [admin[i] EXCEPT !.change = IF @ = "asked" THEN "cut off" ELSE @,
                        !.writing = "none"]]
  /\ UNCHANGED applied

AdminRequests == \E i \in AdminCalls : Ask(i)

AdminEvents ==
  /\ \E i \in AdminCalls : Apply(i) \/ Miss(i) \/ Throw(i) \/ WriteEntry(i)
  /\ UNCHANGED budget

-----------------------------------------------------------------------------
(* Properties.                                                             *)

Before(i, j) ==
  \E m, n \in DOMAIN applied : m < n /\ applied[m] = i /\ applied[n] = j

\* The procedures that answer with the store's promise, and without it.
PassOn == {"ratesCreateSell", "ratesUpdateSell", "ratesCreateProvider",
           "ratesUpdateProvider", "notesUpdate"}

LetFloat == {"ratesDeleteSell", "ratesDeleteProvider", "notesDelete",
             "tenantChangeRole", "notificationSend", "notificationSendCustom",
             "updateNotificationPreferences"}

Among(i, procedures) == \E p \in procedures : admin[i].shape = Procedures[p]

\* Neither an audit entry nor an answer says of a change what is not so, and
\* changes are made in the order of an administrator who waits for each answer,
\* but for the procedures that do not await their store: those that pass its
\* promise on log too early and do not see what it has missed, those that let
\* it float may also be overtaken by the next change.  So credits, for one, are
\* granted, refunded and corrected as the log and the answers say.
OnlyUnawaitedMislead ==
  \A i \in AdminCalls :
    LET call == admin[i] IN
    /\ ~Among(i, PassOn \cup LetFloat) =>
         /\ call.entry = "success" => call.change = "made"
         /\ call.entry = "failure" => call.change = "failed"
         /\ call.answer = "ok" => call.change = "made"
    /\ Among(i, PassOn) => (call.answer = "ok" => call.change \in {"made", "missed"})
    /\ \A j \in AdminCalls : (j \in call.after /\ Before(i, j)) => Among(j, LetFloat)
=============================================================================
