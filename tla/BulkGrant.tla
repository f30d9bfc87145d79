------------------------------ MODULE BulkGrant ------------------------------
(***************************************************************************)
(* Mass grants of credits and their undo                                   *)
(* (admin/bulk/bulk-operations-store.ts: bulkGrant, undoGrant; procedures  *)
(* bulkGrant and bulkGrantUndo of trpc/routers/admin.ts).                  *)
(*                                                                         *)
(* A grant credits its tenants one by one, noting those that fail, and     *)
(* stores the undo record after the last one.  An undo reads the record,   *)
(* debits the tenants one by one and marks the record only if no debit     *)
(* failed.  Nothing keeps a second undo from starting meanwhile.           *)
(*                                                                         *)
(* The five minutes of the undo window are those in which an undo is asked *)
(* for: later it is refused, and nothing happens.                          *)
(*                                                                         *)
(* Abstracted: amounts, reasons, notifications and audit entries (they are *)
(* sent after the credits, and their failure is swallowed).                *)
(***************************************************************************)
EXTENDS TenantLedger

CONSTANTS
  Batches       \* the sets of tenants that are selected in this instance

ASSUME BatchAssumption == Batches \subseteq (SUBSET Tenants) \ {{}}

VARIABLES
  issued,     \* operation ids in use
  grant,      \* bulk_undo_grants: the record of an operation
  given,      \* tenants an operation has credited (history)
  taken,      \* how often a tenant was debited for an operation (history)
  unclean     \* operations of which an undo overlapped another, failed or
              \* was cut off (history)

grantVars == <<issued, grant, given, taken, unclean>>

GrantRow == [stored : BOOLEAN, tenants : SUBSET Tenants, undone : BOOLEAN]

NoGrant == [stored |-> FALSE, tenants |-> {}, undone |-> FALSE]

GrantInit ==
  /\ issued = {}
  /\ grant = [g \in Ids |-> NoGrant]
  /\ given = [g \in Ids |-> {}]
  /\ taken = [g \in Ids |-> [t \in Tenants |-> 0]]
  /\ unclean = {}

GrantTypeOK ==
  /\ issued \subseteq Ids
  /\ grant \in [Ids -> GrantRow]
  /\ given \in [Ids -> SUBSET Tenants]
  /\ taken \in [Ids -> [Tenants -> Nat]]
  /\ unclean \subseteq Ids

-----------------------------------------------------------------------------
\* bulkGrant, for a non-empty set of tenants.
BeginGrant(h) ==
  \E g \in Fresh(issued), ts \in Batches :
    /\ Begin("grant", h, [Idle EXCEPT !.at = "credit", !.id = g, !.todo = ts])
    /\ issued' = issued \cup {g}
    /\ UNCHANGED <<ledger, faults, grant, given, taken, unclean>>

\* One round of the loop over the tenants: a credit, or its error.
CreditNext(h) ==
  LET l == req[h] IN
  /\ l.at = "credit"
  /\ \E t \in l.todo :
       LET rest == [l EXCEPT !.todo = @ \ {t},
                             !.at = IF l.todo = {t} THEN "record" ELSE @]
       IN \/ /\ Credit(t)
             /\ given' = [given EXCEPT ![l.id] = @ \cup {t}]
             /\ Continue(h, [rest EXCEPT !.done = @ \cup {t}])
             /\ UNCHANGED faults
          \/ /\ Fault
             /\ Continue(h, rest)
             /\ UNCHANGED <<ledger, given>>
  /\ UNCHANGED <<issued, grant, taken, unclean>>

\* Mutant: the record names every tenant that was asked for.
RecordedAll(l) ==
  [stored |-> TRUE, tenants |-> Tenants, undone |-> FALSE]

Recorded(l) ==
  [stored |-> TRUE, tenants |-> l.done, undone |-> FALSE]

\* insertUndoableGrant, and the answer; it may throw.
RecordGrant(h) ==
  /\ req[h].at = "record"
  /\ \/ /\ grant' = [grant EXCEPT ![req[h].id] = Recorded(req[h])]
        /\ UNCHANGED faults
     \/ Fault /\ UNCHANGED grant
  /\ Answer(h)
  /\ UNCHANGED <<ledger, issued, given, taken, unclean>>

Undoing(g) == \E h \in Handlers : req[h].at \in {"debit", "mark"} /\ req[h].id = g

\* undoGrant: the record is there and not undone.
BeginUndo(h) ==
  \E g \in Ids :
    /\ grant[g].stored
    /\ ~grant[g].undone
    /\ Begin("grant", h, [Idle EXCEPT !.id = g, !.todo = grant[g].tenants,
                   !.at = IF grant[g].tenants = {} THEN "mark" ELSE "debit"])
    /\ unclean' = IF Undoing(g) THEN unclean \cup {g} ELSE unclean
    /\ UNCHANGED <<ledger, faults, issued, grant, given, taken>>

\* One round of the loop: a debit, or its error (no funds, or it throws).
DebitNext(h) ==
  LET l == req[h] IN
  /\ l.at = "debit"
  /\ \E t \in l.todo :
       LET rest == [l EXCEPT !.todo = @ \ {t},
                             !.at = IF l.todo = {t} THEN "mark" ELSE @]
       IN \/ /\ Debit(t)
             /\ taken' = [taken EXCEPT ![l.id][t] = @ + 1]
             /\ Continue(h, rest)
             /\ UNCHANGED faults
          \/ /\ \/ ledger[t].cents = 0 /\ UNCHANGED faults
                \/ Fault
             /\ Continue(h, [rest EXCEPT !.failed = TRUE])
             /\ UNCHANGED <<ledger, taken>>
  /\ UNCHANGED <<issued, grant, given, unclean>>

\* Mutant: the record is left as it was.
MarkedNever(g) == grant[g]

Marked(g) == [grant[g] EXCEPT !.undone = TRUE]

\* markGrantUndone unless a debit failed, and the answer; it may throw.
MarkUndone(h) ==
  LET l == req[h] IN
  /\ l.at = "mark"
  /\ \/ /\ ~l.failed
        /\ grant' = [grant EXCEPT ![l.id] = Marked(l.id)]
        /\ UNCHANGED <<unclean, faults>>
     \/ /\ \/ l.failed /\ UNCHANGED faults
           \/ Fault
        /\ unclean' = unclean \cup {l.id}
        /\ UNCHANGED grant
  /\ Answer(h)
  /\ UNCHANGED <<ledger, issued, given, taken>>

\* What a crash leaves of the undos under way.
GrantsCutOff ==
  /\ unclean' = unclean \cup {g \in Ids : Undoing(g)}
  /\ UNCHANGED <<issued, grant, given, taken>>

GrantNext ==
  \/ \E h \in Handlers :
       \/ BeginGrant(h)
       \/ CreditNext(h)
       \/ RecordGrant(h)
       \/ BeginUndo(h)
       \/ DebitNext(h)
       \/ MarkUndone(h)
  \/ \E t \in Tenants : Spend(t) /\ UNCHANGED grantVars

-----------------------------------------------------------------------------
\* Where an operation stands, seen from outside.
Stage(g) ==
  CASE grant[g].undone -> "undone"
    [] grant[g].stored /\ ~grant[g].undone -> "recorded"
    [] \E h \in Handlers : req[h].at \in {"credit", "record"} /\ req[h].id = g
         -> "granting"
    [] g \notin issued -> "new"
    [] OTHER -> "abandoned"

Promise == INSTANCE UndoableGrant WITH
  stage <- [g \in Ids |-> Stage(g)],
  given <- given,
  taken <- [g \in Ids |-> {t \in Tenants : taken[g][t] > 0}]

\* However credits, debits, the record and its mark fail, overlap or are cut
\* off by a crash, a bulk grant keeps its promise: only tenants that were
\* credited are debited, and it is marked undone only when all of them were.
GrantKeepsPromise == Promise!Spec

\* A tenant is debited twice for one grant only if undos of it overlapped, or
\* an earlier undo failed halfway or was cut off.
UndoneOnce ==
  \A g \in Ids, t \in Tenants : taken[g][t] > 1 => g \in unclean
=============================================================================
